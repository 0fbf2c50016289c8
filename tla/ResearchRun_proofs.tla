------------------------- MODULE ResearchRun_proofs -------------------------
(***************************************************************************)
(* Theorems about ResearchRun, for every number of workers, clients,       *)
(* transitions, faults and waiting deliveries.                             *)
(***************************************************************************)
EXTENDS ResearchRun, TLAPS

-----------------------------------------------------------------------------
\* The transition table.

LEMMA AllowedStates == \A s \in States : Allowed(s) \subseteq States
  BY DEF Allowed, States, Stages, Terminal, Interrupted, Awaiting, Diversions, Successor

\* Only a stage can be paused or fail: what is remembered of it is a stage.
LEMMA InterruptedAtStage ==
  \A s \in States :
    "PAUSED" \in Allowed(s) \/ "FAILED_RETRYABLE" \in Allowed(s) => s \in Stages
  BY DEF Allowed, States, Stages, Terminal, Interrupted, Awaiting, Diversions, Successor

\* Every stage can fail.
LEMMA StagesMayFail == \A s \in Stages : "FAILED_RETRYABLE" \in Allowed(s)
  BY DEF Allowed, Stages, Terminal, Awaiting, Diversions

\* A run that is over stays as it is.
LEMMA TerminalIsFinal == \A s \in Terminal : Allowed(s) = {}
  BY DEF Allowed, Terminal, Awaiting

LEMMA DeliveriesAre ==
  /\ \A s \in States : Execute(s) \in Deliveries
  /\ Finalize \in Deliveries
  /\ Idle \in WorkerStates
  /\ \A m \in Deliveries : m.stage \in States
  BY BoundsAssumption DEF Deliveries, Execute, Finalize, Idle, WorkerStates, States, Stages

-----------------------------------------------------------------------------
\* Types.

LEMMA TypeInit == Init => TypeOK
<1> SUFFICES ASSUME Init PROVE TypeOK
  OBVIOUS
<1>1. queue \subseteq Deliveries
  BY DeliveriesAre DEF Init, States, Stages
<1>2. worker \in [Workers -> WorkerStates]
  BY DeliveriesAre DEF Init
<1>3. client \in [Clients -> ClientStates]
  BY DEF Init, NoRequest, ClientStates, States, Stages
<1>4. faults \in 0..MaxFaults
  BY BoundsAssumption DEF Init
<1>5. /\ mode \in Modes
      /\ state \in States
      /\ pausedFrom \in Stages
      /\ failedStage \in Stages
  BY DEF Init, States, Stages
<1>6. version \in 0..MaxVersion
  BY BoundsAssumption DEF Init
<1>7. /\ short \in BOOLEAN
      /\ consent \in BOOLEAN
      /\ synthesised \in BOOLEAN
      /\ control \in {"none", "pause", "cancel"}
  BY DEF Init
<1> QED
  BY <1>1, <1>2, <1>3, <1>4, <1>5, <1>6, <1>7 DEF TypeOK

\* What the end of a task leaves behind, whatever it publishes.
LEMMA FinishType ==
  ASSUME TypeOK, NEW w \in Workers, NEW ms \in SUBSET Deliveries,
         Become(w, Idle),
         \/ queue' = queue \cup ms /\ UNCHANGED faults
         \/ /\ Fault
            /\ queue' \in {queue, queue \cup {worker[w].msg},
                           queue \cup ms \cup {worker[w].msg}}
  PROVE  /\ worker' \in [Workers -> WorkerStates]
         /\ queue' \subseteq Deliveries
         /\ faults' \in 0..MaxFaults
<1>1. worker' \in [Workers -> WorkerStates]
  BY DeliveriesAre DEF TypeOK, Become
<1>2. worker[w].msg \in Deliveries
  BY DEF TypeOK, WorkerStates
<1>3. queue' \subseteq Deliveries
  BY <1>2 DEF TypeOK
<1>4. faults' \in 0..MaxFaults
  BY BoundsAssumption DEF TypeOK, Fault
<1> QED
  BY <1>1, <1>3, <1>4

LEMMA FinishNothing ==
  ASSUME TypeOK, NEW w \in Workers, Finish(w, {})
  PROVE  /\ worker' \in [Workers -> WorkerStates]
         /\ queue' \subseteq Deliveries
         /\ faults' \in 0..MaxFaults
<1> DEFINE ms == {}
<1>1. ms \in SUBSET Deliveries /\ Finish(w, ms)
  OBVIOUS
<1> HIDE DEF ms
<1> QED
  BY <1>1, FinishType DEF Finish

LEMMA FailType ==
  ASSUME TypeOK, NEW w \in Workers, Fail(w)
  PROVE  worker' \in [Workers -> WorkerStates]
  BY DeliveriesAre DEF TypeOK, Fail, Become, Idle, WorkerStates

LEMMA TransitionType ==
  ASSUME TypeOK, NEW next, next \in Allowed(state), state' = next,
         version < MaxVersion, version' = version + 1
  PROVE  state' \in States /\ version' \in 0..MaxVersion
  BY AllowedStates, BoundsAssumption DEF TypeOK

LEMMA EnqueueType ==
  ASSUME TypeOK, NEW s \in States, Enqueue(Execute(s))
  PROVE  queue' \subseteq Deliveries /\ faults' \in 0..MaxFaults
<1>1. Execute(s) \in Deliveries
  BY DeliveriesAre
<1> QED
  BY <1>1, BoundsAssumption DEF TypeOK, Enqueue, Publish, Fault

\* A worker's own steps keep the types.
LEMMA TypeWorker == ASSUME TypeOK, NEW w \in Workers, WorkerStep(w) PROVE TypeOK'
<1>1. CASE \E m \in queue : Receive(w, m)
  <2>1. PICK m \in queue : Receive(w, m)
    BY <1>1
  <2>2. worker' \in [Workers -> WorkerStates]
    BY <2>1, DeliveriesAre DEF Receive, Become, TypeOK, Idle, WorkerStates
  <2> QED
    BY <2>1, <2>2 DEF Receive, TypeOK, run, progress
<1>2. CASE PrepareAnalysis(w)
  <2>1. CASE Finish(w, {Finalize})
    <3> DEFINE ms == {Finalize}
    <3>1. ms \in SUBSET Deliveries /\ Finish(w, ms)
      BY <2>1, DeliveriesAre
    <3> HIDE DEF ms
    <3>2. /\ worker' \in [Workers -> WorkerStates]
          /\ queue' \subseteq Deliveries
          /\ faults' \in 0..MaxFaults
      BY <3>1, FinishType DEF Finish
    <3> QED
      BY <1>2, <3>2 DEF PrepareAnalysis, TypeOK, run, progress
  <2>2. CASE Fault /\ Fail(w) /\ UNCHANGED queue
    BY <1>2, <2>2, FailType, BoundsAssumption
       DEF PrepareAnalysis, Fault, TypeOK, run, progress
  <2> QED
    BY <1>2, <2>1, <2>2 DEF PrepareAnalysis
<1>3. CASE IgnoreStale(w)
  BY <1>3, FinishNothing DEF IgnoreStale, TypeOK, run, progress
<1>4. CASE BarrierWaits(w)
  BY <1>4, FinishNothing DEF BarrierWaits, TypeOK, run, progress
<1>5. CASE BeginStage(w)
  <2> DEFINE next == [worker[w] EXCEPT !.step = IF control # "none" \/ state \notin Stages
                                                THEN "commit" ELSE "stage",
                                       !.ver = version,
                                       !.ctl = control]
  <2>a. next \in WorkerStates
    BY DEF TypeOK, WorkerStates
  <2>b. worker' = [worker EXCEPT ![w] = next]
    BY <1>5 DEF BeginStage, Become
  <2>1. worker' \in [Workers -> WorkerStates]
    <3> HIDE DEF next
    <3> QED
      BY <2>a, <2>b DEF TypeOK
  <2> QED
    BY <1>5, <2>1 DEF BeginStage, TypeOK, run, progress
<1>6. CASE StageReturns(w)
  <2>1. worker' \in [Workers -> WorkerStates]
    BY <1>6 DEF StageReturns, Become, TypeOK, WorkerStates
  <2> QED
    BY <1>6, <2>1 DEF StageReturns, TypeOK, run, progress
<1>7. CASE SynthesisDiffers(w)
  BY <1>7, FailType DEF SynthesisDiffers, TypeOK, run, progress
<1>8. CASE CommitStage(w)
  <2> DEFINE ctl == worker[w].ctl
             more == IF state' \in Recoverable THEN {Execute(state')} ELSE {}
  <2>1. PICK allowed \in BOOLEAN : Transition(NextState(state, mode, ctl, short', allowed))
    BY <1>8 DEF CommitStage
  <2>2. state' \in States /\ version' \in 0..MaxVersion /\ mode' = mode
    BY <2>1, TransitionType DEF Transition
  <2>3. more \in SUBSET Deliveries
    BY <2>2, DeliveriesAre
  <2>4. Finish(w, more)
    BY <1>8 DEF CommitStage
  <2>5. /\ worker' \in [Workers -> WorkerStates]
        /\ queue' \subseteq Deliveries
        /\ faults' \in 0..MaxFaults
    <3> HIDE DEF more
    <3> QED
      BY <2>3, <2>4, FinishType DEF Finish
  <2>6. ctl = "pause" => state \in Stages
    BY <2>1, InterruptedAtStage DEF Transition, NextState, TypeOK
  <2>7. pausedFrom' \in Stages
    BY <1>8, <2>6 DEF CommitStage, PausePoint, TypeOK
  <2>8. short' \in BOOLEAN
    BY <1>8 DEF CommitStage, TypeOK
  <2>9. synthesised' \in BOOLEAN
    BY <1>8, ZenonT(30) DEF CommitStage, TypeOK, WorkerStates
  <2>10. control' \in {"none", "pause", "cancel"}
    BY <1>8 DEF CommitStage, TypeOK
  <2> QED
    BY <1>8, <2>2, <2>5, <2>7, <2>8, <2>9, <2>10 DEF CommitStage, TypeOK
<1>9. CASE RefuseStage(w)
  BY <1>9, FailType DEF RefuseStage, TypeOK, run, progress
<1>10. CASE ReadForFailure(w)
  <2>1. CASE state = worker[w].msg.stage
    <3> DEFINE next == [worker[w] EXCEPT !.step = "marking", !.ver = version]
    <3>a. next \in WorkerStates
      BY DEF TypeOK, WorkerStates
    <3>b. worker' = [worker EXCEPT ![w] = next]
      BY <1>10, <2>1 DEF ReadForFailure, Become
    <3>1. worker' \in [Workers -> WorkerStates]
      <4> HIDE DEF next
      <4> QED
        BY <3>a, <3>b DEF TypeOK
    <3> QED
      BY <1>10, <2>1, <3>1 DEF ReadForFailure, TypeOK, run, progress
  <2>2. CASE state # worker[w].msg.stage
    BY <1>10, <2>2, FinishNothing DEF ReadForFailure, TypeOK, run, progress
  <2> QED
    BY <2>1, <2>2
<1>11. CASE MarkFailed(w)
  <2>1. /\ worker' \in [Workers -> WorkerStates]
        /\ queue' \subseteq Deliveries
        /\ faults' \in 0..MaxFaults
    <3>1. Finish(w, {})
      BY <1>11 DEF MarkFailed
    <3> QED
      BY <3>1, FinishNothing
  <2>2. CASE UNCHANGED run
    BY <1>11, <2>1, <2>2 DEF MarkFailed, TypeOK, run, progress
  <2>3. CASE ~UNCHANGED run
    <3>1. /\ "FAILED_RETRYABLE" \in Allowed(state)
          /\ Transition("FAILED_RETRYABLE") \/ Transition("FAILED_TERMINAL")
          /\ failedStage' = state
          /\ UNCHANGED <<short, pausedFrom, consent, synthesised>>
      BY <1>11, <2>3 DEF MarkFailed
    <3>2. state' \in States /\ version' \in 0..MaxVersion /\ mode' = mode
      BY <3>1, TransitionType DEF Transition
    <3>3. state \in Stages
      BY <3>1, InterruptedAtStage DEF TypeOK
    <3> QED
      BY <1>11, <2>1, <3>1, <3>2, <3>3 DEF MarkFailed, TypeOK
  <2> QED
    BY <2>2, <2>3
<1> QED
  BY <1>1, <1>2, <1>3, <1>4, <1>5, <1>6, <1>7, <1>8, <1>9, <1>10, <1>11 DEF WorkerStep

\* So does everything else that happens to a run.
LEMMA TypeNext == TypeOK /\ [Next]_vars => TypeOK'
<1> SUFFICES ASSUME TypeOK, [Next]_vars PROVE TypeOK'
  OBVIOUS
<1>1. ASSUME NEW w \in Workers, WorkerStep(w) PROVE TypeOK'
  BY <1>1, TypeWorker
<1>2. ASSUME NEW w \in Workers, StageRaises(w) PROVE TypeOK'
  <2>1. faults' \in 0..MaxFaults
    BY <1>2, BoundsAssumption DEF StageRaises, Fault, TypeOK
  <2>2. worker' \in [Workers -> WorkerStates]
    <3>1. CASE worker[w].msg = Finalize
      BY <1>2, <3>1, DeliveriesAre DEF StageRaises, Become, TypeOK
    <3>2. CASE worker[w].msg # Finalize
      BY <1>2, <3>2, FailType DEF StageRaises
    <3> QED
      BY <3>1, <3>2
  <2> QED
    BY <1>2, <2>1, <2>2 DEF StageRaises, TypeOK, run, progress
<1>3. ASSUME NEW w \in Workers, Crash(w) PROVE TypeOK'
  <2>1. faults' \in 0..MaxFaults
    BY <1>3, BoundsAssumption DEF Crash, Fault, TypeOK
  <2>2. worker' \in [Workers -> WorkerStates]
    BY <1>3, DeliveriesAre DEF Crash, Become, TypeOK
  <2>3. queue' \subseteq Deliveries
    <3>1. worker[w].msg \in Deliveries
      BY DEF TypeOK, WorkerStates
    <3> QED
      BY <1>3, <3>1 DEF Crash, TypeOK
  <2> QED
    BY <1>3, <2>1, <2>2, <2>3 DEF Crash, TypeOK, run, progress
<1>4. ASSUME NEW c \in Clients, ReadForControl(c) PROVE TypeOK'
  <2>1. client' \in [Clients -> ClientStates]
    BY <1>4 DEF ReadForControl, TypeOK, ClientStates
  <2> QED
    BY <1>4, <2>1 DEF ReadForControl, TypeOK, run, progress
<1>5. ASSUME NEW c \in Clients, RequestControl(c) PROVE TypeOK'
  <2>1. client[c] \in ClientStates
    BY DEF TypeOK
  <2>2. client[c].seen \in States /\ client[c].op \in {"none", "pause", "cancel"}
    BY <2>1 DEF ClientStates
  <2>3. client' \in [Clients -> ClientStates]
    BY <1>5 DEF RequestControl, TypeOK, ClientStates, NoRequest, States, Stages
  <2>4. queue' \subseteq Deliveries /\ faults' \in 0..MaxFaults
    BY <1>5, <2>2, EnqueueType DEF RequestControl
  <2> QED
    BY <1>5, <2>2, <2>3, <2>4 DEF RequestControl, TypeOK, run, progress
<1>6. CASE Resume
  <2> DEFINE back == IF state = "PAUSED" THEN pausedFrom ELSE failedStage
  <2>1. Transition(back) /\ Enqueue(Execute(back))
    BY <1>6 DEF Resume
  <2>2. back \in States
    BY DEF TypeOK, States
  <2>3. queue' \subseteq Deliveries /\ faults' \in 0..MaxFaults
    BY <2>1, <2>2, EnqueueType
  <2>4. state' \in States /\ version' \in 0..MaxVersion /\ mode' = mode
    BY <2>1, TransitionType DEF Transition
  <2> QED
    BY <1>6, <2>3, <2>4 DEF Resume, TypeOK, progress
<1>7. CASE DecideShortfall
  <2>1. queue' \subseteq Deliveries /\ faults' \in 0..MaxFaults
    <3>1. "ANALYZING" \in States
      BY DEF States, Stages
    <3> QED
      BY <1>7, <3>1, EnqueueType DEF DecideShortfall, TypeOK
  <2>2. state' \in States /\ version' \in 0..MaxVersion /\ mode' = mode
    BY <1>7, TransitionType DEF DecideShortfall, Transition
  <2>3. consent' \in BOOLEAN
    BY <1>7 DEF DecideShortfall
  <2>4. pausedFrom' \in Stages /\ failedStage' \in Stages
    BY <1>7 DEF DecideShortfall, Stages
  <2> QED
    BY <1>7, <2>1, <2>2, <2>3, <2>4 DEF DecideShortfall, TypeOK
<1>8. CASE ShardReports
  BY <1>8, DeliveriesAre DEF ShardReports, Publish, TypeOK, run, progress
<1>9. CASE Watchdog
  BY <1>9, DeliveriesAre DEF Watchdog, Publish, TypeOK, run, progress
<1>10. CASE UNCHANGED vars
  BY <1>10 DEF vars, run, progress, TypeOK
<1> QED
  BY <1>1, <1>2, <1>3, <1>4, <1>5, <1>6, <1>7, <1>8, <1>9, <1>10 DEF Next

\* Whatever crashes, gets lost, is repeated or overlaps, the row and everything
\* that was read from it stays within the states the code names, no delivery
\* names another one, and a run is paused or fails only at a stage.
THEOREM TypeCorrect == Spec => []TypeOK
  BY TypeInit, TypeNext, PTL DEF Spec

-----------------------------------------------------------------------------
\* One stage at a time.

\* A worker that is not, or no longer, inside a stage cannot disturb it, unless
\* it moves a run that another worker holds.
LEMMA OutsideOwnsNothing ==
  ASSUME TypeOK, StageOwnsRow, NEW w \in Workers, NEW x,
         x.step \notin {"stage", "commit"},
         worker' = [worker EXCEPT ![w] = x],
         \/ UNCHANGED <<state, version>>
         \/ \A v \in Workers \ {w} : worker[v].step \notin {"stage", "commit"}
  PROVE  StageOwnsRow'
<1> SUFFICES ASSUME NEW u \in Workers, worker'[u].step \in {"stage", "commit"}
             PROVE  /\ state' = worker'[u].msg.stage
                    /\ version' = worker'[u].ver
                    /\ \A v \in Workers \ {u} : worker'[v].step \notin {"stage", "commit"}
  BY DEF StageOwnsRow
<1>1. u # w /\ worker'[u] = worker[u]
  BY DEF TypeOK
<1>2. UNCHANGED <<state, version>>
  BY <1>1
<1>3. \A v \in Workers \ {u} : worker'[v].step \notin {"stage", "commit"}
  BY <1>1 DEF TypeOK, StageOwnsRow
<1> QED
  BY <1>1, <1>2, <1>3 DEF StageOwnsRow

LEMMA FailOwnsRow ==
  ASSUME TypeOK, StageOwnsRow, NEW w \in Workers, Fail(w), UNCHANGED <<state, version>>
  PROVE  StageOwnsRow'
<1> DEFINE x == [Idle EXCEPT !.step = "failed", !.msg = worker[w].msg, !.ver = version]
<1>1. x.step \notin {"stage", "commit"}
  BY DEF Idle
<1>2. worker' = [worker EXCEPT ![w] = x]
  BY DEF Fail, Become
<1> HIDE DEF x
<1> QED
  BY <1>1, <1>2, OutsideOwnsNothing

\* Who is inside is alone.
LEMMA InsideAlone ==
  ASSUME StageOwnsRow, NEW w \in Workers, worker[w].step \in {"stage", "commit"}
  PROVE  \A v \in Workers \ {w} : worker[v].step \notin {"stage", "commit"}
  BY DEF StageOwnsRow

LEMMA IdleIsOutside == Idle.step = "idle"
  BY DEF Idle

LEMMA OwnsRowWorker ==
  ASSUME TypeOK, StageOwnsRow, NEW w \in Workers, WorkerStep(w)
  PROVE  StageOwnsRow'
<1>1. CASE \E m \in queue : Receive(w, m)
  <2>1. PICK m \in queue : Receive(w, m)
    BY <1>1
  <2> DEFINE x == [Idle EXCEPT !.step = "received", !.msg = m]
  <2>2. x.step \notin {"stage", "commit"}
    BY DEF Idle
  <2>3. worker' = [worker EXCEPT ![w] = x] /\ UNCHANGED <<state, version>>
    BY <2>1 DEF Receive, Become, run
  <2> HIDE DEF x
  <2> QED
    BY <2>2, <2>3, OutsideOwnsNothing
<1>2. CASE PrepareAnalysis(w)
  <2>1. CASE Finish(w, {Finalize})
    BY <1>2, <2>1, IdleIsOutside, OutsideOwnsNothing
       DEF PrepareAnalysis, Finish, Become, run
  <2>2. CASE Fail(w)
    BY <1>2, <2>2, FailOwnsRow DEF PrepareAnalysis, run
  <2> QED
    BY <1>2, <2>1, <2>2 DEF PrepareAnalysis
<1>3. CASE IgnoreStale(w)
  BY <1>3, IdleIsOutside, OutsideOwnsNothing DEF IgnoreStale, Finish, Become, run
<1>4. CASE BarrierWaits(w)
  BY <1>4, IdleIsOutside, OutsideOwnsNothing DEF BarrierWaits, Finish, Become, run
<1>5. CASE BeginStage(w)
  <2>1. \A v \in Workers : worker[v].step \notin {"stage", "commit"}
    BY <1>5 DEF BeginStage, Locked
  <2>2. UNCHANGED <<state, version>>
    BY <1>5 DEF BeginStage, run
  <2>3. \A v \in Workers \ {w} : worker'[v] = worker[v]
    BY <1>5 DEF BeginStage, Become, TypeOK
  <2>4. worker'[w].msg = worker[w].msg /\ worker'[w].ver = version
    BY <1>5 DEF BeginStage, Become, TypeOK, WorkerStates
  <2>5. state = worker[w].msg.stage
    BY <1>5 DEF BeginStage
  <2> QED
    BY <2>1, <2>2, <2>3, <2>4, <2>5 DEF StageOwnsRow
<1>6. CASE StageReturns(w)
  <2>1. UNCHANGED <<state, version>>
    BY <1>6 DEF StageReturns, run
  <2>2. \A v \in Workers \ {w} : worker'[v] = worker[v]
    BY <1>6 DEF StageReturns, Become, TypeOK
  <2>3. worker'[w].msg = worker[w].msg /\ worker'[w].ver = worker[w].ver
    BY <1>6 DEF StageReturns, Become, TypeOK, WorkerStates
  <2>4. worker[w].step = "stage"
    BY <1>6 DEF StageReturns
  <2> QED
    BY <2>1, <2>2, <2>3, <2>4 DEF StageOwnsRow
<1>7. CASE SynthesisDiffers(w)
  BY <1>7, FailOwnsRow DEF SynthesisDiffers, run
<1>8. CASE CommitStage(w)
  <2>1. worker' = [worker EXCEPT ![w] = Idle]
    BY <1>8 DEF CommitStage, Finish, Become
  <2>2. \A v \in Workers \ {w} : worker[v].step \notin {"stage", "commit"}
    BY <1>8, InsideAlone DEF CommitStage
  <2> QED
    BY <2>1, <2>2, IdleIsOutside, OutsideOwnsNothing
<1>9. CASE RefuseStage(w)
  BY <1>9, FailOwnsRow DEF RefuseStage, run
<1>10. CASE ReadForFailure(w)
  <2>1. UNCHANGED <<state, version>>
    BY <1>10 DEF ReadForFailure, run
  <2>2. CASE state = worker[w].msg.stage
    <3> DEFINE x == [worker[w] EXCEPT !.step = "marking", !.ver = version]
    <3>1. x.step \notin {"stage", "commit"}
      BY DEF TypeOK, WorkerStates
    <3>2. worker' = [worker EXCEPT ![w] = x]
      BY <1>10, <2>2 DEF ReadForFailure, Become
    <3> HIDE DEF x
    <3> QED
      BY <2>1, <3>1, <3>2, OutsideOwnsNothing
  <2>3. CASE state # worker[w].msg.stage
    BY <1>10, <2>1, <2>3, IdleIsOutside, OutsideOwnsNothing
       DEF ReadForFailure, Finish, Become
  <2> QED
    BY <2>2, <2>3
<1>11. CASE MarkFailed(w)
  <2>1. worker' = [worker EXCEPT ![w] = Idle]
    BY <1>11 DEF MarkFailed, Finish, Become
  <2>2. \A v \in Workers : worker[v].step \notin {"stage", "commit"}
    BY <1>11 DEF MarkFailed, Locked
  <2> QED
    BY <2>1, <2>2, IdleIsOutside, OutsideOwnsNothing
<1> QED
  BY <1>1, <1>2, <1>3, <1>4, <1>5, <1>6, <1>7, <1>8, <1>9, <1>10, <1>11 DEF WorkerStep

LEMMA OwnsRowNext == TypeOK /\ StageOwnsRow /\ [Next]_vars => StageOwnsRow'
<1> SUFFICES ASSUME TypeOK, StageOwnsRow, [Next]_vars PROVE StageOwnsRow'
  OBVIOUS
<1>1. ASSUME NEW w \in Workers, WorkerStep(w) PROVE StageOwnsRow'
  BY <1>1, OwnsRowWorker
<1>2. ASSUME NEW w \in Workers, StageRaises(w) PROVE StageOwnsRow'
  <2>1. CASE worker[w].msg = Finalize
    BY <1>2, <2>1, IdleIsOutside, OutsideOwnsNothing DEF StageRaises, Become, run
  <2>2. CASE worker[w].msg # Finalize
    BY <1>2, <2>2, FailOwnsRow DEF StageRaises, run
  <2> QED
    BY <2>1, <2>2
<1>3. ASSUME NEW w \in Workers, Crash(w) PROVE StageOwnsRow'
  BY <1>3, IdleIsOutside, OutsideOwnsNothing DEF Crash, Become, run
<1>4. CASE worker' = worker /\ UNCHANGED <<state, version>>
  BY <1>4 DEF StageOwnsRow
<1>5. ASSUME NEW c \in Clients, ReadForControl(c) \/ RequestControl(c)
      PROVE  worker' = worker /\ UNCHANGED <<state, version>>
  BY <1>5 DEF ReadForControl, RequestControl, run
<1>6. CASE ShardReports \/ Watchdog \/ UNCHANGED vars
  BY <1>4, <1>6 DEF ShardReports, Watchdog, vars, run
<1>7. CASE Resume \/ DecideShortfall
  \* Both wait for the row lock, so nobody is inside a stage.
  BY <1>7 DEF Resume, DecideShortfall, Locked, StageOwnsRow
<1> QED
  BY <1>1, <1>2, <1>3, <1>4, <1>5, <1>6, <1>7 DEF Next

\* At most one worker is inside a stage of the run, and the row stays at the
\* state and version that worker saw until it ends: the row lock and the check
\* of the state under it, with any number of workers and repeated deliveries.
THEOREM StageHasRowToItself == Spec => []StageOwnsRow
<1>1. Init => StageOwnsRow
  BY IdleIsOutside DEF Init, StageOwnsRow
<1> QED
  BY <1>1, OwnsRowNext, TypeCorrect, PTL DEF Spec

-----------------------------------------------------------------------------
\* The pipeline order, read backwards.
LEMMA SuccessorOf ==
  ASSUME NEW s, NEW next, next = Successor(s)
  PROVE  /\ next = "ANALYZING" => s = "SELECTING"
         /\ next = "EVIDENCE_AUDITING" => s = "ANALYZING"
         /\ next = "SYNTHESIZING" => s = "EVIDENCE_AUDITING"
         /\ next = "RENDERING" => s = "SYNTHESIZING"
         /\ next = "RELEASE_CHECKING" => s = "RENDERING"
         /\ next = "COMPLETED" => s = "RELEASE_CHECKING"
         /\ next \notin {"PARTIALLY_COMPLETED", "PAUSED", "FAILED_RETRYABLE"}
  BY DEF Successor, NoState

\* The decision of execute_stage, read backwards: from what can each state that
\* the theorems are about have been reached?
LEMMA Backwards ==
  ASSUME NEW s \in States, NEW m \in Modes, NEW ctl \in {"none", "pause", "cancel"},
         NEW sh \in BOOLEAN, NEW ok \in BOOLEAN, NEW next,
         next = NextState(s, m, ctl, sh, ok)
  PROVE  /\ next = "ANALYZING" => s = "SELECTING" /\ ~sh
         /\ next = "EVIDENCE_AUDITING" => s = "ANALYZING"
         /\ next = "SYNTHESIZING" => s = "EVIDENCE_AUDITING"
         /\ next = "RENDERING" /\ m = "full_research" => s = "SYNTHESIZING" /\ ctl = "none"
         /\ next = "RELEASE_CHECKING" => s = "RENDERING"
         /\ next = "COMPLETED" => ~sh \/ m = "validate_only"
         /\ next = "PARTIALLY_COMPLETED" => sh
         /\ next \in {"COMPLETED", "PARTIALLY_COMPLETED"} /\ m = "full_research"
              => s = "RELEASE_CHECKING"
         /\ next = "PAUSED" => ctl = "pause"
         /\ next # "FAILED_RETRYABLE"
<1>1. CASE ctl = "cancel"
  BY <1>1 DEF NextState
<1>2. CASE ctl = "pause"
  BY <1>2 DEF NextState
<1>3. CASE ctl = "none" /\ next = Successor(s)
           /\ s # "RELEASE_CHECKING"
           /\ (s = "SELECTING" => ~sh)
           /\ (s \in {"SELECTING", "RENDERING"} => m # "search_only")
  BY <1>3, SuccessorOf
<1>4. CASE ctl = "none" /\ s \in {"RELEASE_CHECKING", "RENDERING", "SELECTING"}
  BY <1>3, <1>4 DEF NextState, Outcome, MetadataOnly, Awaiting
<1>5. CASE ctl = "none" /\ s \notin {"RELEASE_CHECKING", "RENDERING", "SELECTING"}
  <2>1. CASE s = "CANCEL_REQUESTED"
    BY <1>5, <2>1 DEF NextState
  <2>2. CASE s = "QUEUED" /\ m = "validate_only"
    BY <1>5, <2>2 DEF NextState
  <2>3. CASE s = "RELEVANCE_SCORING" /\ m = "search_only"
    BY <1>5, <2>3 DEF NextState, MetadataOnly
  <2>4. CASE /\ s # "CANCEL_REQUESTED"
             /\ ~(s = "QUEUED" /\ m = "validate_only")
             /\ ~(s = "RELEVANCE_SCORING" /\ m = "search_only")
    <3>1. next = Successor(s)
      BY <1>5, <2>4 DEF NextState, MetadataOnly
    <3> QED
      BY <1>3, <1>5, <3>1
  <2> QED
    BY <2>1, <2>2, <2>3, <2>4
<1> QED
  BY <1>1, <1>2, <1>4, <1>5

\* What a commit does to the row.
Decided(w) ==
  /\ worker[w].step = "commit"
  /\ short' \in BOOLEAN
  /\ UNCHANGED short \/ (worker[w].ran /\ state \in CountingStages)
  /\ \E allowed \in BOOLEAN :
       state' = NextState(state, mode, worker[w].ctl, short', allowed)
  /\ state' \in Allowed(state)
  /\ pausedFrom' = IF worker[w].ctl = "pause" THEN state ELSE pausedFrom
  /\ synthesised' = (synthesised \/ (worker[w].ran /\ state = "SYNTHESIZING"))
  /\ UNCHANGED <<mode, failedStage, consent>>

\* What a recorded failure does to it.
Failed ==
  /\ state \in Stages
  /\ \/ state' = "FAILED_RETRYABLE"
     \/ state \in BudgetedStages /\ state' = "FAILED_TERMINAL"
  /\ failedStage' = state
  /\ UNCHANGED <<mode, short, pausedFrom, consent, synthesised>>

\* What resuming does to it.
Resumed ==
  /\ state \in Interrupted
  /\ state' = IF state = "PAUSED" THEN pausedFrom ELSE failedStage
  /\ UNCHANGED <<mode, short, progress, synthesised>>

\* What the answer to a shortfall does to it.
Answered ==
  /\ state = Awaiting
  /\ \/ state' = "ANALYZING" /\ consent' = TRUE
     \/ state' = "CANCEL_REQUESTED" /\ consent' = FALSE
  /\ UNCHANGED <<mode, short, synthesised>>

LEMMA CommitDecides == ASSUME TypeOK, NEW w \in Workers, CommitStage(w) PROVE Decided(w)
<1>1. /\ short' \in BOOLEAN
      /\ UNCHANGED short \/ (worker[w].ran /\ state \in CountingStages)
  BY DEF CommitStage, TypeOK
<1> QED
  BY <1>1 DEF CommitStage, Decided, Transition, PausePoint

LEMMA MarkFails == ASSUME TypeOK, NEW w \in Workers, MarkFailed(w)
                   PROVE  Failed \/ UNCHANGED run
<1>1. CASE version = worker[w].ver /\ "FAILED_RETRYABLE" \in Allowed(state)
  <2>1. state \in Stages
    BY <1>1, InterruptedAtStage DEF TypeOK
  <2> QED
    BY <1>1, <2>1 DEF MarkFailed, Failed, Transition
<1>2. CASE ~(version = worker[w].ver /\ "FAILED_RETRYABLE" \in Allowed(state))
  BY <1>2 DEF MarkFailed
<1> QED
  BY <1>1, <1>2

\* Nothing else touches the row.
LEMMA RowMoves ==
  ASSUME TypeOK, [Next]_vars
  PROVE  \/ UNCHANGED run
         \/ \E w \in Workers : Decided(w)
         \/ Failed
         \/ Resumed
         \/ Answered
<1>1. ASSUME NEW w \in Workers, WorkerStep(w)
      PROVE  UNCHANGED run \/ Decided(w) \/ Failed
  <2>1. CASE CommitStage(w)
    BY <2>1, CommitDecides
  <2>2. CASE MarkFailed(w)
    BY <2>2, MarkFails
  <2>3. CASE ~CommitStage(w) /\ ~MarkFailed(w)
    BY <1>1, <2>3 DEF WorkerStep, Receive, PrepareAnalysis, IgnoreStale, BarrierWaits,
       BeginStage, StageReturns, SynthesisDiffers, RefuseStage, ReadForFailure
  <2> QED
    BY <2>1, <2>2, <2>3
<1>2. ASSUME NEW w \in Workers, StageRaises(w) \/ Crash(w) PROVE UNCHANGED run
  BY <1>2 DEF StageRaises, Crash
<1>3. ASSUME NEW c \in Clients, ReadForControl(c) \/ RequestControl(c) PROVE UNCHANGED run
  BY <1>3 DEF ReadForControl, RequestControl
<1>4. CASE Resume
  BY <1>4 DEF Resume, Resumed, Transition
<1>5. CASE DecideShortfall
  BY <1>5 DEF DecideShortfall, Answered, Transition
<1>6. CASE ShardReports \/ Watchdog \/ UNCHANGED vars
  BY <1>6 DEF ShardReports, Watchdog, vars
<1> QED
  BY <1>1, <1>2, <1>3, <1>4, <1>5, <1>6 DEF Next

-----------------------------------------------------------------------------
\* The user's consent.

LEMMA ConsentNext ==
  ASSUME TypeOK, ShortfallConsented, [Next]_vars
  PROVE  ShortfallConsented'
<1>1. CASE UNCHANGED run
  BY <1>1 DEF ShortfallConsented, Places, run, progress
<1>2. ASSUME NEW w \in Workers, Decided(w) PROVE ShortfallConsented'
  <2>1. PICK ok \in BOOLEAN : state' = NextState(state, mode, worker[w].ctl, short', ok)
    BY <1>2 DEF Decided
  <2>2. worker[w].ctl \in {"none", "pause", "cancel"}
    BY DEF TypeOK, WorkerStates
  <2>3. short' \in BOOLEAN
    BY <1>2 DEF Decided, TypeOK
  <2>4. /\ state' = "ANALYZING" => ~short'
        /\ state' = "EVIDENCE_AUDITING" => state = "ANALYZING"
        /\ state' = "SYNTHESIZING" => state = "EVIDENCE_AUDITING"
        /\ state' = "PAUSED" => worker[w].ctl = "pause"
        /\ state' # "FAILED_RETRYABLE"
    BY <2>1, <2>2, <2>3, Backwards DEF TypeOK
  <2>5. state \in {"ANALYZING", "EVIDENCE_AUDITING", "SYNTHESIZING"} => UNCHANGED short
    BY <1>2 DEF Decided, CountingStages
  <2>6. pausedFrom' = IF worker[w].ctl = "pause" THEN state ELSE pausedFrom
    BY <1>2 DEF Decided
  <2> QED
    BY <1>2, <2>4, <2>5, <2>6 DEF Decided, ShortfallConsented, Places
<1>3. CASE Failed
  BY <1>3 DEF Failed, ShortfallConsented, Places, Stages
<1>4. CASE Resumed
  BY <1>4 DEF Resumed, ShortfallConsented, Places, Interrupted, TypeOK, Stages, progress
<1>5. CASE Answered
  BY <1>5 DEF Answered, ShortfallConsented, Places
<1> QED
  BY <1>1, <1>2, <1>3, <1>4, <1>5, RowMoves

\* With any number of workers, requests, repeated deliveries, pauses and
\* failures, a run that misses its target is analysed only after the user has
\* accepted the shortfall.
THEOREM NoSilentShortfall == Spec => []ShortfallConsented
<1>1. Init => ShortfallConsented
  BY DEF Init, ShortfallConsented, Places
<1> QED
  BY <1>1, ConsentNext, TypeCorrect, PTL DEF Spec

-----------------------------------------------------------------------------
\* The final state.

LEMMA OutcomeNext ==
  ASSUME TypeOK, OutcomeDisclosesShortfall, [Next]_vars
  PROVE  OutcomeDisclosesShortfall'
<1>1. CASE UNCHANGED run
  BY <1>1 DEF OutcomeDisclosesShortfall, run
<1>2. ASSUME NEW w \in Workers, Decided(w) PROVE OutcomeDisclosesShortfall'
  <2>1. PICK ok \in BOOLEAN : state' = NextState(state, mode, worker[w].ctl, short', ok)
    BY <1>2 DEF Decided
  <2>2. worker[w].ctl \in {"none", "pause", "cancel"} /\ short' \in BOOLEAN
    BY <1>2 DEF TypeOK, WorkerStates, Decided
  <2>3. /\ state' = "COMPLETED" => ~short' \/ mode = "validate_only"
        /\ state' = "PARTIALLY_COMPLETED" => short'
    BY <2>1, <2>2, Backwards DEF TypeOK
  <2> QED
    BY <1>2, <2>3 DEF Decided, OutcomeDisclosesShortfall
<1>3. CASE Failed
  BY <1>3 DEF Failed, OutcomeDisclosesShortfall
<1>4. CASE Resumed
  BY <1>4 DEF Resumed, OutcomeDisclosesShortfall, TypeOK, Stages
<1>5. CASE Answered
  BY <1>5 DEF Answered, OutcomeDisclosesShortfall
<1> QED
  BY <1>1, <1>2, <1>3, <1>4, <1>5, RowMoves

\* The final state keeps agreeing with the counts of the row, with which no late
\* delivery, failure or request can tamper any more.
THEOREM OutcomeIsHonest == Spec => []OutcomeDisclosesShortfall
<1>1. Init => OutcomeDisclosesShortfall
  BY DEF Init, OutcomeDisclosesShortfall
<1> QED
  BY <1>1, OutcomeNext, TypeCorrect, PTL DEF Spec

-----------------------------------------------------------------------------
\* The synthesis behind a release.

\* A stage that commits without a request has run its handler.
HandlerRan ==
  \A w \in Workers :
    worker[w].step = "commit" /\ worker[w].ctl = "none" /\ state \in Stages
      => worker[w].ran

\* A worker that is not about to commit has nothing to show.
LEMMA OutsideRanNothing ==
  ASSUME TypeOK, HandlerRan, NEW w \in Workers, NEW x, x.step # "commit",
         worker' = [worker EXCEPT ![w] = x],
         \/ UNCHANGED state
         \/ \A v \in Workers \ {w} : worker[v].step # "commit"
  PROVE  HandlerRan'
  BY DEF TypeOK, HandlerRan

LEMMA FailRanNothing ==
  ASSUME TypeOK, HandlerRan, NEW w \in Workers, Fail(w), UNCHANGED state
  PROVE  HandlerRan'
<1> DEFINE x == [Idle EXCEPT !.step = "failed", !.msg = worker[w].msg, !.ver = version]
<1>1. x.step # "commit"
  BY DEF Idle
<1>2. worker' = [worker EXCEPT ![w] = x]
  BY DEF Fail, Become
<1> HIDE DEF x
<1> QED
  BY <1>1, <1>2, OutsideRanNothing

LEMMA HandlerRanWorker ==
  ASSUME TypeOK, StageOwnsRow, HandlerRan, NEW w \in Workers, WorkerStep(w)
  PROVE  HandlerRan'
<1>1. CASE \E m \in queue : Receive(w, m)
  <2>1. PICK m \in queue : Receive(w, m)
    BY <1>1
  <2> DEFINE x == [Idle EXCEPT !.step = "received", !.msg = m]
  <2>2. x.step # "commit"
    BY DEF Idle
  <2>3. worker' = [worker EXCEPT ![w] = x] /\ UNCHANGED state
    BY <2>1 DEF Receive, Become, run
  <2> HIDE DEF x
  <2> QED
    BY <2>2, <2>3, OutsideRanNothing
<1>2. CASE PrepareAnalysis(w)
  <2>1. CASE Finish(w, {Finalize})
    BY <1>2, <2>1, IdleIsOutside, OutsideRanNothing
       DEF PrepareAnalysis, Finish, Become, run
  <2>2. CASE Fail(w)
    BY <1>2, <2>2, FailRanNothing DEF PrepareAnalysis, run
  <2> QED
    BY <1>2, <2>1, <2>2 DEF PrepareAnalysis
<1>3. CASE IgnoreStale(w) \/ BarrierWaits(w)
  BY <1>3, IdleIsOutside, OutsideRanNothing
     DEF IgnoreStale, BarrierWaits, Finish, Become, run
<1>5. CASE BeginStage(w)
  <2>1. UNCHANGED state
    BY <1>5 DEF BeginStage, run
  <2>2. \A v \in Workers \ {w} : worker'[v] = worker[v]
    BY <1>5 DEF BeginStage, Become, TypeOK
  <2>3. worker'[w].step = "commit" => control # "none" \/ state \notin Stages
    BY <1>5 DEF BeginStage, Become, TypeOK, WorkerStates
  <2>4. worker'[w].ctl = control
    BY <1>5 DEF BeginStage, Become, TypeOK, WorkerStates
  <2> QED
    BY <2>1, <2>2, <2>3, <2>4 DEF HandlerRan
<1>6. CASE StageReturns(w)
  <2>1. UNCHANGED state
    BY <1>6 DEF StageReturns, run
  <2>2. \A v \in Workers \ {w} : worker'[v] = worker[v]
    BY <1>6 DEF StageReturns, Become, TypeOK
  <2>3. worker'[w].ran
    BY <1>6 DEF StageReturns, Become, TypeOK, WorkerStates
  <2> QED
    BY <2>1, <2>2, <2>3 DEF HandlerRan
<1>7. CASE SynthesisDiffers(w) \/ RefuseStage(w)
  BY <1>7, FailRanNothing DEF SynthesisDiffers, RefuseStage, run
<1>8. CASE CommitStage(w)
  <2>1. worker' = [worker EXCEPT ![w] = Idle]
    BY <1>8 DEF CommitStage, Finish, Become
  <2>2. \A v \in Workers \ {w} : worker[v].step # "commit"
    BY <1>8, InsideAlone DEF CommitStage
  <2> QED
    BY <2>1, <2>2, IdleIsOutside, OutsideRanNothing
<1>10. CASE ReadForFailure(w)
  <2>1. UNCHANGED state
    BY <1>10 DEF ReadForFailure, run
  <2>2. CASE state = worker[w].msg.stage
    <3> DEFINE x == [worker[w] EXCEPT !.step = "marking", !.ver = version]
    <3>1. x.step # "commit"
      BY DEF TypeOK, WorkerStates
    <3>2. worker' = [worker EXCEPT ![w] = x]
      BY <1>10, <2>2 DEF ReadForFailure, Become
    <3> HIDE DEF x
    <3> QED
      BY <2>1, <3>1, <3>2, OutsideRanNothing
  <2>3. CASE state # worker[w].msg.stage
    BY <1>10, <2>1, <2>3, IdleIsOutside, OutsideRanNothing
       DEF ReadForFailure, Finish, Become
  <2> QED
    BY <2>2, <2>3
<1>11. CASE MarkFailed(w)
  <2>1. worker' = [worker EXCEPT ![w] = Idle]
    BY <1>11 DEF MarkFailed, Finish, Become
  <2>2. \A v \in Workers : worker[v].step # "commit"
    BY <1>11 DEF MarkFailed, Locked
  <2> QED
    BY <2>1, <2>2, IdleIsOutside, OutsideRanNothing
<1> QED
  BY <1>1, <1>2, <1>3, <1>5, <1>6, <1>7, <1>8, <1>10, <1>11 DEF WorkerStep

LEMMA HandlerRanNext ==
  ASSUME TypeOK, StageOwnsRow, HandlerRan, [Next]_vars
  PROVE  HandlerRan'
<1>1. ASSUME NEW w \in Workers, WorkerStep(w) PROVE HandlerRan'
  BY <1>1, HandlerRanWorker
<1>2. ASSUME NEW w \in Workers, StageRaises(w) PROVE HandlerRan'
  <2>1. CASE worker[w].msg = Finalize
    BY <1>2, <2>1, IdleIsOutside, OutsideRanNothing DEF StageRaises, Become, run
  <2>2. CASE worker[w].msg # Finalize
    BY <1>2, <2>2, FailRanNothing DEF StageRaises, run
  <2> QED
    BY <2>1, <2>2
<1>3. ASSUME NEW w \in Workers, Crash(w) PROVE HandlerRan'
  BY <1>3, IdleIsOutside, OutsideRanNothing DEF Crash, Become, run
<1>4. CASE worker' = worker /\ UNCHANGED state
  BY <1>4 DEF HandlerRan
<1>5. ASSUME NEW c \in Clients, ReadForControl(c) \/ RequestControl(c)
      PROVE  worker' = worker /\ UNCHANGED state
  BY <1>5 DEF ReadForControl, RequestControl, run
<1>6. CASE ShardReports \/ Watchdog \/ UNCHANGED vars
  BY <1>4, <1>6 DEF ShardReports, Watchdog, vars, run
<1>7. CASE Resume \/ DecideShortfall
  BY <1>7 DEF Resume, DecideShortfall, Locked, HandlerRan
<1> QED
  BY <1>1, <1>2, <1>3, <1>4, <1>5, <1>6, <1>7 DEF Next

LEMMA SynthesisNext ==
  ASSUME TypeOK, HandlerRan, SynthesisBeforeRelease, [Next]_vars
  PROVE  SynthesisBeforeRelease'
<1>1. CASE UNCHANGED run
  BY <1>1 DEF SynthesisBeforeRelease, Places, run, progress
<1>2. ASSUME NEW w \in Workers, Decided(w) PROVE SynthesisBeforeRelease'
  <2>1. PICK ok \in BOOLEAN : state' = NextState(state, mode, worker[w].ctl, short', ok)
    BY <1>2 DEF Decided
  <2>2. worker[w].ctl \in {"none", "pause", "cancel"} /\ short' \in BOOLEAN
    BY <1>2 DEF TypeOK, WorkerStates, Decided
  <2>3. /\ state' = "RENDERING" /\ mode = "full_research"
             => state = "SYNTHESIZING" /\ worker[w].ctl = "none"
        /\ state' = "RELEASE_CHECKING" => state = "RENDERING"
        /\ state' \in {"COMPLETED", "PARTIALLY_COMPLETED"} /\ mode = "full_research"
             => state = "RELEASE_CHECKING"
        /\ state' = "PAUSED" => worker[w].ctl = "pause"
        /\ state' # "FAILED_RETRYABLE"
    BY <2>1, <2>2, Backwards DEF TypeOK
  <2>4. /\ synthesised => synthesised'
        /\ worker[w].ran /\ state = "SYNTHESIZING" => synthesised'
    BY <1>2 DEF Decided
  <2>5. state = "SYNTHESIZING" /\ worker[w].ctl = "none" => worker[w].ran
    BY <1>2 DEF Decided, HandlerRan, Stages
  <2> QED
    BY <1>2, <2>3, <2>4, <2>5 DEF Decided, SynthesisBeforeRelease, Places
<1>3. CASE Failed
  BY <1>3 DEF Failed, SynthesisBeforeRelease, Places, Stages
<1>4. CASE Resumed
  BY <1>4 DEF Resumed, SynthesisBeforeRelease, Places, Interrupted, TypeOK, Stages, progress
<1>5. CASE Answered
  BY <1>5 DEF Answered, SynthesisBeforeRelease, Places
<1> QED
  BY <1>1, <1>2, <1>3, <1>4, <1>5, RowMoves

\* No interruption lets a full-research run reach its report without the
\* synthesis having been persisted: neither a control request that skips the
\* handler, nor a resumption, nor a repeated delivery.
THEOREM ReleaseNeedsSynthesis == Spec => []SynthesisBeforeRelease
<1>1. Init => HandlerRan /\ SynthesisBeforeRelease
  BY IdleIsOutside DEF Init, HandlerRan, SynthesisBeforeRelease, Places
<1>2. TypeOK /\ StageOwnsRow /\ HandlerRan /\ SynthesisBeforeRelease /\ [Next]_vars
        => HandlerRan' /\ SynthesisBeforeRelease'
  BY HandlerRanNext, SynthesisNext
<1> QED
  BY <1>1, <1>2, TypeCorrect, StageHasRowToItself, PTL DEF Spec

-----------------------------------------------------------------------------
\* The chain of deliveries.

\* A worker in this situation will see the current stage through, or record that
\* it failed.
Carries(x) ==
  /\ x.msg = Execute(state)
  /\ \/ x.step \in {"received", "stage", "commit"}
     \/ x.step \in {"failed", "marking"} /\ x.ver = version

Held == Execute(state) \in queue \/ \E w \in Workers : Carries(worker[w])

LEMMA OrphanIsUnheld ==
  NoOrphan <=> (faults = 0 /\ state \in Stages \ {"ANALYZING"} => Held)
  BY DEF NoOrphan, Held, Carries

LEMMA ExecuteIs ==
  /\ \A s, t : Execute(s) = Execute(t) => s = t
  /\ \A s : Execute(s) # Finalize /\ Execute(s).stage = s
  BY DEF Execute, Finalize

\* A chain without faults has had none before.
LEMMA FaultShows == ASSUME TypeOK, Fault PROVE faults' # 0
  BY BoundsAssumption DEF TypeOK, Fault

\* One worker moves: the delivery stays held if what this worker and the queue
\* held of it they hold afterwards.
LEMMA HeldOn ==
  ASSUME TypeOK, Held, NEW w \in Workers, NEW x,
         worker' = [worker EXCEPT ![w] = x],
         UNCHANGED <<state, version>>,
         Carries(worker[w]) \/ Execute(state) \in queue
           => Carries(x) \/ Execute(state) \in queue'
  PROVE  Held'
<1>1. worker'[w] = x /\ \A v \in Workers \ {w} : worker'[v] = worker[v]
  BY DEF TypeOK
<1>2. Carries(x)' <=> Carries(x)
  BY DEF Carries
<1>3. CASE Carries(worker[w]) \/ Execute(state) \in queue
  BY <1>1, <1>2, <1>3 DEF Held, Carries
<1>4. CASE ~(Carries(worker[w]) \/ Execute(state) \in queue)
  <2>1. PICK v \in Workers : Carries(worker[v])
    BY <1>4 DEF Held
  <2>2. v # w
    BY <1>4, <2>1
  <2> QED
    BY <1>1, <2>1, <2>2 DEF Held, Carries
<1> QED
  BY <1>3, <1>4

\* A task that ends without a fault leaves the queue with its follow-ups.
LEMMA FinishWithoutFault ==
  ASSUME TypeOK, NEW w \in Workers, NEW ms, Finish(w, ms), faults' = 0
  PROVE  /\ worker' = [worker EXCEPT ![w] = Idle]
         /\ queue' = queue \cup ms
         /\ faults = 0
  BY FaultShows DEF Finish, Become

LEMMA IdleCarriesNothing == ~Carries(Idle)
  BY DEF Carries, Idle

\* A failing stage keeps its delivery in hand.
LEMMA FailHolds ==
  ASSUME TypeOK, Held, NEW w \in Workers, Fail(w), UNCHANGED <<state, version, queue>>
  PROVE  Held'
<1> DEFINE x == [Idle EXCEPT !.step = "failed", !.msg = worker[w].msg, !.ver = version]
<1>1. x.step = "failed" /\ x.msg = worker[w].msg /\ x.ver = version
  BY DEF Idle
<1>2. worker' = [worker EXCEPT ![w] = x]
  BY DEF Fail, Become
<1> HIDE DEF x
<1>3. Carries(worker[w]) => Carries(x)
  BY <1>1 DEF Carries
<1> QED
  BY <1>2, <1>3, HeldOn

LEMMA HeldWorker ==
  ASSUME TypeOK, NoOrphan, NEW w \in Workers, WorkerStep(w),
         faults' = 0, state' \in Stages \ {"ANALYZING"}
  PROVE  Held'
<1>1. CASE \E m \in queue : Receive(w, m)
  <2>1. PICK m \in queue : Receive(w, m)
    BY <1>1
  <2> DEFINE x == [Idle EXCEPT !.step = "received", !.msg = m]
  <2>2. x.step = "received" /\ x.msg = m
    BY DEF Idle
  <2>3. /\ worker' = [worker EXCEPT ![w] = x] /\ UNCHANGED <<state, version, faults>>
        /\ queue' = queue \ {m} /\ worker[w].step = "idle"
    BY <2>1 DEF Receive, Become, run
  <2> HIDE DEF x
  <2>4. Execute(state) \in queue => Carries(x) \/ Execute(state) \in queue'
    BY <2>2, <2>3 DEF Carries
  <2>5. ~Carries(worker[w])
    BY <2>3 DEF Carries
  <2> QED
    BY <2>3, <2>4, <2>5, HeldOn, OrphanIsUnheld
<1>2. CASE PrepareAnalysis(w)
  <2>1. /\ Finish(w, {Finalize}) /\ UNCHANGED <<state, version>>
        /\ worker[w].msg = Execute("ANALYZING")
    BY <1>2, FaultShows DEF PrepareAnalysis, run
  <2>2. ~Carries(worker[w])
    BY <2>1, ExecuteIs DEF Carries
  <2> QED
    BY <2>1, <2>2, FinishWithoutFault, HeldOn, OrphanIsUnheld
<1>3. CASE IgnoreStale(w) \/ BarrierWaits(w)
  <2>1. Finish(w, {}) /\ UNCHANGED <<state, version>>
    BY <1>3 DEF IgnoreStale, BarrierWaits, run
  <2>2. ~Carries(worker[w])
    BY <1>3, ExecuteIs DEF IgnoreStale, BarrierWaits, Carries
  <2> QED
    BY <2>1, <2>2, FinishWithoutFault, HeldOn, OrphanIsUnheld
<1>5. CASE BeginStage(w)
  <2> DEFINE x == [worker[w] EXCEPT !.step = IF control # "none" \/ state \notin Stages
                                             THEN "commit" ELSE "stage",
                                    !.ver = version,
                                    !.ctl = control]
  <2>1. x.step \in {"stage", "commit"} /\ x.msg = worker[w].msg
    BY DEF TypeOK, WorkerStates
  <2>2. worker' = [worker EXCEPT ![w] = x] /\ UNCHANGED <<state, version, queue, faults>>
    BY <1>5 DEF BeginStage, Become, run
  <2> HIDE DEF x
  <2>3. Carries(worker[w]) => Carries(x)
    BY <2>1 DEF Carries
  <2> QED
    BY <2>2, <2>3, HeldOn, OrphanIsUnheld
<1>6. CASE StageReturns(w)
  <2> DEFINE x == [worker[w] EXCEPT !.step = "commit", !.ctl = control, !.ran = TRUE]
  <2>1. x.step = "commit" /\ x.msg = worker[w].msg
    BY DEF TypeOK, WorkerStates
  <2>2. worker' = [worker EXCEPT ![w] = x] /\ UNCHANGED <<state, version, queue, faults>>
    BY <1>6 DEF StageReturns, Become, run
  <2> HIDE DEF x
  <2>3. Carries(worker[w]) => Carries(x)
    BY <2>1 DEF Carries
  <2> QED
    BY <2>2, <2>3, HeldOn, OrphanIsUnheld
<1>7. CASE SynthesisDiffers(w) \/ RefuseStage(w)
  BY <1>7, FailHolds, OrphanIsUnheld DEF SynthesisDiffers, RefuseStage, run
<1>8. CASE CommitStage(w)
  \* The next stage is enqueued before the delivery of this one is acknowledged.
  <2>1. Finish(w, IF state' \in Recoverable THEN {Execute(state')} ELSE {})
    BY <1>8 DEF CommitStage
  <2>2. state' \in Recoverable
    BY DEF Recoverable, States, Stages, Terminal, Interrupted, Awaiting
  <2>3. queue' = queue \cup {Execute(state')}
    BY <2>1, <2>2, FinishWithoutFault
  <2> QED
    BY <2>3 DEF Held, Execute
<1>10. CASE ReadForFailure(w)
  <2>1. UNCHANGED <<state, version>>
    BY <1>10 DEF ReadForFailure, run
  <2>2. CASE state = worker[w].msg.stage
    <3> DEFINE x == [worker[w] EXCEPT !.step = "marking", !.ver = version]
    <3>1. x.step = "marking" /\ x.msg = worker[w].msg /\ x.ver = version
      BY DEF TypeOK, WorkerStates
    <3>2. worker' = [worker EXCEPT ![w] = x] /\ UNCHANGED <<queue, faults>>
      BY <1>10, <2>2 DEF ReadForFailure, Become
    <3> HIDE DEF x
    <3>3. Carries(worker[w]) => Carries(x)
      BY <3>1 DEF Carries
    <3> QED
      BY <2>1, <3>2, <3>3, HeldOn, OrphanIsUnheld
  <2>3. CASE state # worker[w].msg.stage
    <3>1. Finish(w, {}) /\ ~Carries(worker[w])
      BY <1>10, <2>3, ExecuteIs DEF ReadForFailure, Carries
    <3> QED
      BY <2>1, <3>1, FinishWithoutFault, HeldOn, OrphanIsUnheld
  <2> QED
    BY <2>2, <2>3
<1>11. CASE MarkFailed(w)
  \* The failure of the current stage is recorded, for every stage may fail.
  <2>1. Finish(w, {}) /\ worker[w].step = "marking"
    BY <1>11 DEF MarkFailed
  <2>2. CASE version = worker[w].ver /\ "FAILED_RETRYABLE" \in Allowed(state)
    <3>1. state' \in {"FAILED_RETRYABLE", "FAILED_TERMINAL"}
      BY <1>11, <2>2 DEF MarkFailed, Transition
    <3> QED
      BY <3>1 DEF Stages
  <2>3. CASE ~(version = worker[w].ver /\ "FAILED_RETRYABLE" \in Allowed(state))
    <3>1. UNCHANGED <<state, version>>
      BY <1>11, <2>3 DEF MarkFailed, run
    <3>2. "FAILED_RETRYABLE" \in Allowed(state)
      BY <3>1, StagesMayFail
    <3>3. ~Carries(worker[w])
      BY <2>1, <2>3, <3>2 DEF Carries
    <3> QED
      BY <2>1, <3>1, <3>3, FinishWithoutFault, HeldOn, OrphanIsUnheld
  <2> QED
    BY <2>2, <2>3
<1> QED
  BY <1>1, <1>2, <1>3, <1>5, <1>6, <1>7, <1>8, <1>10, <1>11 DEF WorkerStep

LEMMA OrphanNext == ASSUME TypeOK, NoOrphan, [Next]_vars PROVE NoOrphan'
<1> SUFFICES ASSUME faults' = 0, state' \in Stages \ {"ANALYZING"} PROVE Held'
  BY DEF NoOrphan, Held, Carries
<1>1. ASSUME NEW w \in Workers, WorkerStep(w) PROVE Held'
  BY <1>1, HeldWorker
<1>2. ASSUME NEW w \in Workers, StageRaises(w) \/ Crash(w) PROVE FALSE
  BY <1>2, FaultShows DEF StageRaises, Crash
<1>3. CASE /\ UNCHANGED <<state, version, worker>> /\ queue \subseteq queue'
           /\ UNCHANGED faults \/ Fault
  BY <1>3, FaultShows, OrphanIsUnheld DEF Held, Carries
<1>4. ASSUME NEW c \in Clients, ReadForControl(c) PROVE Held'
  BY <1>3, <1>4 DEF ReadForControl, run
<1>5. ASSUME NEW c \in Clients, RequestControl(c) PROVE Held'
  BY <1>3, <1>5 DEF RequestControl, Enqueue, Publish, run
<1>6. CASE Resume
  \* The stage resumed at is enqueued with the resumption.
  <2> DEFINE back == IF state = "PAUSED" THEN pausedFrom ELSE failedStage
  <2>1. state' = back /\ Enqueue(Execute(back))
    BY <1>6 DEF Resume, Transition
  <2>2. Execute(back) \in queue'
    BY <2>1, FaultShows DEF Enqueue, Publish
  <2> QED
    BY <2>1, <2>2 DEF Held, Execute
<1>7. CASE DecideShortfall
  BY <1>7 DEF DecideShortfall, Transition, Stages
<1>8. CASE ShardReports \/ Watchdog
  BY <1>3, <1>8 DEF ShardReports, Watchdog, Publish, run
<1>9. CASE UNCHANGED vars
  BY <1>3, <1>9 DEF vars, run
<1> QED
  BY <1>1, <1>2, <1>4, <1>5, <1>6, <1>7, <1>8, <1>9 DEF Next

\* As long as nothing crashes, fails or gets lost, the watchdog is not needed: a
\* run at a stage it can leave by itself has a delivery for it queued or in the
\* hands of a worker, with any workers, requests and repeated deliveries.
THEOREM DeliveryNeverOrphaned == Spec => []NoOrphan
<1>1. Init => NoOrphan
  BY DEF Init, NoOrphan
<1> QED
  BY <1>1, OrphanNext, TypeCorrect, PTL DEF Spec

-----------------------------------------------------------------------------
\* The lifecycle a run implements.

\* Stages that follow the decision about a shortfall.
LateStages ==
  {"ANALYZING", "EVIDENCE_AUDITING", "SYNTHESIZING", "RENDERING", "RELEASE_CHECKING"}

\* Consent is on record only while the run is past the decision it belongs to.
ConsentIsLate ==
  consent => Places \subseteq LateStages \cup Terminal \cup {"CANCEL_REQUESTED"}

\* The four ways a stage delivery can move the row.
LEMMA DecidedWays ==
  ASSUME NEW s \in States, NEW m \in Modes, NEW ctl \in {"none", "pause", "cancel"},
         NEW sh \in BOOLEAN, NEW ok \in BOOLEAN,
         NEW next, next = NextState(s, m, ctl, sh, ok), next \in Allowed(s)
  PROVE  \/ ctl = "cancel" /\ next = "CANCEL_REQUESTED" /\ s \in Stages \cup {"PAUSED", Awaiting}
         \/ ctl = "pause" /\ next = "PAUSED" /\ s \in Stages
         \/ ctl = "none" /\ s = "CANCEL_REQUESTED" /\ next = "CANCELLED"
         \/ ctl = "none" /\ s \in Stages /\ next \notin Interrupted
<1>1. CASE ctl = "cancel"
  <2>1. next = "CANCEL_REQUESTED"
    BY <1>1 DEF NextState
  <2> QED
    BY <1>1, <2>1 DEF Allowed, States, Stages, Terminal, Interrupted, Awaiting
<1>2. CASE ctl = "pause"
  <2>1. next = "PAUSED"
    BY <1>2 DEF NextState
  <2> QED
    BY <1>2, <2>1, InterruptedAtStage
<1>3. CASE ctl = "none" /\ s \in Stages
  <2>1. next \notin Interrupted
    BY <1>3 DEF NextState, Successor, MetadataOnly, Outcome, Stages, Interrupted, Awaiting
  <2> QED
    BY <1>3, <2>1
<1>4. CASE ctl = "none" /\ s = "CANCEL_REQUESTED"
  BY <1>4 DEF NextState
<1>5. CASE ctl = "none" /\ s \in Terminal
  BY <1>5, TerminalIsFinal
<1>6. CASE ctl = "none" /\ s \in Interrupted \cup {Awaiting}
  <2>1. next = NoState
    BY <1>6 DEF NextState, Successor, MetadataOnly, Interrupted, Awaiting
  <2> QED
    BY <2>1, AllowedStates DEF States, Stages, Terminal, Interrupted, Awaiting, NoState
<1> QED
  BY <1>1, <1>2, <1>3, <1>4, <1>5, <1>6 DEF States

LEMMA LateStaysLate ==
  ASSUME NEW s \in LateStages, NEW m \in Modes, NEW sh \in BOOLEAN, NEW ok \in BOOLEAN,
         NEW next, next = NextState(s, m, "none", sh, ok)
  PROVE  next \in LateStages \cup Terminal
  BY DEF NextState, Successor, MetadataOnly, Outcome, LateStages, Terminal

LEMMA ConsentIsLateNext ==
  ASSUME TypeOK, ConsentIsLate, [Next]_vars
  PROVE  ConsentIsLate'
<1>1. CASE UNCHANGED run
  BY <1>1 DEF ConsentIsLate, Places, run, progress
<1>2. ASSUME NEW w \in Workers, Decided(w) PROVE ConsentIsLate'
  <2> SUFFICES ASSUME consent PROVE ConsentIsLate'
    BY <1>2 DEF Decided, ConsentIsLate
  <2>1. PICK ok \in BOOLEAN : state' = NextState(state, mode, worker[w].ctl, short', ok)
    BY <1>2 DEF Decided
  <2>2. worker[w].ctl \in {"none", "pause", "cancel"} /\ short' \in BOOLEAN
    BY <1>2 DEF TypeOK, WorkerStates, Decided
  <2>3. \/ state' = "CANCEL_REQUESTED"
        \/ worker[w].ctl = "pause" /\ state' = "PAUSED" /\ state \in Stages
        \/ state' = "CANCELLED"
        \/ worker[w].ctl = "none" /\ state \in Stages
    BY <1>2, <2>1, <2>2, DecidedWays DEF Decided, TypeOK
  <2>4. state \in Stages => state \in LateStages
    BY DEF ConsentIsLate, Places, Stages, Terminal
  <2>5. worker[w].ctl = "none" /\ state \in Stages => state' \in LateStages \cup Terminal
    BY <2>1, <2>2, <2>4, LateStaysLate DEF TypeOK
  <2> QED
    BY <1>2, <2>3, <2>4, <2>5 DEF Decided, ConsentIsLate, Places, LateStages, Terminal
<1>3. CASE Failed
  BY <1>3 DEF Failed, ConsentIsLate, Places, Stages, Terminal
<1>4. CASE Resumed
  BY <1>4 DEF Resumed, ConsentIsLate, Places, Interrupted, TypeOK, Stages, progress
<1>5. CASE Answered
  BY <1>5 DEF Answered, ConsentIsLate, Places, LateStages
<1> QED
  BY <1>1, <1>2, <1>3, <1>4, <1>5, RowMoves

\* The lifecycle speaks of the same states.
LEMMA SameWords ==
  /\ Lifecycle!Stages = Stages
  /\ Lifecycle!Interrupted = Interrupted
  /\ Lifecycle!Awaiting = Awaiting
  /\ Lifecycle!NoState = NoState
  /\ Lifecycle!Modes = Modes
  BY DEF Lifecycle!Stages, Stages, Lifecycle!Interrupted, Interrupted, Lifecycle!Awaiting,
     Awaiting, Lifecycle!NoState, NoState, Lifecycle!Modes, Modes

\* Both take the same decision.
LEMMA SameDecision ==
  ASSUME NEW s, NEW m, NEW ctl, NEW sh, NEW ok
  PROVE  Lifecycle!NextState(s, m, ctl, sh, ok) = NextState(s, m, ctl, sh, ok)
<1>1. Lifecycle!Successor(s) = Successor(s)
  BY SameWords DEF Lifecycle!Successor, Successor
<1> QED
  BY <1>1, SameWords DEF Lifecycle!NextState, NextState, Lifecycle!Outcome, Outcome,
     Lifecycle!MetadataOnly, MetadataOnly

\* Every move of the row is a step of the lifecycle.
LEMMA LifecycleStep ==
  ASSUME TypeOK, ConsentIsLate, [Next]_vars
  PROVE  [Lifecycle!Next]_(Lifecycle!vars)
<1>1. CASE UNCHANGED run
  BY <1>1 DEF Lifecycle!vars, ResumeAt, run, progress
<1>2. ASSUME NEW w \in Workers, Decided(w) PROVE Lifecycle!Next
  <2>1. PICK ok \in BOOLEAN : state' = NextState(state, mode, worker[w].ctl, short', ok)
    BY <1>2 DEF Decided
  <2>2. worker[w].ctl \in {"none", "pause", "cancel"} /\ short' \in BOOLEAN
    BY <1>2 DEF TypeOK, WorkerStates, Decided
  <2>3. UNCHANGED <<mode, consent>>
    BY <1>2 DEF Decided
  <2>4. CASE state' = "CANCEL_REQUESTED" /\ state \in Stages \cup {"PAUSED", Awaiting}
    BY <2>3, <2>4, SameWords DEF Lifecycle!Next, Lifecycle!RequestCancel, ResumeAt
  <2>5. CASE worker[w].ctl = "pause" /\ state' = "PAUSED" /\ state \in Stages
    <3>1. ResumeAt' = state
      BY <1>2, <2>5 DEF Decided, ResumeAt
    <3> QED
      BY <2>3, <2>5, <3>1, SameWords DEF Lifecycle!Next, Lifecycle!Interrupt, Interrupted
  <2>6. CASE state = "CANCEL_REQUESTED" /\ state' = "CANCELLED"
    BY <2>3, <2>6, SameWords DEF Lifecycle!Next, Lifecycle!ConfirmCancel, ResumeAt
  <2>7. CASE worker[w].ctl = "none" /\ state \in Stages /\ state' \notin Interrupted
    <3>1. ResumeAt = NoState /\ ResumeAt' = NoState
      BY <2>7 DEF ResumeAt, Stages, Interrupted
    <3>2. state' \in Lifecycle!Onward(state)
      BY <2>1, <2>2, <2>7, SameDecision DEF Lifecycle!Onward
    <3> QED
      BY <2>3, <2>7, <3>1, <3>2, SameWords DEF Lifecycle!Next, Lifecycle!Advance
  <2> QED
    BY <1>2, <2>1, <2>2, <2>4, <2>5, <2>6, <2>7, DecidedWays DEF Decided, TypeOK
<1>3. CASE Failed
  <2>1. CASE state' = "FAILED_RETRYABLE"
    <3>1. ResumeAt' = state
      BY <1>3, <2>1 DEF Failed, ResumeAt
    <3> QED
      BY <1>3, <2>1, <3>1, SameWords DEF Failed, Lifecycle!Next, Lifecycle!Interrupt, Interrupted
  <2>2. CASE state \in BudgetedStages /\ state' = "FAILED_TERMINAL"
    BY <1>3, <2>2 DEF Failed, BudgetedStages, ResumeAt, Lifecycle!Next,
       Lifecycle!ExhaustBudget, Lifecycle!BudgetedStages
  <2> QED
    BY <1>3, <2>1, <2>2 DEF Failed
<1>4. CASE Resumed
  <2>1. state' = ResumeAt /\ ResumeAt' = NoState
    BY <1>4 DEF Resumed, ResumeAt, Interrupted, TypeOK, Stages
  <2> QED
    BY <1>4, <2>1, SameWords DEF Resumed, progress, Lifecycle!Next, Lifecycle!Resume
<1>5. CASE Answered
  <2>1. ResumeAt = NoState /\ ResumeAt' = NoState
    BY <1>5 DEF Answered, ResumeAt, Awaiting
  <2>2. ~consent
    BY <1>5 DEF Answered, ConsentIsLate, Places, LateStages, Terminal, Awaiting
  <2> QED
    BY <1>5, <2>1, <2>2, SameWords DEF Answered, TypeOK, Lifecycle!Next, Lifecycle!AcceptShortfall,
       Lifecycle!RequestCancel
<1> QED
  BY <1>1, <1>2, <1>3, <1>4, <1>5, RowMoves

\* The program implements the lifecycle: with any number of workers, requests,
\* faults and repeated deliveries, what a client reads of the row moves only as
\* the lifecycle allows, and an interrupted run goes back to where it was.
THEOREM RunImplementsLifecycle == Spec => Lifecycle!Spec /\ ImplementsLifecycle
<1>1. Init => Lifecycle!Init /\ Lifecycle!ObservedInit /\ ConsentIsLate
  BY SameWords DEF Init, ResumeAt, Lifecycle!Init, Lifecycle!ObservedInit, ConsentIsLate, Stages
<1>2. TypeOK /\ ConsentIsLate /\ [Next]_vars
        => ConsentIsLate' /\ [Lifecycle!Next]_(Lifecycle!vars)
  BY ConsentIsLateNext, LifecycleStep
<1> QED
  BY <1>1, <1>2, TypeCorrect, PTL DEF Spec, Lifecycle!Spec, ImplementsLifecycle,
     Lifecycle!ObservedSpec

-----------------------------------------------------------------------------
\* What the lifecycle keeps, whoever implements it: the row is opaque here.

\* Where a stage that ends can lead, without a control request.
LEMMA OnwardStates ==
  ASSUME NEW s \in Lifecycle!Stages, NEW m \in Lifecycle!Modes,
         NEW lacking \in BOOLEAN, NEW allowed \in BOOLEAN
  PROVE  Lifecycle!NextState(s, m, "none", lacking, allowed) \in Lifecycle!States
  BY DEF Lifecycle!Stages, Lifecycle!Modes, Lifecycle!NextState, Lifecycle!Successor,
     Lifecycle!MetadataOnly, Lifecycle!Outcome, Lifecycle!States, Lifecycle!Terminal,
     Lifecycle!Interrupted, Lifecycle!Awaiting

\* Every variable keeps its type, and a run that is interrupted knows the stage
\* it goes back to.
LifecycleKept ==
  /\ Lifecycle!TypeOK
  /\ state \in Lifecycle!Interrupted => ResumeAt \in Lifecycle!Stages

LEMMA LifecycleKeptInit == Lifecycle!Init => LifecycleKept
  BY DEF Lifecycle!Init, LifecycleKept, Lifecycle!TypeOK, Lifecycle!Stages,
     Lifecycle!States, Lifecycle!Interrupted

LEMMA LifecycleKeptNext ==
  LifecycleKept /\ [Lifecycle!Next]_(Lifecycle!vars) => LifecycleKept'
<1> SUFFICES ASSUME LifecycleKept, [Lifecycle!Next]_(Lifecycle!vars) PROVE LifecycleKept'
  OBVIOUS
<1> USE DEF LifecycleKept, Lifecycle!TypeOK
<1>1. CASE Lifecycle!Advance
  <2>1. PICK lacking \in BOOLEAN, allowed \in BOOLEAN :
          state' = Lifecycle!NextState(state, mode, "none", lacking, allowed)
    BY <1>1 DEF Lifecycle!Advance, Lifecycle!Onward
  <2>2. state' \in Lifecycle!States
    BY <2>1, <1>1, OnwardStates DEF Lifecycle!Advance
  <2>3. state' \notin Lifecycle!Interrupted
    BY <2>1, <1>1 DEF Lifecycle!Advance, Lifecycle!NextState, Lifecycle!Successor,
       Lifecycle!MetadataOnly, Lifecycle!Outcome, Lifecycle!Interrupted,
       Lifecycle!Stages, Lifecycle!Awaiting
  <2> QED
    BY <1>1, <2>2, <2>3 DEF Lifecycle!Advance
<1>2. CASE Lifecycle!Interrupt
  BY <1>2 DEF Lifecycle!Interrupt, Lifecycle!States
<1>3. CASE Lifecycle!Resume
  BY <1>3 DEF Lifecycle!Resume, Lifecycle!States, Lifecycle!Interrupted, Lifecycle!Stages
<1>4. CASE Lifecycle!AcceptShortfall
  BY <1>4 DEF Lifecycle!AcceptShortfall, Lifecycle!States, Lifecycle!Stages,
     Lifecycle!Interrupted
<1>5. CASE Lifecycle!RequestCancel
  BY <1>5 DEF Lifecycle!RequestCancel, Lifecycle!States, Lifecycle!Interrupted
<1>6. CASE Lifecycle!ConfirmCancel
  BY <1>6 DEF Lifecycle!ConfirmCancel, Lifecycle!States, Lifecycle!Terminal,
     Lifecycle!Interrupted
<1>7. CASE Lifecycle!ExhaustBudget
  BY <1>7 DEF Lifecycle!ExhaustBudget, Lifecycle!States, Lifecycle!Terminal,
     Lifecycle!Interrupted
<1>8. CASE UNCHANGED Lifecycle!vars
  BY <1>8 DEF Lifecycle!vars
<1> QED
  BY <1>1, <1>2, <1>3, <1>4, <1>5, <1>6, <1>7, <1>8 DEF Lifecycle!Next

\* Every variable of the lifecycle keeps its type, for every sequence of pauses,
\* failures, resumptions and decisions.
THEOREM LifecycleTypeCorrect == Lifecycle!Spec => []Lifecycle!TypeOK
<1>1. LifecycleKept => Lifecycle!TypeOK
  BY DEF LifecycleKept
<1> QED
  BY LifecycleKeptInit, LifecycleKeptNext, <1>1, PTL DEF Lifecycle!Spec

\* One step on, a stage of a search-only run stays clear of full texts and of the
\* shortfall decision, and a validate-only run ends.
LEMMA OnwardConfined ==
  ASSUME NEW s \in Lifecycle!Stages, NEW lacking \in BOOLEAN, NEW allowed \in BOOLEAN
  PROVE  /\ s \notin Lifecycle!FullTextStages =>
              Lifecycle!NextState(s, "search_only", "none", lacking, allowed)
                \notin Lifecycle!FullTextStages \cup {Lifecycle!Awaiting}
         /\ Lifecycle!NextState("QUEUED", "validate_only", "none", lacking,
            allowed) = "COMPLETED"
  BY DEF Lifecycle!Stages, Lifecycle!FullTextStages, Lifecycle!NextState,
     Lifecycle!Successor, Lifecycle!MetadataOnly, Lifecycle!Outcome, Lifecycle!Awaiting

\* ModeConfined is inductive once types are known.
LEMMA ModeConfinedNext ==
  LifecycleKept /\ Lifecycle!ModeConfined /\ [Lifecycle!Next]_(Lifecycle!vars)
    => Lifecycle!ModeConfined'
<1> SUFFICES ASSUME LifecycleKept, Lifecycle!ModeConfined, [Lifecycle!Next]_(Lifecycle!vars)
         PROVE  Lifecycle!ModeConfined'
  OBVIOUS
<1> USE DEF Lifecycle!ModeConfined, LifecycleKept, Lifecycle!TypeOK
<1>1. CASE Lifecycle!Advance
  <2>1. PICK lacking \in BOOLEAN, allowed \in BOOLEAN :
          state' = Lifecycle!NextState(state, mode, "none", lacking, allowed)
    BY <1>1 DEF Lifecycle!Advance, Lifecycle!Onward
  <2>2. CASE mode = "validate_only"
    <3>1. state = "QUEUED"
      BY <1>1, <2>2 DEF Lifecycle!Advance, Lifecycle!Stages, Lifecycle!Interrupted,
         Lifecycle!NoState
    <3> QED
      BY <1>1, <2>1, <2>2, <3>1, OnwardConfined DEF Lifecycle!Advance
  <2>3. CASE mode = "search_only"
    BY <1>1, <2>1, <2>3, OnwardConfined DEF Lifecycle!Advance
  <2> QED
    BY <1>1, <2>2, <2>3 DEF Lifecycle!Advance
<1>2. CASE Lifecycle!Interrupt
  BY <1>2 DEF Lifecycle!Interrupt, Lifecycle!Interrupted, Lifecycle!FullTextStages,
     Lifecycle!Awaiting
<1>3. CASE Lifecycle!Resume
  BY <1>3 DEF Lifecycle!Resume, Lifecycle!Interrupted, Lifecycle!FullTextStages,
     Lifecycle!Awaiting, Lifecycle!NoState
<1>4. CASE Lifecycle!AcceptShortfall
  BY <1>4 DEF Lifecycle!AcceptShortfall, Lifecycle!Interrupted, Lifecycle!FullTextStages,
     Lifecycle!Awaiting, Lifecycle!NoState
<1>5. CASE Lifecycle!RequestCancel
  BY <1>5 DEF Lifecycle!RequestCancel, Lifecycle!Interrupted, Lifecycle!FullTextStages,
     Lifecycle!Awaiting, Lifecycle!NoState
<1>6. CASE Lifecycle!ConfirmCancel
  BY <1>6 DEF Lifecycle!ConfirmCancel, Lifecycle!Interrupted, Lifecycle!FullTextStages,
     Lifecycle!Awaiting, Lifecycle!NoState
<1>7. CASE Lifecycle!ExhaustBudget
  BY <1>7 DEF Lifecycle!ExhaustBudget, Lifecycle!Modes
<1>8. CASE UNCHANGED Lifecycle!vars
  BY <1>8 DEF Lifecycle!vars
<1> QED
  BY <1>1, <1>2, <1>3, <1>4, <1>5, <1>6, <1>7, <1>8 DEF Lifecycle!Next

\* A validate-only run never reaches discovery and a search-only run never
\* touches full texts, evidence, analysis or the shortfall decision, wherever and
\* however often it is interrupted and resumed.
THEOREM RunStaysInMode == Lifecycle!Spec => []Lifecycle!ModeConfined
<1>1. Lifecycle!Init => Lifecycle!ModeConfined
  BY DEF Lifecycle!Init, Lifecycle!ModeConfined, Lifecycle!FullTextStages,
     Lifecycle!Awaiting, Lifecycle!Interrupted, Lifecycle!NoState
<1> QED
  BY LifecycleKeptInit, LifecycleKeptNext, ModeConfinedNext, <1>1, PTL DEF Lifecycle!Spec

\* The executed run never leaves what its execution mode allows, however many
\* workers, deliveries, pauses, failures and resumptions it goes through.
THEOREM RunIsConfined == Spec => []ConfinedByMode
  BY RunImplementsLifecycle, RunStaysInMode, PTL DEF ConfinedByMode

=============================================================================
