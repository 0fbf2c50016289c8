---------------------- MODULE OutputGenerations_proofs ----------------------
(***************************************************************************)
(* Theorems about OutputGenerations: types, that a request makes one       *)
(* analysis or generation, that a generation is of one piece, and that the *)
(* output of a finished run that is not marked is current.                 *)
(***************************************************************************)
EXTENDS OutputGenerations, SequenceTheorems, TLAPS

Late == {"RENDERING", "RELEASE_CHECKING"}
LockSteps == {"synthesising", "rendering", "releasing"}
Holds(w) == worker[w].step \in LockSteps

\* What a worker works on has been requested.
Jobs ==
  /\ \A t \in Tasks : task[t].of = "none" <=> task[t].status = "ABSENT"
  /\ \A w \in Workers : worker[w].step # "idle" =>
       worker[w].task \in Tasks /\ TaskOf(w) # "none"
  /\ \A w \in Workers : worker[w].step \in {"analysing", "storing"} => TaskOf(w) \in Papers

\* A stage after the first, reached or to be resumed, has a synthesis; a run that is
\* not over has no second generation, and nobody regenerates its output.
Begun ==
  /\ state \in Late \/ progress.pausedFrom \in Late \/ progress.failedStage \in Late
       => outputs # <<>>
  /\ \A w \in Workers : worker[w].copy.pausedFrom \in Late \/ worker[w].copy.failedStage \in Late
       => outputs # <<>>
  /\ state # "COMPLETED" => Len(outputs) <= 1
  /\ \A t \in Tasks : task[t].of = "outputs" => state = "COMPLETED"
  /\ \A w \in Workers : Holds(w) => state = "COMPLETED"

OInv == TypeOK /\ Jobs /\ Begun

\* One delivery of a request at a time, until one has succeeded.
Single ==
  /\ \A w \in Workers : Working(w) => task[worker[w].task].status # "SUCCEEDED"
  /\ \A v, w \in Workers : Working(v) /\ Working(w) /\ worker[v].task = worker[w].task => v = w
  /\ \A t \in Tasks : made[t] = IF task[t].status = "SUCCEEDED" THEN 1 ELSE 0

\* A regeneration keeps the analyses from being replaced.
Pieces ==
  /\ \A v, w \in Workers : Holds(v) /\ Holds(w) => v = w
  /\ \A w \in Workers :
       /\ worker[w].step = "rendering" => worker[w].output.synthesis = Latest
       /\ worker[w].step = "releasing" => worker[w].output.synthesis = Latest
                                          /\ worker[w].output.papers = Latest

\* Before the run is over the output is current unless the mark is set.
Current ==
  state # "COMPLETED" /\ ~progress.requireRegeneration /\ outputs # <<>> =>
    /\ outputs[1].synthesis = Latest
    /\ outputs[1].papers \in {Unrendered, Latest}
    /\ "RELEASE_CHECKING" \in {state, progress.pausedFrom, progress.failedStage}
         => outputs[1].papers = Latest

-----------------------------------------------------------------------------
(* Types *)

LEMMA IdleTypes ==
  /\ Idle \in WorkerStates /\ Idle.step = "idle" /\ Idle.task = "none"
  /\ Idle.copy = NoProgress /\ NoProgress \in Progress
  /\ NoProgress.pausedFrom \notin Late /\ NoProgress.failedStage \notin Late
  /\ NoOutput \in Output
<1>1. NoOutput \in Output
  BY DEF NoOutput, Output, Unrendered
<1>2. /\ NoProgress \in Progress
      /\ NoProgress.pausedFrom \notin Late /\ NoProgress.failedStage \notin Late
  BY DEF NoProgress, Progress, Late
<1> HIDE DEF NoOutput, NoProgress
<1> QED
  BY <1>1, <1>2 DEF Idle, WorkerStates

LEMMA Becomes ==
  ASSUME TypeOK, NEW w \in Workers, NEW next \in WorkerStates, Become(w, next)
  PROVE  /\ worker' \in [Workers -> WorkerStates] /\ worker'[w] = next
         /\ \A v \in Workers \ {w} : worker'[v] = worker[v]
  BY DEF TypeOK, Become

LEMMA OneGeneration ==
  ASSUME NEW o \in Output
  PROVE  <<o>> \in Seq(Output) /\ Len(<<o>>) = 1 /\ <<o>>[1] = o
  OBVIOUS

LEMMA FirstGeneration ==
  ASSUME NEW s \in Seq(Output), s # <<>>
  PROVE  Len(s) \in Nat \ {0} /\ s[1] \in Output /\ (Len(s) <= 1 => Len(s) = 1)
<1>1. Len(s) \in Nat /\ Len(s) # 0
  BY EmptySeq, LenProperties
<1>2. \A n \in Nat : n # 0 /\ n <= 1 => n = 1
  OBVIOUS
<1>3. Len(s) \in Nat \ {0} /\ 1 \in 1..Len(s)
  BY <1>1
<1>4. Len(s) <= 1 => Len(s) = 1
  BY <1>1, <1>2, Zenon
<1> QED
  BY <1>3, <1>4, ElementOfSeq, Zenon

LEMMA LatestType ==
  ASSUME TypeOK
  PROVE  /\ Latest \in [Papers -> Nat]
         /\ \A p \in Papers : Latest[p] = analysis[p].attempt
  BY DEF TypeOK, Latest, Analyses

\* The end of a task, or the death of its worker.
LEMMA EndTypes ==
  ASSUME TypeOK, Jobs, NEW w \in Workers, worker[w].step # "idle", Ends(w) \/ Crash(w)
  PROVE  /\ worker' \in [Workers -> WorkerStates] /\ worker'[w] = Idle
         /\ \A v \in Workers \ {w} : worker'[v] = worker[v]
         /\ queue' \subseteq Tasks
         /\ faults' \in 0..MaxFaults
<1>1. Become(w, Idle)
  BY DEF Ends, Crash
<1>2. worker[w].task \in Tasks
  BY DEF Jobs
<1> QED
  BY <1>1, <1>2, Becomes, IdleTypes, SizesAssumption
  DEF Ends, Crash, Redelivered, Fault, TypeOK

\* What a stage makes of generation 1.
LEMMA Handling ==
  ASSUME OInv, state \in Making, Handled
  PROVE  /\ outputs' \in Seq(Output) /\ Len(outputs') = 1
         /\ state = "SYNTHESIZING" =>
              /\ outputs = <<>> /\ outputs'[1].synthesis = Latest
              /\ outputs'[1].papers = Unrendered
         /\ state \in Late => Len(outputs) = 1 /\ outputs'[1].synthesis = outputs[1].synthesis
         /\ state = "RENDERING" => outputs'[1].papers = Latest
         /\ state = "RELEASE_CHECKING" =>
              /\ outputs'[1].papers = outputs[1].papers
              /\ Releasable => outputs'[1].released
<1>1. Latest \in [Papers -> Nat] /\ outputs \in Seq(Output)
  BY LatestType DEF OInv, TypeOK
<1>2. CASE state = "SYNTHESIZING"
  <2> DEFINE o == [NoOutput EXCEPT !.synthesis = Latest]
  <2>1. outputs = <<>> /\ outputs' = <<o>>
    BY <1>2 DEF Handled, Synthesised
  <2>2. o \in Output /\ o.synthesis = Latest /\ o.papers = Unrendered
    BY <1>1, IdleTypes DEF Output, NoOutput
  <2> HIDE DEF o
  <2> QED
    BY <1>2, <2>1, <2>2, OneGeneration DEF Late
<1>3. ASSUME state \in Late PROVE Len(outputs) = 1 /\ outputs[1] \in Output
  <2>1. outputs # <<>> /\ Len(outputs) <= 1
    BY <1>3 DEF OInv, Begun, Late
  <2> QED
    BY <1>1, <2>1, FirstGeneration
<1>4. CASE state = "RENDERING"
  <2> DEFINE o == [outputs[1] EXCEPT !.papers = Latest]
  <2>1. outputs' = <<o>>
    BY <1>4 DEF Handled, Rendered
  <2>2. o \in Output /\ o.synthesis = outputs[1].synthesis /\ o.papers = Latest
    BY <1>1, <1>3, <1>4 DEF Output, Late
  <2> HIDE DEF o
  <2> QED
    BY <1>3, <1>4, <2>1, <2>2, OneGeneration DEF Late
<1>5. CASE state = "RELEASE_CHECKING"
  <2> DEFINE o == [outputs[1] EXCEPT !.released = @ \/ Releasable]
  <2>1. outputs' = <<o>>
    BY <1>5 DEF Handled, Checked
  <2>2. outputs[1].released \in BOOLEAN /\ Releasable \in BOOLEAN
    BY <1>3, <1>5 DEF Output, Late, Releasable
  <2>3. /\ o \in Output /\ o.synthesis = outputs[1].synthesis /\ o.papers = outputs[1].papers
        /\ o.released = (outputs[1].released \/ Releasable)
    BY <1>3, <1>5, <2>2 DEF Output, Late
  <2> HIDE DEF o
  <2> QED
    BY <1>3, <1>5, <2>1, <2>2, <2>3, OneGeneration DEF Late
<1> QED
  BY <1>2, <1>4, <1>5 DEF Making, MakingStages

LEMMA TypeInit == Init => OInv
<1> SUFFICES ASSUME Init PROVE OInv
  OBVIOUS
<1>1. TypeOK
  BY IdleTypes, SizesAssumption
  DEF Init, TypeOK, RunStates, Making, MakingStages, Analyses, TaskRows
<1>2. Jobs
  BY IdleTypes DEF Init, Jobs
<1>3. Begun
  BY IdleTypes, EmptySeq DEF Init, Begun, Holds, LockSteps, Late
<1> QED
  BY <1>1, <1>2, <1>3 DEF OInv

\* The run itself moves on.
LEMMA RunTypes ==
  ASSUME OInv, Stage \/ PausedStage \/ FailedStage \/ Resume
  PROVE  OInv'
<1>1. Making = {"SYNTHESIZING", "RENDERING", "RELEASE_CHECKING"}
  BY DEF Making, MakingStages
<1>2. /\ UNCHANGED <<analysis, task, queue, worker, made>> /\ state # "COMPLETED"
      /\ state' \in RunStates
      /\ faults' \in 0..MaxFaults /\ pauses' \in 0..MaxPauses
  BY <1>1, SizesAssumption
  DEF Stage, PausedStage, FailedStage, Resume, Fault, OInv, TypeOK, RunStates, Progress,
      bounds, Successor
<1>3. progress' \in Progress
  BY DEF Stage, PausedStage, FailedStage, Resume, OInv, TypeOK, Progress
<1>4. /\ outputs' \in Seq(Output) /\ Len(outputs') <= 1
      /\ outputs # <<>> => outputs' # <<>>
      /\ (state \in Making /\ Handled) \/ outputs' = outputs
      /\ state \in Making /\ Handled => outputs' # <<>>
  <2>1. outputs \in Seq(Output) /\ Len(outputs) <= 1 /\ Len(outputs) \in Nat
    BY <1>2 DEF OInv, TypeOK, Begun
  <2>2. (state \in Making /\ Handled) \/ outputs' = outputs
    BY DEF Stage, PausedStage, FailedStage, Resume
  <2>3. ASSUME state \in Making, Handled
        PROVE  outputs' \in Seq(Output) /\ Len(outputs') <= 1 /\ outputs' # <<>>
    <3>1. outputs' \in Seq(Output) /\ Len(outputs') = 1
      BY <2>3, Handling
    <3>2. outputs' # <<>>
      BY <3>1, EmptySeq
    <3>3. 1 <= 1
      OBVIOUS
    <3> QED
      BY <3>1, <3>2, <3>3, Zenon
  <2>4. ASSUME outputs' = outputs
        PROVE  outputs' \in Seq(Output) /\ Len(outputs') <= 1
               /\ (outputs # <<>> => outputs' # <<>>)
    BY <2>1, <2>4
  <2> QED
    BY <2>2, <2>3, <2>4, Zenon
<1>5. /\ state' \in Late => outputs' # <<>>
      /\ progress'.pausedFrom \in Late => outputs' # <<>>
      /\ progress'.failedStage \in Late => outputs' # <<>>
  <2>1. state \in Late \/ progress.pausedFrom \in Late \/ progress.failedStage \in Late
          => outputs' # <<>>
    BY <1>4 DEF OInv, Begun
  <2>2. CASE Stage
    BY <1>4, <2>1, <2>2 DEF Stage
  <2>3. CASE PausedStage
    BY <1>4, <2>1, <2>3 DEF PausedStage, OInv, TypeOK, Progress, Late
  <2>4. CASE FailedStage
    BY <1>4, <2>1, <2>4 DEF FailedStage, OInv, TypeOK, Progress, Late
  <2>5. CASE Resume
    BY <1>4, <2>1, <2>5 DEF Resume
  <2> QED
    BY <2>2, <2>3, <2>4, <2>5
<1>6. TypeOK'
  BY <1>2, <1>3, <1>4 DEF OInv, TypeOK
<1>7. Jobs'
  BY <1>2 DEF OInv, Jobs, TaskOf
<1>8. Begun'
  BY <1>2, <1>4, <1>5 DEF OInv, Begun, Holds
<1> QED
  BY <1>6, <1>7, <1>8 DEF OInv

LEMMA RequestTypes ==
  ASSUME OInv, NEW t \in Tasks,
         RequestRegeneration(t) \/ \E p \in Papers : RequestReanalysis(t, p)
  PROVE  /\ OInv' /\ UNCHANGED <<state, progress, analysis, outputs, worker, made, pauses>>
         /\ task[t].status = "ABSENT" /\ task'[t].status = "PENDING"
         /\ \A u \in Tasks \ {t} : task'[u] = task[u]
<1>1. PICK what \in Papers \cup {"outputs"} :
        Requested(t, what) /\ (what = "outputs" => state = "COMPLETED")
  BY NamesAssumption DEF RequestRegeneration, RequestReanalysis
<1> DEFINE requested == [of |-> what, status |-> "PENDING"]
<1>2. requested \in TaskRows /\ requested.of = what /\ requested.status = "PENDING"
  BY DEF TaskRows
<1>3. /\ task[t].status = "ABSENT" /\ task' = [task EXCEPT ![t] = requested]
      /\ UNCHANGED <<state, progress, analysis, outputs, worker, made, pauses>>
  BY <1>1 DEF Requested, runRow
<1> HIDE DEF requested
<1>4. /\ task' \in [Tasks -> TaskRows]
      /\ task'[t].of = what /\ task'[t].status = "PENDING"
      /\ \A u \in Tasks \ {t} : task'[u] = task[u]
  BY <1>2, <1>3 DEF OInv, TypeOK
<1>5. queue' \subseteq Tasks /\ faults' \in 0..MaxFaults
  BY <1>1, SizesAssumption DEF Requested, Fault, OInv, TypeOK
<1>6. TypeOK'
  BY <1>3, <1>4, <1>5 DEF OInv, TypeOK
<1>7. \A w \in Workers : worker[w].step # "idle" => worker[w].task \in Tasks \ {t}
  BY <1>3 DEF OInv, Jobs, TaskOf
<1>8. Jobs'
  BY <1>3, <1>4, <1>7, NamesAssumption DEF OInv, Jobs, TaskOf
<1>9. Begun'
  BY <1>1, <1>3, <1>4 DEF OInv, Begun, Holds
<1> QED
  BY <1>3, <1>4, <1>6, <1>8, <1>9 DEF OInv

\* What a worker is between two transactions, or in one.
Reached(n) ==
  /\ n \in WorkerStates
  /\ n.step # "idle" => n.task \in Tasks /\ task[n.task].of # "none"
  /\ n.step \in {"analysing", "storing"} => task[n.task].of \in Papers
  /\ n.step \in LockSteps => state = "COMPLETED"
  /\ n.copy.pausedFrom \in Late \/ n.copy.failedStage \in Late => outputs # <<>>

LEMMA ReachedNow ==
  ASSUME OInv
  PROVE  /\ \A w \in Workers : Reached(worker[w])
         /\ Reached(Idle)
         /\ \A w \in Workers : worker[w].step # "idle" =>
              Reached([Idle EXCEPT !.step = "failing", !.task = worker[w].task])
<1>1. ASSUME NEW w \in Workers PROVE Reached(worker[w])
  BY DEF OInv, TypeOK, Jobs, Begun, Holds, Reached, TaskOf
<1>2. Reached(Idle)
  BY IdleTypes DEF Reached, LockSteps
<1>3. ASSUME NEW w \in Workers, worker[w].step # "idle"
      PROVE  Reached([Idle EXCEPT !.step = "failing", !.task = worker[w].task])
  <2> DEFINE n == [Idle EXCEPT !.step = "failing", !.task = worker[w].task]
  <2>1. worker[w].task \in Tasks /\ task[worker[w].task].of # "none"
    BY <1>3 DEF OInv, Jobs, TaskOf
  <2>2. n \in WorkerStates /\ n.step = "failing" /\ n.task = worker[w].task /\ n.copy = Idle.copy
    BY <2>1, IdleTypes DEF WorkerStates
  <2> HIDE DEF n
  <2>3. Reached(n)
    BY <2>1, <2>2, IdleTypes DEF Reached, LockSteps
  <2> QED
    BY <2>3 DEF n
<1> QED
  BY <1>1, <1>2, <1>3

\* What a worker's step leaves of everything else.
Kept ==
  /\ state' = state /\ pauses' = pauses
  /\ queue' \subseteq Tasks /\ faults' \in 0..MaxFaults
  /\ analysis' \in [Papers -> Analyses] /\ made' \in [Tasks -> Nat]
  /\ progress' \in Progress
  /\ progress'.pausedFrom \in Late \/ progress'.failedStage \in Late => outputs # <<>>
  /\ \/ outputs' = outputs
     \/ state = "COMPLETED" /\ outputs' \in Seq(Output) /\ outputs' # <<>>
  /\ task' \in [Tasks -> TaskRows]
  /\ \A t \in Tasks : /\ task'[t].of = task[t].of
                      /\ task'[t].status = "ABSENT" <=> task[t].status = "ABSENT"

LEMMA WorkerMoves ==
  ASSUME OInv, Kept, NEW w \in Workers, NEW n \in WorkerStates, Reached(n), Become(w, n)
  PROVE  /\ OInv' /\ worker'[w] = n
         /\ \A v \in Workers \ {w} : worker'[v] = worker[v]
<1>1. /\ worker' \in [Workers -> WorkerStates] /\ worker'[w] = n
      /\ \A v \in Workers \ {w} : worker'[v] = worker[v]
  BY Becomes DEF OInv, Reached
<1>2. \A v \in Workers : Reached(worker'[v])
  BY <1>1, ReachedNow
<1>3. TypeOK'
  BY <1>1 DEF OInv, TypeOK, Kept
<1>4. Jobs'
  BY <1>2 DEF OInv, Jobs, TaskOf, Reached, Kept
<1>5. Begun'
  BY <1>2 DEF OInv, Begun, Holds, Reached, Kept
<1> QED
  BY <1>1, <1>3, <1>4, <1>5 DEF OInv

\* Steps that change nothing but a worker and the queue.
LEMMA Stays ==
  ASSUME OInv, NEW w \in Workers, NEW n \in WorkerStates, Reached(n), Become(w, n),
         UNCHANGED <<runRow, analysis, outputs, task, made, pauses>>,
         queue' \subseteq Tasks, faults' \in 0..MaxFaults
  PROVE  /\ OInv' /\ worker'[w] = n
         /\ \A v \in Workers \ {w} : worker'[v] = worker[v]
<1>1. Kept
  BY DEF Kept, runRow, OInv, TypeOK, Begun
<1> QED
  BY <1>1, WorkerMoves

LEMMA Takes ==
  ASSUME OInv, NEW w \in Workers, NEW t \in Tasks, Take(w, t)
  PROVE  /\ OInv' /\ UNCHANGED <<runRow, analysis, outputs, task, made, bounds>>
         /\ \A v \in Workers \ {w} : worker'[v] = worker[v]
         /\ \/ worker' = worker
            \/ /\ worker'[w].task = t /\ ~TaskLocked(t) /\ ~Done(t)
               /\ \/ worker'[w].step = "analysing"
                  \/ worker'[w].step = "synthesising" /\ ~Locked
<1>1. /\ UNCHANGED <<runRow, analysis, outputs, task, made, bounds>>
      /\ queue' \subseteq Tasks /\ ~TaskLocked(t) /\ worker[w].step = "idle"
  BY DEF Take, Repeated, BeginReanalysis, BeginRegeneration, Delivered, At, OInv, TypeOK
<1> DEFINE reanalysis == [Idle EXCEPT !.step = "analysing", !.task = t, !.copy = progress]
           regeneration == [Idle EXCEPT !.step = "synthesising", !.task = t, !.copy = progress,
                                        !.number = Len(outputs) + 1]
<1>2. progress \in Progress /\ Len(outputs) + 1 \in Nat
  BY LenProperties DEF OInv, TypeOK
<1>3. /\ reanalysis \in WorkerStates /\ reanalysis.step = "analysing"
      /\ reanalysis.task = t /\ reanalysis.copy = progress
  BY <1>2, IdleTypes DEF WorkerStates
<1>4. /\ regeneration \in WorkerStates /\ regeneration.step = "synthesising"
      /\ regeneration.task = t /\ regeneration.copy = progress
  BY <1>2, IdleTypes DEF WorkerStates
<1> HIDE DEF reanalysis, regeneration
<1>5. ASSUME NEW n \in WorkerStates, Reached(n), Become(w, n)
      PROVE  OInv' /\ worker'[w] = n /\ \A v \in Workers \ {w} : worker'[v] = worker[v]
  <2>1. UNCHANGED <<runRow, analysis, outputs, task, made, pauses>> /\ faults' \in 0..MaxFaults
    BY <1>1 DEF bounds, OInv, TypeOK
  <2> QED
    BY <1>1, <1>5, <2>1, Stays
<1>6. CASE Repeated(w, t)
  <2>1. worker' = worker
    BY <1>6 DEF Repeated
  <2>2. Become(w, worker[w]) /\ Reached(worker[w]) /\ worker[w] \in WorkerStates
    BY <2>1, ReachedNow DEF Become, OInv, TypeOK
  <2> QED
    BY <1>1, <1>5, <2>1, <2>2
<1>7. CASE BeginReanalysis(w, t)
  <2>1. Become(w, reanalysis) /\ ~Done(t) /\ task[t].of \in Papers
    BY <1>7 DEF BeginReanalysis, reanalysis
  <2>2. Reached(reanalysis)
    BY <1>3, <2>1, NamesAssumption DEF Reached, LockSteps, OInv, Begun
  <2> QED
    BY <1>1, <1>3, <1>5, <2>1, <2>2
<1>8. CASE BeginRegeneration(w, t)
  <2>1. Become(w, regeneration) /\ ~Done(t) /\ task[t].of = "outputs" /\ ~Locked
    BY <1>8 DEF BeginRegeneration, regeneration
  <2>2. Reached(regeneration)
    BY <1>4, <2>1 DEF Reached, LockSteps, OInv, Begun
  <2> QED
    BY <1>1, <1>4, <1>5, <2>1, <2>2
<1> QED
  BY <1>6, <1>7, <1>8 DEF Take

\* The steps within a transaction, or back out of it.
LEMMA Proceeds ==
  ASSUME OInv, NEW w \in Workers,
         Analysed(w) \/ Synthesise(w) \/ Render(w) \/ Raise(w)
  PROVE  /\ OInv' /\ UNCHANGED <<runRow, analysis, outputs, task, made, pauses>>
         /\ \A v \in Workers \ {w} : worker'[v] = worker[v]
         /\ worker'[w].task = worker[w].task /\ Working(w)
         /\ \/ worker'[w].step = "failing"
            \/ worker'[w].step = "storing" /\ worker[w].step = "analysing"
            \/ /\ worker[w].step = "synthesising" /\ worker'[w].step = "rendering"
               /\ worker'[w].output.synthesis = Latest
            \/ /\ worker[w].step = "rendering" /\ worker'[w].step = "releasing"
               /\ worker'[w].output.synthesis = worker[w].output.synthesis
               /\ worker'[w].output.papers = Latest
<1>1. /\ UNCHANGED <<runRow, analysis, outputs, task, made, pauses>>
      /\ queue' \subseteq Tasks /\ faults' \in 0..MaxFaults /\ Working(w)
  BY SizesAssumption
  DEF Analysed, Synthesise, Render, Raise, Taken, At, Working, Fault, OInv, TypeOK, bounds
<1>2. /\ worker[w] \in WorkerStates /\ Reached(worker[w])
      /\ Latest \in [Papers -> Nat] /\ worker[w].step # "idle"
  BY <1>1, ReachedNow, LatestType DEF OInv, Reached, Working
<1>3. CASE Analysed(w)
  <2> DEFINE n == [worker[w] EXCEPT !.step = "storing", !.number = Latest[TaskOf(w)] + 1]
  <2>1. Become(w, n) /\ worker[w].step = "analysing"
    BY <1>3 DEF Analysed, At
  <2>2. Latest[TaskOf(w)] + 1 \in Nat /\ TaskOf(w) \in Papers
    BY <1>2, <2>1 DEF Reached, TaskOf
  <2>3. /\ n \in WorkerStates /\ n.step = "storing" /\ n.task = worker[w].task
        /\ n.copy = worker[w].copy
    BY <1>2, <2>2 DEF WorkerStates
  <2> HIDE DEF n
  <2>4. Reached(n)
    BY <1>2, <2>1, <2>3 DEF Reached, LockSteps
  <2> QED
    BY <1>1, <2>1, <2>3, <2>4, Stays
<1>4. CASE Synthesise(w)
  <2> DEFINE n == [worker[w] EXCEPT !.step = "rendering", !.output.synthesis = Latest]
  <2>1. Become(w, n) /\ worker[w].step = "synthesising"
    BY <1>4 DEF Synthesise, At
  <2>2. /\ n \in WorkerStates /\ n.step = "rendering" /\ n.task = worker[w].task
        /\ n.copy = worker[w].copy /\ n.output.synthesis = Latest
    BY <1>2 DEF WorkerStates, Output
  <2> HIDE DEF n
  <2>3. Reached(n)
    BY <1>2, <2>1, <2>2 DEF Reached, LockSteps
  <2> QED
    BY <1>1, <2>1, <2>2, <2>3, Stays
<1>5. CASE Render(w)
  <2> DEFINE n == [worker[w] EXCEPT !.step = "releasing", !.output.papers = Latest]
  <2>1. Become(w, n) /\ worker[w].step = "rendering"
    BY <1>5 DEF Render, At
  <2>2. /\ n \in WorkerStates /\ n.step = "releasing" /\ n.task = worker[w].task
        /\ n.copy = worker[w].copy /\ n.output.papers = Latest
        /\ n.output.synthesis = worker[w].output.synthesis
    BY <1>2 DEF WorkerStates, Output
  <2> HIDE DEF n
  <2>3. Reached(n)
    BY <1>2, <2>1, <2>2 DEF Reached, LockSteps
  <2> QED
    BY <1>1, <2>1, <2>2, <2>3, Stays
<1>6. CASE Raise(w)
  <2> DEFINE n == [Idle EXCEPT !.step = "failing", !.task = worker[w].task]
  <2>1. Become(w, n)
    BY <1>6 DEF Raise
  <2>2. Reached(n)
    BY <1>2, ReachedNow
  <2>3. n \in WorkerStates /\ n.step = "failing" /\ n.task = worker[w].task
    BY <2>2, IdleTypes DEF WorkerStates, Reached
  <2> HIDE DEF n
  <2> QED
    BY <1>1, <2>1, <2>2, <2>3, Stays
<1> QED
  BY <1>3, <1>4, <1>5, <1>6

\* A task is done in the transaction of its work.
LEMMA SuccessTypes ==
  ASSUME OInv, NEW w \in Workers, worker[w].step # "idle", Succeeds(w)
  PROVE  /\ Become(w, Idle) /\ queue' \subseteq Tasks /\ faults' \in 0..MaxFaults
         /\ state' = state /\ pauses' = pauses
         /\ worker[w].task \in Tasks
         /\ task' \in [Tasks -> TaskRows] /\ made' \in [Tasks -> Nat]
         /\ \A t \in Tasks : /\ task'[t].of = task[t].of
                             /\ task'[t].status = "ABSENT" <=> task[t].status = "ABSENT"
         /\ task'[worker[w].task].status = "SUCCEEDED"
         /\ made'[worker[w].task] = made[worker[w].task] + 1
         /\ \A t \in Tasks \ {worker[w].task} : task'[t] = task[t] /\ made'[t] = made[t]
<1> DEFINE t == worker[w].task
           done == [task[t] EXCEPT !.status = "SUCCEEDED"]
<1>1. /\ t \in Tasks /\ task[t].of # "none" /\ task[t].status # "ABSENT"
      /\ task \in [Tasks -> TaskRows] /\ made \in [Tasks -> Nat]
  BY DEF OInv, TypeOK, Jobs, TaskOf
<1>2. done \in TaskRows /\ done.status = "SUCCEEDED" /\ done.of = task[t].of
  BY <1>1 DEF TaskRows
<1>3. /\ task' = [task EXCEPT ![t] = done] /\ made' = [made EXCEPT ![t] = @ + 1]
      /\ Ends(w) /\ state' = state /\ pauses' = pauses
  BY DEF Succeeds
<1>4. Become(w, Idle) /\ queue' \subseteq Tasks /\ faults' \in 0..MaxFaults
  BY <1>3, EndTypes DEF Ends, OInv
<1> HIDE DEF t, done
<1>5. /\ task' \in [Tasks -> TaskRows] /\ made' \in [Tasks -> Nat]
      /\ task'[t] = done /\ made'[t] = made[t] + 1
      /\ \A u \in Tasks \ {t} : task'[u] = task[u] /\ made'[u] = made[u]
  BY <1>1, <1>2, <1>3
<1>6. \A u \in Tasks : /\ task'[u].of = task[u].of
                       /\ task'[u].status = "ABSENT" <=> task[u].status = "ABSENT"
  BY <1>1, <1>2, <1>5
<1> QED
  BY <1>1, <1>2, <1>3, <1>4, <1>5, <1>6 DEF t

LEMMA Stores ==
  ASSUME OInv, NEW w \in Workers, StoreAnalysis(w)
  PROVE  /\ OInv' /\ worker'[w] = Idle /\ \A v \in Workers \ {w} : worker'[v] = worker[v]
         /\ worker[w].step = "storing" /\ Succeeds(w) /\ ~Locked
         /\ progress'.requireRegeneration = TRUE /\ outputs' = outputs
<1> DEFINE p == TaskOf(w)
           c == worker[w].copy
<1>1. /\ worker[w].step = "storing" /\ ~Locked /\ Succeeds(w) /\ outputs' = outputs
      /\ progress' = Outdated(c)
  BY DEF StoreAnalysis, At
<1>2. /\ p \in Papers /\ worker[w] \in WorkerStates /\ c \in Progress /\ worker[w].step # "idle"
      /\ c.pausedFrom \in Late \/ c.failedStage \in Late => outputs # <<>>
  BY <1>1 DEF OInv, TypeOK, Jobs, Begun, WorkerStates
<1>3. analysis' \in [Papers -> Analyses]
  <2>1. worker[w].number = Latest[p] + 1 /\ Latest[p] \in Nat
    BY <1>2, LatestType DEF StoreAnalysis, OInv
  <2>2. PICK passes \in BOOLEAN :
          analysis' = [analysis EXCEPT ![p] = [attempt |-> worker[w].number, passes |-> passes]]
    BY DEF StoreAnalysis
  <2> DEFINE a == [attempt |-> worker[w].number, passes |-> passes]
  <2>3. a \in Analyses
    BY <2>1 DEF Analyses
  <2>4. analysis' = [analysis EXCEPT ![p] = a] /\ analysis \in [Papers -> Analyses]
    BY <2>2 DEF OInv, TypeOK
  <2> HIDE DEF a, p
  <2> QED
    BY <2>3, <2>4
<1>4. /\ progress' \in Progress /\ progress'.requireRegeneration = TRUE
      /\ progress'.pausedFrom = c.pausedFrom /\ progress'.failedStage = c.failedStage
  BY <1>1, <1>2 DEF Outdated, Progress
<1>5. Kept /\ Become(w, Idle)
  BY <1>1, <1>2, <1>3, <1>4, SuccessTypes DEF Kept
<1> QED
  BY <1>1, <1>4, <1>5, WorkerMoves, ReachedNow, IdleTypes

LEMMA Releases ==
  ASSUME OInv, NEW w \in Workers, Release(w)
  PROVE  /\ OInv' /\ worker'[w] = Idle /\ \A v \in Workers \ {w} : worker'[v] = worker[v]
         /\ worker[w].step = "releasing" /\ Succeeds(w) /\ state = "COMPLETED"
         /\ analysis' = analysis
         /\ progress'.requireRegeneration = ~Releasable
         /\ \E o \in Output : /\ outputs' = Append(outputs, o) /\ o.released = Releasable
                              /\ o.synthesis = worker[w].output.synthesis
                              /\ o.papers = worker[w].output.papers
<1> DEFINE c == worker[w].copy
           o == [worker[w].output EXCEPT !.released = Releasable]
<1>1. /\ worker[w].step = "releasing" /\ Succeeds(w) /\ analysis' = analysis
      /\ outputs' = Append(outputs, o) /\ progress' = UpToDate(c, Releasable)
  BY DEF Release, At
<1>2. /\ worker[w] \in WorkerStates /\ c \in Progress /\ worker[w].step # "idle"
      /\ c.pausedFrom \in Late \/ c.failedStage \in Late => outputs # <<>>
      /\ state = "COMPLETED" /\ outputs \in Seq(Output)
      /\ analysis \in [Papers -> Analyses]
  BY <1>1 DEF OInv, TypeOK, Jobs, Begun, WorkerStates, Holds, LockSteps
<1>3. Releasable \in BOOLEAN
  BY DEF Releasable
<1>4. /\ progress' \in Progress /\ progress'.requireRegeneration = ~Releasable
      /\ progress'.pausedFrom = c.pausedFrom /\ progress'.failedStage = c.failedStage
  BY <1>1, <1>2, <1>3 DEF UpToDate, Progress
<1>5. /\ o \in Output /\ o.released = Releasable
      /\ o.synthesis = worker[w].output.synthesis /\ o.papers = worker[w].output.papers
  BY <1>2, <1>3 DEF WorkerStates, Output
<1> HIDE DEF o
<1>6. outputs' \in Seq(Output) /\ outputs' # <<>>
  BY <1>1, <1>2, <1>5, AppendProperties, EmptySeq
<1>7. Kept /\ Become(w, Idle)
  BY <1>1, <1>2, <1>4, <1>6, SuccessTypes DEF Kept
<1> QED
  BY <1>1, <1>2, <1>4, <1>5, <1>7, WorkerMoves, ReachedNow, IdleTypes

\* A failure is recorded, a worker dies, or a message is delivered again.
LEMMA Stops ==
  ASSUME OInv, NEW w \in Workers, MarkFailed(w) \/ Crash(w) \/ DeliverTwice(w)
  PROVE  /\ OInv' /\ UNCHANGED <<runRow, analysis, outputs, made, pauses>>
         /\ \/ worker' = worker
            \/ worker'[w] = Idle /\ \A v \in Workers \ {w} : worker'[v] = worker[v]
         /\ \/ task' = task
            \/ /\ worker[w].task \in Tasks /\ ~TaskLocked(worker[w].task)
               /\ task[worker[w].task].status # "SUCCEEDED"
               /\ task'[worker[w].task].status = "FAILED"
               /\ \A t \in Tasks \ {worker[w].task} : task'[t] = task[t]
<1> DEFINE t == worker[w].task
           failed == [task[t] EXCEPT !.status = "FAILED"]
<1>1. /\ worker[w].step # "idle" /\ t \in Tasks /\ task[t].status # "ABSENT"
      /\ task \in [Tasks -> TaskRows] /\ worker[w] \in WorkerStates
      /\ queue' \subseteq Tasks /\ faults' \in 0..MaxFaults
      /\ UNCHANGED <<runRow, analysis, outputs, made, pauses>>
  <2>1. /\ worker[w].step # "idle"
        /\ UNCHANGED <<runRow, analysis, outputs, made, pauses>>
    BY DEF MarkFailed, Crash, DeliverTwice, At, Working
  <2>2. t \in Tasks /\ task[t].status # "ABSENT" /\ TypeOK
    BY <2>1 DEF OInv, TypeOK, Jobs, TaskOf
  <2>3. queue' \subseteq Tasks /\ faults' \in 0..MaxFaults
    BY <2>2, SizesAssumption
    DEF MarkFailed, Crash, DeliverTwice, Ends, Fault, Redelivered, TypeOK
  <2> QED
    BY <2>1, <2>2, <2>3 DEF TypeOK
<1>2. failed \in TaskRows /\ failed.status = "FAILED" /\ failed.of = task[t].of
  BY <1>1 DEF TaskRows
<1>3. \/ task' = task
      \/ MarkFailed(w) /\ Unsucceeded(t) /\ task' = [task EXCEPT ![t] = failed]
  BY DEF MarkFailed, Crash, DeliverTwice
<1>4. (Become(w, Idle) /\ Reached(Idle)) \/ worker' = worker
  BY ReachedNow DEF MarkFailed, Crash, DeliverTwice, Ends
<1>5. worker' = worker => Become(w, worker[w]) /\ Reached(worker[w])
  BY ReachedNow DEF Become, OInv, TypeOK
<1> HIDE DEF t, failed
<1>6. /\ task' \in [Tasks -> TaskRows]
      /\ \/ task' = task
         \/ /\ MarkFailed(w) /\ Unsucceeded(t) /\ task'[t] = failed
            /\ \A u \in Tasks \ {t} : task'[u] = task[u]
  BY <1>1, <1>2, <1>3
<1>7. \A u \in Tasks : /\ task'[u].of = task[u].of
                       /\ task'[u].status = "ABSENT" <=> task[u].status = "ABSENT"
  BY <1>1, <1>2, <1>6
<1>8. Kept
  BY <1>1, <1>6, <1>7 DEF Kept, OInv, TypeOK, Begun, runRow
<1>9. /\ OInv'
      /\ \/ worker' = worker
         \/ worker'[w] = Idle /\ \A v \in Workers \ {w} : worker'[v] = worker[v]
  BY <1>1, <1>4, <1>5, <1>8, WorkerMoves, IdleTypes
<1>10. MarkFailed(w) => ~TaskLocked(t)
  BY DEF MarkFailed, t
<1> QED
  BY <1>1, <1>2, <1>6, <1>9, <1>10 DEF t, Unsucceeded

\* A step of the specification, by what it is a step of.
LEMMA Steps ==
  ASSUME OInv, [Next]_vars
  PROVE  \/ Stage \/ PausedStage \/ FailedStage \/ Resume
         \/ \E t \in Tasks : RequestRegeneration(t) \/ \E p \in Papers : RequestReanalysis(t, p)
         \/ \E w \in Workers, t \in Tasks : Take(w, t)
         \/ \E w \in Workers : Analysed(w) \/ Synthesise(w) \/ Render(w) \/ Raise(w)
         \/ \E w \in Workers : StoreAnalysis(w)
         \/ \E w \in Workers : Release(w)
         \/ \E w \in Workers : MarkFailed(w) \/ Crash(w) \/ DeliverTwice(w)
         \/ UNCHANGED vars
  BY DEF Next, Work

LEMMA TypesKept == OInv /\ [Next]_vars => OInv'
<1> SUFFICES ASSUME OInv, [Next]_vars PROVE OInv'
  OBVIOUS
<1>1. CASE UNCHANGED vars
  BY <1>1 DEF vars, runRow, bounds, OInv, TypeOK, Jobs, Begun, TaskOf, Holds
<1> QED
  BY <1>1, Steps, RunTypes, RequestTypes, Takes, Proceeds, Stores, Releases, Stops

LEMMA TypesAlways == Spec => []OInv
<1> QED
  BY TypeInit, TypesKept, PTL DEF Spec

\* The columns of the run, of its requests and of the sessions keep to their values: a
\* stage after the first always finds the generation it adds to.
THEOREM OutputTypeCorrect == Spec => []TypeOK
<1> QED
  BY TypesAlways, PTL DEF OInv

-----------------------------------------------------------------------------
(* A request makes one analysis or one generation *)

LEMMA SingleKept == OInv /\ Single /\ [Next]_vars => Single'
<1> SUFFICES ASSUME OInv, Single, [Next]_vars PROVE Single'
  OBVIOUS
<1>1. ASSUME UNCHANGED <<task, worker, made>> PROVE Single'
  BY <1>1 DEF Single, Working
<1>2. CASE Stage \/ PausedStage \/ FailedStage \/ Resume \/ UNCHANGED vars
  BY <1>1, <1>2 DEF Stage, PausedStage, FailedStage, Resume, vars
<1>3. ASSUME NEW t \in Tasks,
             RequestRegeneration(t) \/ \E p \in Papers : RequestReanalysis(t, p)
      PROVE  Single'
  BY <1>3, RequestTypes DEF Single, Working, OInv, Jobs
<1>4. ASSUME NEW w \in Workers, NEW t \in Tasks, Take(w, t) PROVE Single'
  <2>1. UNCHANGED <<task, made>>
    BY <1>4, Takes
  <2>2. CASE worker' = worker
    BY <1>1, <2>1, <2>2
  <2>3. CASE worker' # worker
    BY <1>4, <2>1, <2>3, Takes DEF Single, Working, TaskLocked, Done
  <2> QED
    BY <2>2, <2>3
<1>5. ASSUME NEW w \in Workers, Analysed(w) \/ Synthesise(w) \/ Render(w) \/ Raise(w)
      PROVE  Single'
  <2>1. /\ UNCHANGED <<task, made>> /\ Working(w) /\ worker'[w].task = worker[w].task
        /\ \A v \in Workers \ {w} : worker'[v] = worker[v]
    BY <1>5, Proceeds
  <2>2. \A v \in Workers : Working(v)' => Working(v) /\ worker'[v].task = worker[v].task
    BY <2>1 DEF Working
  <2> QED
    BY <2>1, <2>2 DEF Single
<1>6. ASSUME NEW w \in Workers, StoreAnalysis(w) \/ Release(w) PROVE Single'
  <2>1. /\ worker'[w] = Idle /\ \A v \in Workers \ {w} : worker'[v] = worker[v]
        /\ Succeeds(w) /\ Working(w) /\ worker[w].step # "idle"
    BY <1>6, Stores, Releases DEF Working
  <2>2. \A v \in Workers : Working(v)' =>
          /\ v # w /\ Working(v) /\ worker'[v].task = worker[v].task
          /\ worker[v].task # worker[w].task /\ worker[v].task \in Tasks
    BY <2>1, IdleTypes DEF Working, Single, OInv, Jobs
  <2>3. /\ worker[w].task \in Tasks /\ task'[worker[w].task].status = "SUCCEEDED"
        /\ made'[worker[w].task] = made[worker[w].task] + 1
        /\ \A t \in Tasks \ {worker[w].task} : task'[t] = task[t] /\ made'[t] = made[t]
    BY <2>1, SuccessTypes
  <2>4. made[worker[w].task] = 0
    BY <2>1, <2>3 DEF Single
  <2>5. \A t \in Tasks : made'[t] = IF task'[t].status = "SUCCEEDED" THEN 1 ELSE 0
    BY <2>3, <2>4 DEF Single
  <2> QED
    BY <2>1, <2>2, <2>3, <2>5 DEF Single
<1>7. ASSUME NEW w \in Workers, MarkFailed(w) \/ Crash(w) \/ DeliverTwice(w) PROVE Single'
  <2>1. \A v \in Workers : Working(v)' => Working(v) /\ worker'[v].task = worker[v].task
    BY <1>7, Stops, IdleTypes DEF Working
  <2>2. made' = made
    BY <1>7, Stops
  <2>3. CASE task' = task
    BY <2>1, <2>2, <2>3 DEF Single
  <2>4. CASE task' # task
    <3>1. /\ worker[w].task \in Tasks /\ ~TaskLocked(worker[w].task)
          /\ task[worker[w].task].status # "SUCCEEDED"
          /\ task'[worker[w].task].status = "FAILED"
          /\ \A t \in Tasks \ {worker[w].task} : task'[t] = task[t]
      BY <1>7, <2>4, Stops
    <3>2. \A v \in Workers : Working(v)' => task'[worker'[v].task].status # "SUCCEEDED"
      BY <2>1, <3>1 DEF Single, OInv, Jobs, Working
    <3> QED
      BY <2>1, <2>2, <3>1, <3>2 DEF Single
  <2> QED
    BY <2>3, <2>4
<1> QED
  BY <1>2, <1>3, <1>4, <1>5, <1>6, <1>7, Steps

LEMMA SingleInit == Init => Single
  BY IdleTypes DEF Init, Single, Working

LEMMA SingleAlways == Spec => []Single
<1> QED
  BY TypeInit, TypesKept, SingleInit, SingleKept, PTL DEF Spec

\* A request that was committed makes one analysis or one generation, however often its
\* message is delivered and whichever deliveries fail or die in the middle.
THEOREM RequestsMakeOne == Spec => []MadeOnce
<1>1. OInv /\ Single => MadeOnce
  BY DEF Single, MadeOnce
<1> QED
  BY <1>1, TypesAlways, SingleAlways, PTL

\* A step that changes what has succeeded leaves it so.
LEMMA SuccessKept ==
  ASSUME OInv, [Next]_vars, NEW t \in Tasks, task[t].status = "SUCCEEDED"
  PROVE  task'[t].status = "SUCCEEDED"
<1>1. CASE Stage \/ PausedStage \/ FailedStage \/ Resume \/ UNCHANGED vars
  BY <1>1 DEF Stage, PausedStage, FailedStage, Resume, vars
<1>2. ASSUME NEW u \in Tasks,
             RequestRegeneration(u) \/ \E p \in Papers : RequestReanalysis(u, p)
      PROVE  task'[t].status = "SUCCEEDED"
  BY <1>2, RequestTypes
<1>3. ASSUME NEW w \in Workers,
             \/ Analysed(w) \/ Synthesise(w) \/ Render(w) \/ Raise(w)
             \/ \E u \in Tasks : Take(w, u)
      PROVE  task'[t].status = "SUCCEEDED"
  BY <1>3, Proceeds, Takes
<1>4. ASSUME NEW w \in Workers, StoreAnalysis(w) \/ Release(w)
      PROVE  task'[t].status = "SUCCEEDED"
  <2>1. Succeeds(w) /\ worker[w].step # "idle"
    BY <1>4, Stores, Releases
  <2> QED
    BY <2>1, SuccessTypes
<1>5. ASSUME NEW w \in Workers, MarkFailed(w) \/ Crash(w) \/ DeliverTwice(w)
      PROVE  task'[t].status = "SUCCEEDED"
  BY <1>5, Stops
<1> QED
  BY <1>1, <1>2, <1>3, <1>4, <1>5, Steps

\* What a delivery has stored is not taken back by one that failed before it and
\* records its failure later.
THEOREM SuccessIsKept == Spec => SuccessStays
<1>1. OInv /\ [Next]_vars =>
        [\A t \in Tasks : task[t].status = "SUCCEEDED" => task'[t].status = "SUCCEEDED"]_vars
  BY SuccessKept
<1> QED
  BY <1>1, TypesAlways, PTL DEF Spec, SuccessStays

-----------------------------------------------------------------------------
(* A generation is of one piece *)

LEMMA LockedIsHeld == Locked <=> \E w \in Workers : Holds(w)
  BY DEF Locked, Holds, LockSteps

LEMMA PiecesKept == OInv /\ Pieces /\ [Next]_vars => Pieces'
<1> SUFFICES ASSUME OInv, Pieces, [Next]_vars PROVE Pieces'
  OBVIOUS
<1>1. ASSUME UNCHANGED <<worker, analysis>> PROVE Pieces'
  BY <1>1 DEF Pieces, Holds, Latest
<1>2. CASE Stage \/ PausedStage \/ FailedStage \/ Resume \/ UNCHANGED vars
  BY <1>1, <1>2 DEF Stage, PausedStage, FailedStage, Resume, vars
<1>3. ASSUME NEW t \in Tasks,
             RequestRegeneration(t) \/ \E p \in Papers : RequestReanalysis(t, p)
      PROVE  Pieces'
  BY <1>1, <1>3, RequestTypes
<1>4. ASSUME NEW w \in Workers, NEW t \in Tasks, Take(w, t) PROVE Pieces'
  <2>1. UNCHANGED analysis /\ \A v \in Workers \ {w} : worker'[v] = worker[v]
    BY <1>4, Takes
  <2>2. CASE worker' = worker
    BY <1>1, <2>1, <2>2
  <2>3. CASE worker'[w].step = "analysing"
    BY <2>1, <2>3 DEF Pieces, Holds, LockSteps, Latest
  <2>4. CASE worker'[w].step = "synthesising" /\ ~Locked
    BY <2>1, <2>4, LockedIsHeld DEF Pieces, Holds, LockSteps, Latest
  <2> QED
    BY <1>4, <2>2, <2>3, <2>4, Takes
<1>5. ASSUME NEW w \in Workers, Analysed(w) \/ Synthesise(w) \/ Render(w) \/ Raise(w)
      PROVE  Pieces'
  <2>1. /\ Latest' = Latest /\ \A v \in Workers \ {w} : worker'[v] = worker[v]
        /\ \/ worker'[w].step \in {"failing", "storing"}
           \/ /\ Holds(w) /\ worker'[w].step = "rendering"
              /\ worker'[w].output.synthesis = Latest
           \/ /\ Holds(w) /\ worker'[w].step = "releasing"
              /\ worker'[w].output.synthesis = Latest
              /\ worker'[w].output.papers = Latest
    BY <1>5, Proceeds DEF Latest, Holds, LockSteps, Pieces
  <2>2. \A v \in Workers : Holds(v)' => Holds(v)
    BY <2>1 DEF Holds, LockSteps
  <2> QED
    BY <2>1, <2>2 DEF Pieces
<1>6. ASSUME NEW w \in Workers, StoreAnalysis(w) PROVE Pieces'
  <2>1. /\ worker'[w] = Idle /\ \A v \in Workers \ {w} : worker'[v] = worker[v]
        /\ ~Locked
    BY <1>6, Stores
  <2>2. \A v \in Workers : ~Holds(v)'
    BY <2>1, LockedIsHeld, IdleTypes DEF Holds, LockSteps
  <2> QED
    BY <2>2 DEF Pieces, Holds, LockSteps
<1>7. ASSUME NEW w \in Workers, Release(w) \/ MarkFailed(w) \/ Crash(w) \/ DeliverTwice(w)
      PROVE  Pieces'
  <2>1. /\ analysis' = analysis
        /\ \/ worker' = worker
           \/ worker'[w] = Idle /\ \A v \in Workers \ {w} : worker'[v] = worker[v]
    BY <1>7, Releases, Stops
  <2>2. CASE worker' = worker
    BY <1>1, <2>1, <2>2
  <2>3. CASE worker'[w] = Idle /\ \A v \in Workers \ {w} : worker'[v] = worker[v]
    BY <2>1, <2>3, IdleTypes DEF Pieces, Holds, LockSteps, Latest
  <2> QED
    BY <2>1, <2>2, <2>3
<1> QED
  BY <1>2, <1>3, <1>4, <1>5, <1>6, <1>7, Steps

LEMMA PiecesInit == Init => Pieces
  BY IdleTypes DEF Init, Pieces, Holds, LockSteps

LEMMA PiecesAlways == Spec => []Pieces
<1> QED
  BY TypeInit, TypesKept, PiecesInit, PiecesKept, PTL DEF Spec

LEMMA ConsistentKept == OInv /\ Pieces /\ RegeneratedConsistent /\ [Next]_vars => RegeneratedConsistent'
<1> SUFFICES ASSUME OInv, Pieces, RegeneratedConsistent, [Next]_vars
             PROVE  RegeneratedConsistent'
  OBVIOUS
<1>1. ASSUME outputs' = outputs PROVE RegeneratedConsistent'
  BY <1>1 DEF RegeneratedConsistent
<1>2. CASE Stage \/ PausedStage \/ FailedStage \/ Resume
  <2>1. (state \in Making /\ Handled) \/ outputs' = outputs
    BY <1>2 DEF Stage, PausedStage, FailedStage, Resume
  <2>2. CASE state \in Making /\ Handled
    BY <2>2, Handling DEF RegeneratedConsistent
  <2> QED
    BY <1>1, <2>1, <2>2
<1>3. ASSUME NEW w \in Workers, Release(w) PROVE RegeneratedConsistent'
  <2>1. PICK o \in Output : /\ outputs' = Append(outputs, o)
                            /\ o.synthesis = worker[w].output.synthesis
                            /\ o.papers = worker[w].output.papers
    BY <1>3, Releases
  <2>2. o.synthesis = o.papers
    BY <1>3, <2>1, Releases DEF Pieces
  <2>3. outputs \in Seq(Output) /\ Len(outputs) \in Nat
    BY DEF OInv, TypeOK
  <2>4. /\ Len(outputs') = Len(outputs) + 1
        /\ \A g \in 1..Len(outputs) : outputs'[g] = outputs[g]
        /\ outputs'[Len(outputs) + 1] = o
    BY <2>1, <2>3, AppendProperties
  <2> QED
    BY <2>2, <2>3, <2>4 DEF RegeneratedConsistent
<1>4. CASE UNCHANGED vars
  BY <1>1, <1>4 DEF vars
<1> QED
  BY <1>1, <1>2, <1>3, <1>4, Steps, RequestTypes, Takes, Proceeds, Stores, Stops

\* A regeneration synthesises, renders and checks the same analyses, since nobody can
\* store another while it holds the run's row.
THEOREM RegenerationIsOfOnePiece == Spec => []RegeneratedConsistent
<1>1. Init => RegeneratedConsistent
  BY DEF Init, RegeneratedConsistent
<1> QED
  BY <1>1, ConsistentKept, TypesAlways, PiecesAlways, PTL DEF Spec

-----------------------------------------------------------------------------
(* What a finished run serves *)

ServesLast ==
  outputs \in Seq(Output) /\ outputs # <<>> /\ outputs[Len(outputs)].released
    => Served = Len(outputs) /\ Served # 0

LEMMA LastServed == ServesLast
<1> SUFFICES ASSUME outputs \in Seq(Output), outputs # <<>>, outputs[Len(outputs)].released
             PROVE  Served = Len(outputs) /\ Served # 0
  BY DEF ServesLast
<1> DEFINE n == Len(outputs)
           released == {g \in 1..n : outputs[g].released}
<1>1. n \in Nat \ {0}
  BY FirstGeneration
<1> HIDE DEF n
<1>2. n \in released /\ \A h \in released : h <= n
  BY <1>1 DEF n
<1>3. \A g \in released : (\A h \in released : h <= g) => g = n
  BY <1>1, <1>2
<1>4. (CHOOSE g \in released : \A h \in released : h <= g) = n
  BY <1>2, <1>3
<1>5. Served = IF released = {} THEN 0 ELSE CHOOSE g \in released : \A h \in released : h <= g
  BY DEF Served, n
<1> HIDE DEF released
<1> QED
  BY <1>1, <1>2, <1>4, <1>5 DEF n

\* What is served of a finished run, and the output of one that is not finished.
UpToDateInv == Current /\ ServedIsCurrent

LEMMA StageKeepsCurrent ==
  ASSUME OInv, Pieces, UpToDateInv, Stage \/ PausedStage \/ FailedStage \/ Resume
  PROVE  UpToDateInv'
<1>1. Making = {"SYNTHESIZING", "RENDERING", "RELEASE_CHECKING"}
  BY DEF Making, MakingStages
<1>2. /\ state # "COMPLETED" /\ analysis' = analysis /\ Latest' = Latest
      /\ progress'.requireRegeneration = progress.requireRegeneration
      /\ (state \in Making /\ Handled) \/ (outputs' = outputs /\ state' # "COMPLETED")
  BY <1>1 DEF Stage, PausedStage, FailedStage, Resume, OInv, TypeOK, Progress, Latest
<1>3. /\ outputs \in Seq(Output) /\ outputs # <<>> => Len(outputs) = 1
      /\ state \in Late => outputs # <<>>
  BY <1>2, FirstGeneration DEF OInv, TypeOK, Begun
<1>4. "RELEASE_CHECKING" \in {state', progress'.pausedFrom, progress'.failedStage} =>
        \/ "RELEASE_CHECKING" \in {state, progress.pausedFrom, progress.failedStage}
        \/ state = "RENDERING" /\ Handled
  BY <1>1 DEF Stage, PausedStage, FailedStage, Resume, OInv, TypeOK, Progress, Successor
<1>5. ASSUME ~progress.requireRegeneration, outputs' # <<>>
      PROVE  /\ outputs'[1].synthesis = Latest
             /\ outputs'[1].papers \in {Unrendered, Latest}
             /\ "RELEASE_CHECKING" \in {state', progress'.pausedFrom, progress'.failedStage}
                  => outputs'[1].papers = Latest
  <2>1. CASE outputs' = outputs /\ ~(state \in Making /\ Handled)
    BY <1>1, <1>2, <1>4, <1>5, <2>1 DEF UpToDateInv, Current
  <2>2. CASE state = "SYNTHESIZING" /\ Handled
    <3>1. /\ outputs = <<>> /\ outputs'[1].synthesis = Latest
          /\ outputs'[1].papers = Unrendered
      BY <1>1, <2>2, Handling
    <3>2. "RELEASE_CHECKING" \notin {state, progress.pausedFrom, progress.failedStage}
      BY <3>1 DEF OInv, Begun, Late
    <3> QED
      BY <1>4, <2>2, <3>1, <3>2
  <2>3. CASE state = "RENDERING" /\ Handled
    BY <1>1, <1>2, <1>3, <1>5, <2>3, Handling DEF UpToDateInv, Current, Late
  <2>4. CASE state = "RELEASE_CHECKING" /\ Handled
    BY <1>1, <1>2, <1>3, <1>5, <2>4, Handling DEF UpToDateInv, Current, Late
  <2> QED
    BY <1>1, <1>2, <2>1, <2>2, <2>3, <2>4
<1>6. ASSUME state' = "COMPLETED", ~progress.requireRegeneration
      PROVE  Served' # 0 /\ outputs'[Served'].synthesis = Latest
             /\ outputs'[Served'].papers = Latest
  <2>1. state = "RELEASE_CHECKING" /\ Handled /\ Releasable
    BY <1>1, <1>6 DEF Stage, PausedStage, FailedStage, Resume, Successor, OInv, TypeOK, Progress
  <2>2. /\ outputs' \in Seq(Output) /\ Len(outputs') = 1 /\ outputs'[1].released
        /\ outputs'[1].synthesis = outputs[1].synthesis
        /\ outputs'[1].papers = outputs[1].papers
    BY <1>1, <2>1, Handling DEF Late
  <2>3. outputs' # <<>>
    <3>1. Len(outputs') = 1
      BY <2>2
    <3> QED
      BY <3>1, EmptySeq
  <2>4. Served' = 1
    <3>1. ServesLast'
      BY LastServed, PTL
    <3> QED
      BY <2>2, <2>3, <3>1 DEF ServesLast
  <2>5. outputs[1].synthesis = Latest /\ outputs[1].papers = Latest
    BY <1>2, <1>3, <1>6, <2>1 DEF UpToDateInv, Current, Late
  <2> QED
    BY <2>2, <2>4, <2>5
<1>7. Current'
  BY <1>2, <1>5 DEF Current, Unrendered
<1>8. ServedIsCurrent'
  BY <1>2, <1>6 DEF ServedIsCurrent
<1> QED
  BY <1>7, <1>8 DEF UpToDateInv

LEMMA ReleaseKeepsCurrent ==
  ASSUME OInv, Pieces, NEW w \in Workers, Release(w)
  PROVE  UpToDateInv'
<1>1. /\ state = "COMPLETED" /\ state' = "COMPLETED" /\ Latest' = Latest
      /\ progress'.requireRegeneration = ~Releasable
      /\ worker[w].output.synthesis = Latest /\ worker[w].output.papers = Latest
  BY Releases DEF Pieces, Latest, Succeeds
<1>2. PICK o \in Output : /\ outputs' = Append(outputs, o) /\ o.released = Releasable
                          /\ o.synthesis = Latest /\ o.papers = Latest
  BY <1>1, Releases
<1>3. outputs \in Seq(Output)
  BY DEF OInv, TypeOK
<1>4. /\ outputs' \in Seq(Output) /\ outputs' # <<>>
      /\ outputs'[Len(outputs')] = o
  BY <1>2, <1>3, AppendProperties, EmptySeq
<1>5. ServesLast'
  BY LastServed, PTL
<1>6. ASSUME Releasable
      PROVE  Served' # 0 /\ outputs'[Served'].synthesis = Latest
             /\ outputs'[Served'].papers = Latest
  BY <1>2, <1>4, <1>5, <1>6 DEF ServesLast
<1> QED
  BY <1>1, <1>6 DEF UpToDateInv, Current, ServedIsCurrent

LEMMA CurrentKept == OInv /\ Pieces /\ UpToDateInv /\ [Next]_vars => UpToDateInv'
<1> SUFFICES ASSUME OInv, Pieces, UpToDateInv, [Next]_vars PROVE UpToDateInv'
  OBVIOUS
<1>1. ASSUME UNCHANGED <<state, progress, analysis, outputs>> PROVE UpToDateInv'
  BY <1>1 DEF UpToDateInv, Current, ServedIsCurrent, Served, Latest, Unrendered
<1>2. ASSUME NEW w \in Workers, StoreAnalysis(w) PROVE UpToDateInv'
  BY <1>2, Stores DEF UpToDateInv, Current, ServedIsCurrent
<1>3. CASE UNCHANGED vars
  BY <1>1, <1>3 DEF vars, runRow
<1>4. ASSUME NEW t \in Tasks,
             \/ RequestRegeneration(t) \/ \E p \in Papers : RequestReanalysis(t, p)
             \/ \E w \in Workers : Take(w, t)
      PROVE  UpToDateInv'
  BY <1>1, <1>4, RequestTypes, Takes DEF runRow
<1>5. ASSUME NEW w \in Workers,
             \/ Analysed(w) \/ Synthesise(w) \/ Render(w) \/ Raise(w)
             \/ MarkFailed(w) \/ Crash(w) \/ DeliverTwice(w)
      PROVE  UpToDateInv'
  BY <1>1, <1>5, Proceeds, Stops DEF runRow
<1> QED
  BY <1>2, <1>3, <1>4, <1>5, Steps, StageKeepsCurrent, ReleaseKeepsCurrent

\* While a finished run is not marked for regeneration, the generation it serves is
\* made of the latest attempt of every paper, synthesis and papers alike.
THEOREM FinishedRunServesCurrent == Spec => []ServedIsCurrent
<1>1. Init => UpToDateInv
  BY DEF Init, UpToDateInv, Current, ServedIsCurrent
<1>2. Spec => []UpToDateInv
  BY <1>1, CurrentKept, TypesAlways, PiecesAlways, PTL DEF Spec
<1> QED
  BY <1>2, PTL DEF UpToDateInv
=============================================================================
