---------------------------- MODULE RunLifecycle ----------------------------
(***************************************************************************)
(* What a research run promises its user, without workers, deliveries,     *)
(* locks or control rows: one state, the place an interrupted run goes     *)
(* back to, and the user's answer to a shortfall.  ResearchRun is shown to *)
(* implement this specification.                                           *)
(***************************************************************************)
EXTENDS RunStates

VARIABLES
  mode,      \* the execution mode, fixed when the run is created
  state,     \* the run state a client reads
  resumeAt,  \* the stage an interrupted run continues with, NoState otherwise
  consent    \* has the user accepted a strict shortfall?

vars == <<mode, state, resumeAt, consent>>

\* Stages whose own handler spends the protocol's model budget; the papers of
\* ANALYZING fail one by one instead.
BudgetedStages == {"RELEVANCE_SCORING", "SYNTHESIZING"}

\* Where a finished stage can lead.
Onward(s) ==
  {NextState(s, mode, "none", short, allowed) : short, allowed \in BOOLEAN}

TypeOK ==
  /\ mode \in Modes
  /\ state \in States
  /\ resumeAt \in Stages \cup {NoState}
  /\ consent \in BOOLEAN

Init ==
  /\ mode \in Modes
  /\ state = "QUEUED"
  /\ resumeAt = NoState
  /\ consent = FALSE

\* A run that is observed from one of its stages on, uninterrupted so far.
ObservedInit ==
  /\ mode \in Modes
  /\ state \in Stages
  /\ resumeAt = NoState
  /\ consent = FALSE

\* A stage ends and the run goes where the pipeline says.
Advance ==
  /\ state \in Stages
  /\ state' \in Onward(state)
  /\ UNCHANGED <<mode, resumeAt, consent>>

\* A stage ends because the user asked for a pause, or because it failed.
Interrupt ==
  /\ state \in Stages
  /\ state' \in Interrupted
  /\ resumeAt' = state
  /\ UNCHANGED <<mode, consent>>

\* The user resumes: the run goes back exactly to where it was interrupted.
Resume ==
  /\ state \in Interrupted
  /\ state' = resumeAt
  /\ resumeAt' = NoState
  /\ UNCHANGED <<mode, consent>>

\* The user authorises analysing fewer papers than the protocol asked for.
AcceptShortfall ==
  /\ state = Awaiting
  /\ state' = "ANALYZING"
  /\ consent' = TRUE
  /\ UNCHANGED <<mode, resumeAt>>

\* Cancelling takes two steps; a failed run has to be resumed first.
RequestCancel ==
  /\ state \in Stages \cup {"PAUSED", Awaiting}
  /\ state' = "CANCEL_REQUESTED"
  /\ resumeAt' = NoState
  /\ UNCHANGED <<mode, consent>>

ConfirmCancel ==
  /\ state = "CANCEL_REQUESTED"
  /\ state' = "CANCELLED"
  /\ UNCHANGED <<mode, resumeAt, consent>>

\* The model budget of the protocol is spent.
ExhaustBudget ==
  /\ mode = "full_research"
  /\ state \in BudgetedStages
  /\ state' = "FAILED_TERMINAL"
  /\ UNCHANGED <<mode, resumeAt, consent>>

Next ==
  \/ Advance
  \/ Interrupt
  \/ Resume
  \/ AcceptShortfall
  \/ RequestCancel
  \/ ConfirmCancel
  \/ ExhaustBudget

Spec == Init /\ [][Next]_vars

ObservedSpec == ObservedInit /\ [][Next]_vars

-----------------------------------------------------------------------------

\* Stages that acquire, parse or analyse full texts.
FullTextStages ==
  {"FULLTEXT_ACQUIRING", "PARSING", "ANALYZING", "EVIDENCE_AUDITING", "SYNTHESIZING"}

\* An execution mode confines the run for its whole life, also after pauses,
\* failures and resumptions: a validate-only run never reaches discovery, and a
\* search-only run never touches full texts, evidence or the analysis experts.
ModeConfined ==
  LET places == {state, resumeAt}
  IN  /\ mode = "validate_only" =>
           places \subseteq {"QUEUED", "COMPLETED", NoState, "CANCEL_REQUESTED",
                             "CANCELLED"} \cup Interrupted
      /\ mode = "search_only" =>
           places \cap (FullTextStages \cup {Awaiting}) = {}

=============================================================================
