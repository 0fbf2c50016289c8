--------------------------- MODULE MCResearchRun ---------------------------
(***************************************************************************)
(* Model-checking instances of ResearchRun.  A run takes 16 transitions    *)
(* from QUEUED to COMPLETED, so besides the runs that start at QUEUED there *)
(* are runs that observe the program from a later stage on: the state an   *)
(* uninterrupted run is in when that stage begins.                         *)
(***************************************************************************)
EXTENDS ResearchRun, TLC

CONSTANT StartStages  \* first stages observed

\* Stages only a full-research run reaches, with no shortfall in an
\* uninterrupted run (a run with one is observed from SELECTING on).
FullResearchOnly == {"ANALYZING", "EVIDENCE_AUDITING", "SYNTHESIZING"}

\* Search-only and full-research runs go the same way up to SELECTING, so from
\* QUEUED on one of the two is observed.
ObservedModes(s) ==
  IF s \in FullResearchOnly THEN {"full_research"}
  ELSE IF s = "QUEUED" THEN {"validate_only", "full_research"}
  ELSE {"search_only", "full_research"}

\* Transitions are counted from the first stage observed.  SELECTING counts the
\* papers anew, so it is entered with a shortfall.
StartInit ==
  /\ state \in StartStages
  /\ mode \in ObservedModes(state)
  /\ version = 0
  /\ short = (state \notin FullResearchOnly)
  /\ pausedFrom = "QUEUED"
  /\ failedStage = "QUEUED"
  /\ consent = FALSE
  /\ synthesised = FALSE
  /\ control = "none"
  /\ queue = {Execute(state)}
  /\ worker = [w \in Workers |-> Idle]
  /\ client = [c \in Clients |-> NoRequest]
  /\ faults = 0

ASSUME StartAssumption ==
  StartStages \subseteq {"QUEUED", "SELECTING"} \cup FullResearchOnly

StartSpec == StartInit /\ [][Next]_vars

StartFairSpec == StartSpec /\ Fairness

Symmetry == Permutations(Workers)
=============================================================================
