----------------------------- MODULE RunStates -----------------------------
(***************************************************************************)
(* The constant part of the literature-research workflow: the states of a  *)
(* research run, the order of the pipeline, the table of legal transitions *)
(* and the decision a stage takes when it ends.  workflow.py owns all of   *)
(* these; the worker tasks, the REST routes and the watchdog use them.     *)
(***************************************************************************)

\* RunState members of the pipeline that a worker executes
\* (PIPELINE_STATES without its last element, COMPLETED).
Stages ==
  {"QUEUED", "DISCOVERING", "NORMALIZING", "ENRICHING_METRICS",
   "DEDUPLICATING", "HARD_FILTERING", "RELEVANCE_SCORING",
   "FULLTEXT_ACQUIRING", "PARSING", "SELECTING", "ANALYZING",
   "EVIDENCE_AUDITING", "SYNTHESIZING", "RENDERING", "RELEASE_CHECKING"}

Terminal == {"COMPLETED", "PARTIALLY_COMPLETED", "FAILED_TERMINAL", "CANCELLED"}

Awaiting == "AWAITING_RELAXATION_AUTHORIZATION"

Interrupted == {"PAUSED", "FAILED_RETRYABLE"}

States == Stages \cup Terminal \cup Interrupted \cup {Awaiting, "CANCEL_REQUESTED"}

Modes == {"full_research", "search_only", "validate_only"}

\* No state at all: what a table lookup that raises would have returned.
NoState == "NO_STATE"

\* The element that follows a stage in PIPELINE_STATES.
Successor(s) ==
  CASE s = "QUEUED"             -> "DISCOVERING"
    [] s = "DISCOVERING"        -> "NORMALIZING"
    [] s = "NORMALIZING"        -> "ENRICHING_METRICS"
    [] s = "ENRICHING_METRICS"  -> "DEDUPLICATING"
    [] s = "DEDUPLICATING"      -> "HARD_FILTERING"
    [] s = "HARD_FILTERING"     -> "RELEVANCE_SCORING"
    [] s = "RELEVANCE_SCORING"  -> "FULLTEXT_ACQUIRING"
    [] s = "FULLTEXT_ACQUIRING" -> "PARSING"
    [] s = "PARSING"            -> "SELECTING"
    [] s = "SELECTING"          -> "ANALYZING"
    [] s = "ANALYZING"          -> "EVIDENCE_AUDITING"
    [] s = "EVIDENCE_AUDITING"  -> "SYNTHESIZING"
    [] s = "SYNTHESIZING"       -> "RENDERING"
    [] s = "RENDERING"          -> "RELEASE_CHECKING"
    [] s = "RELEASE_CHECKING"   -> "COMPLETED"
    [] OTHER                    -> NoState

-----------------------------------------------------------------------------

\* The edges every stage starts with, before the table is specialised.
Diversions == {"CANCEL_REQUESTED", "PAUSED", "FAILED_RETRYABLE", "FAILED_TERMINAL"}

\* ALLOWED_TRANSITIONS after its update(); a terminal state has no entry.
Allowed(s) ==
  CASE s = "QUEUED"             -> {"DISCOVERING", "COMPLETED"}
                                     \cup (Diversions \ {"FAILED_TERMINAL"})
    [] s = "RELEVANCE_SCORING"  -> {"FULLTEXT_ACQUIRING", "SELECTING"} \cup Diversions
    [] s = "SELECTING"          -> {"ANALYZING", "RENDERING", Awaiting,
                                    "COMPLETED", "PARTIALLY_COMPLETED"} \cup Diversions
    [] s = "RENDERING"          -> {"RELEASE_CHECKING", "COMPLETED",
                                    "PARTIALLY_COMPLETED"} \cup Diversions
    [] s = "RELEASE_CHECKING"   -> {"COMPLETED", "PARTIALLY_COMPLETED"} \cup Diversions
    [] s = Awaiting             -> {"ANALYZING", "PARTIALLY_COMPLETED", "CANCEL_REQUESTED"}
    [] s = "FAILED_RETRYABLE"   -> Stages \cup {"FAILED_TERMINAL"}
    [] s = "PAUSED"             -> Stages \cup {"CANCEL_REQUESTED"}
    [] s = "CANCEL_REQUESTED"   -> {"CANCELLED"}
    [] s \in Terminal           -> {}
    [] OTHER                    -> {Successor(s)} \cup Diversions

\* Mutation: the final state forgets the shortfall.
OutcomeUndisclosed(short) == "COMPLETED"

\* How a run that delivered something ends.
Outcome(short) == IF short THEN "PARTIALLY_COMPLETED" ELSE "COMPLETED"

\* Search-only runs rank and export metadata, and skip full texts and experts.
MetadataOnly(mode) == mode = "search_only"

\* How execute_stage names the next state: a control request wins over
\* everything, then the cancellation checkpoint, then the execution mode and
\* the counts, then the pipeline order.  "short" is strict_count < target_count
\* as the handler left it, "allowed" the verdict of the release gate.
NextState(s, mode, control, short, allowed) ==
  CASE control = "cancel"                                 -> "CANCEL_REQUESTED"
    [] control = "pause"                                  -> "PAUSED"
    [] control = "none" /\ s = "CANCEL_REQUESTED"         -> "CANCELLED"
    [] control = "none" /\ s = "QUEUED"
         /\ mode = "validate_only"                        -> "COMPLETED"
    [] control = "none" /\ s = "RELEVANCE_SCORING"
         /\ MetadataOnly(mode)                            -> "SELECTING"
    [] control = "none" /\ s = "RELEASE_CHECKING"         ->
         IF allowed THEN Outcome(short) ELSE "FAILED_TERMINAL"
    [] control = "none" /\ s = "SELECTING"
         /\ MetadataOnly(mode)                            -> "RENDERING"
    [] control = "none" /\ s = "RENDERING"
         /\ MetadataOnly(mode)                            -> Outcome(short)
    [] control = "none" /\ s = "SELECTING"
         /\ ~MetadataOnly(mode) /\ short                  -> Awaiting
    [] OTHER                                              -> Successor(s)

=============================================================================
