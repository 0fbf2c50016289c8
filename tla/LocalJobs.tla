----------------------------- MODULE LocalJobs -----------------------------
(***************************************************************************)
(* What the two execution modes of a local analysis job share: the status  *)
(* words of jobs and stages, and how a worker's database session reads and *)
(* writes rows.                                                            *)
(*                                                                         *)
(* A session keeps every row it has read until it ends                     *)
(* (expire_on_commit=False, and a later SELECT ... FOR UPDATE of a row the *)
(* session holds does not refresh it).  A worker so decides by what it saw *)
(* when it loaded a row plus its own writes, and a flush writes only what  *)
(* differs from that: the copy is part of the models.                      *)
(***************************************************************************)
EXTENDS Naturals, FiniteSets

\* TERMINAL_JOB_STATUSES
Terminal == {"COMPLETED", "PARTIAL", "FAILED", "CANCELLED"}

JobStatuses == {"ABSENT", "QUEUED", "RETRIEVING", "ANALYZING", "SYNTHESIZING"} \cup Terminal

\* A new value reaches the database only if it differs from the session's copy.
Written(copy, new, stored) == IF copy = new THEN stored ELSE new

\* COMPLETED if no paper failed and there is a synthesis.
Outcome(succeeded, failed, synthesised) ==
  IF succeeded = {} THEN "FAILED"
  ELSE IF synthesised /\ failed = {} THEN "COMPLETED"
  ELSE "PARTIAL"

\* The first n of a set of stages, in the order of stage_index.
FirstOf(S, n) == {s \in S : Cardinality({t \in S : t < s}) < n}

=============================================================================
