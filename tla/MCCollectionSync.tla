-------------------------- MODULE MCCollectionSync --------------------------
(***************************************************************************)
(* Model-checking instances of CollectionSync: workers and contents are    *)
(* interchangeable.                                                        *)
(***************************************************************************)
EXTENDS CollectionSync, TLC

Symmetry == Permutations(Workers) \cup Permutations(Contents)

\* Mirrored speaks of clean behaviours and NothingLost of behaviours without a fault;
\* from a state that is neither nothing is left to be seen, as both are for ever.
Relevant == clean \/ faults = 0
=============================================================================
