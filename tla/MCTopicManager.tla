--------------------------- MODULE MCTopicManager ---------------------------
(***************************************************************************)
(* Small instances of the SHIP topic manager for TLC.                       *)
(***************************************************************************)
EXTENDS TopicManagerRefinement, TLC

\* Goroutines, topics and handlers are interchangeable.
Symmetry == Permutations(Procs) \cup Permutations(Topics) \cup Permutations(Handlers)
=============================================================================
