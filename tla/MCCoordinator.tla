--------------------------- MODULE MCCoordinator ---------------------------
(* Instances of Coordinator for TLC.                                       *)
EXTENDS Coordinator, TLC

(* Workers and handler slots are interchangeable.                          *)
Symmetry == Permutations(Workers) \cup Permutations(Handlers)
=============================================================================
