-------------------------- MODULE MCGraphSchedule --------------------------
(* Small instances of GraphSchedule for TLC. *)
EXTENDS GraphSchedule, TLC

(* Graphs and application threads are only compared. *)
Symmetry == Permutations(Graphs) \cup Permutations(Apps)
=============================================================================
