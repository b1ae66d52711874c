------------------------------- MODULE MCDelay -------------------------------
(* Instances of Delay: pyramids of two levels. *)
EXTENDS Delay, TLC

CONSTANTS n1, n2, n3, level1, level2

MCNodes == {n1, n2, n3}
MCLevels == {level1, level2}

(* Nodes and levels are only compared. *)
Symmetry == Permutations(MCNodes) \cup Permutations(MCLevels)
=============================================================================
