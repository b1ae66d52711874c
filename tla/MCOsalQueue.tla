---------------------------- MODULE MCOsalQueue ----------------------------
(* Small instances of OsalQueue for TLC. *)
EXTENDS OsalQueue, TLC

(* Pointers are only copied and compared. *)
Symmetry == Permutations(Values)
=============================================================================
