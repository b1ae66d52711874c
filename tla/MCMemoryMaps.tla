---------------------------- MODULE MCMemoryMaps ----------------------------
(* Instances of MemoryMaps: an object of every kind. *)
EXTENDS MemoryMaps, TLC

CONSTANTS t1, t2, t3, image, handle, array

MCTwoThreads == {t1, t2}
MCThreeThreads == {t1, t2, t3}
MCImages == {image}
MCHandleImages == {handle}
MCArrays == {array}

(* Threads are only compared. *)
Symmetry == Permutations(Threads)
=============================================================================
