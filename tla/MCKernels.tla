------------------------------ MODULE MCKernels ------------------------------
(* A small instance of Kernels for TLC. *)
EXTENDS Kernels, TLC

CONSTANTS k1, k2, m1

PublishesSecond == m1 :> k2
=============================================================================
