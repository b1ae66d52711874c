------------------------- MODULE MCContextLifecycle -------------------------
(* Instances of ContextLifecycle. *)
EXTENDS ContextLifecycle, TLC

CONSTANTS main, a1, a2, g1, g2

MCApps == {main, a1, a2}
MCGraphs == {g1, g2}
=============================================================================
