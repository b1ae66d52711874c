--------------------------- MODULE MCGraphLifecycle ---------------------------
(* A graph of two nodes, of a user kernel and a built-in one, with one data *)
(* object the application keeps and one it can only extract.               *)
EXTENDS GraphLifecycle, TLC

CONSTANTS n1, n2, d1, d2, x1

MCNodes == {n1, n2}
MCUserNodes == {n1}
MCData == {d1, d2}
MCHeld == {d1}
MCOthers == {x1}
=============================================================================
