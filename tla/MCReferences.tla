----------------------------- MODULE MCReferences -----------------------------
(* Small instances of References: a graph with a node, an image and a      *)
(* region of it or an object array, and two threads.                       *)
EXTENDS References, TLC

CONSTANTS t1, t2, graph, node, image, region, array, item

MCThreads == {t1, t2}

MCGraphs == {graph}
MCNodes == {node}
MCImages == {image}
MCRegions == {region}
MCArrays == {array}
MCItems == {item}

Symmetry == Permutations(MCThreads)
=============================================================================
