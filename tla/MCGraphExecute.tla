---------------------------- MODULE MCGraphExecute ----------------------------
(* Instances of GraphExecute: an image with two disjoint regions, and two  *)
(* other objects.                                                          *)
EXTENDS GraphExecute

CONSTANTS image, left_half, right_half, x, y

MCRefs == {image, left_half, right_half, x, y}
MCOverlaps == {image} \X {left_half, right_half} \cup {left_half, right_half} \X {image}

In(r) == [dir |-> "in", ref |-> r, optional |-> FALSE]
Opt(r) == [dir |-> "in", ref |-> r, optional |-> TRUE]
Out(r) == [dir |-> "out", ref |-> r, optional |-> FALSE]
Bi(r) == [dir |-> "bi", ref |-> r, optional |-> FALSE]

(* Sources, a chain, joins of two regions and of a region and its image, a *)
(* node that closes a cycle, one that updates its parameter in place.      *)
MCCatalog ==
  {<<Out(left_half)>>,
   <<Opt(NoRef), Out(right_half)>>,
   <<In(left_half), Out(right_half)>>,
   <<In(left_half), In(right_half), Out(x)>>,
   <<In(image), In(x), Out(y)>>,
   <<In(left_half), Bi(x)>>,
   <<In(x), Out(left_half)>>,
   <<In(x), Out(y)>>,
   <<In(NoRef), Out(y)>>}

(* A source, whose output can be changed, and its consumer. *)
SmallCatalog == {<<Out(x)>>, <<Out(image)>>, <<In(x), Out(y)>>}
=============================================================================
