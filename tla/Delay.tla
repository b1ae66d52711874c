-------------------------------- MODULE Delay --------------------------------
(***************************************************************************)
(* A delay of pyramids (vx_delay.c): a ring of objects, each with internal *)
(* delays for its levels, and the node parameters that are bound to its    *)
(* elements (vxSetParameterByIndex, ownDestructNode).                      *)
(*                                                                         *)
(* A parameter bound to an element is associated with the delay: its node  *)
(* is filed under a slot, so that vxAgeDelay can bind it to another        *)
(* element, and so that the association is found again when the parameter  *)
(* is set or the node destroyed.  A node has one parameter.                *)
(***************************************************************************)
EXTENDS Integers, Sequences, FiniteSets, SequencesExt, FiniteSetsExt

CONSTANTS
  Count,     (* delay->count                                               *)
  Nodes,     (* bound: nodes whose parameter is set                        *)
  Pyramid,   (* the delay itself                                           *)
  Levels,    (* the internal delays of its levels                          *)
  Plain,     (* a data object that is no element of a delay                *)
  Null

Delays == {Pyramid} \cup Levels
Slots == 0 .. Count - 1
Elements == Delays \X Slots   (* <<d, s>> is refs[s] of the delay d *)

ASSUME CountAssumption == Count \in Nat \ {0}
ASSUME NamesAssumption ==
  /\ Pyramid \notin Levels /\ Null \notin Nodes /\ {Plain, Null} \cap Elements = {} /\ Plain # Null

VARIABLES
  index,        (* delay->index                                            *)
  set,          (* delay->set: per slot a node, and the chain behind it    *)
  internal,     (* internal_count of the delays                            *)
  external,     (* the application has its reference to the pyramid's delay *)
  alive,        (* delays that were not destroyed                          *)
  parameter,    (* node->parameters[0], Null if the node does not exist    *)
  bound         (* history: the position relative to the delay's index at  *)
                (* which the parameter was set                             *)

vars == <<index, set, internal, external, alive, parameter, bound>>

IsElement(r) == r \in Elements
DelayOf(r) == r[1]
SlotOf(r) == r[2]

-----------------------------------------------------------------------------
(* The associations of a delay. *)

(* The slot under which ownAddAssociationToDelay files a parameter, and    *)
(* ownRemoveAssociationToDelay looks for it.                               *)
FiledUnder(r) == (index[DelayOf(r)] + Count - SlotOf(r)) % Count

Found(r, n) ==
  LET entry == set[DelayOf(r)][FiledUnder(r)] IN entry.head = n \/ Contains(entry.next, n)

(* The head is taken when it is empty, whatever is behind it.              *)
WithNode(entry, n) ==
  IF entry.head = Null THEN [entry EXCEPT !.head = n] ELSE [entry EXCEPT !.next = Append(@, n)]

WithoutNode_Chain(entry, n) ==   (* deviation: the chain goes with its head *)
  IF entry.head = n THEN [head |-> Null, next |-> <<>>]
                    ELSE [entry EXCEPT !.next = RemoveFirst(@, n)]

WithoutNode(entry, n) ==
  IF entry.head = n THEN [entry EXCEPT !.head = Null]
                    ELSE [entry EXCEPT !.next = RemoveFirst(@, n)]

(* Associations after the parameter r of n is given up, or taken.          *)
Dropped(sets, r, n) ==
  IF IsElement(r) /\ Found(r, n)
  THEN [sets EXCEPT ![DelayOf(r)][FiledUnder(r)] = WithoutNode(@, n)] ELSE sets

Added(sets, r, n) ==
  IF IsElement(r) THEN [sets EXCEPT ![DelayOf(r)][FiledUnder(r)] = WithNode(@, n)] ELSE sets

(* An association counts as an internal reference to its delay.            *)
Uncounted(counts, r, n) ==
  IF IsElement(r) /\ Found(r, n) THEN [counts EXCEPT ![DelayOf(r)] = @ - 1] ELSE counts

Counted(counts, r) == IF IsElement(r) THEN [counts EXCEPT ![DelayOf(r)] = @ + 1] ELSE counts

(* Delays whose last reference is gone; ownDestructDelay of the pyramid's  *)
(* delay releases those of the levels, which may have associations left.   *)
Destroy(counts, held) ==
  LET main == Pyramid \in alive /\ ~held /\ counts[Pyramid] = 0
      left == [d \in Delays |-> IF main /\ d \in Levels THEN counts[d] - 1 ELSE counts[d]]
  IN /\ internal' = left
     /\ alive' = {d \in alive : left[d] > 0 \/ (d = Pyramid /\ held)}

-----------------------------------------------------------------------------

CreateNode(n) ==
  /\ parameter[n] = Null
  /\ parameter' = [parameter EXCEPT ![n] = Plain]
  /\ UNCHANGED <<index, set, internal, external, alive, bound>>

(* vxGetReferenceFromDelay: the index of the element k steps back.         *)
GetReferenceFromDelay(d, k) == <<d, (index[d] + k) % Count>>

(* vxSetParameterByIndex: an association that is not found is an internal  *)
(* error, and the parameter stays what it was.                             *)
SetParameter(n, r, k) ==
  /\ parameter[n] # Null
  /\ IsElement(parameter[n]) => Found(parameter[n], n)
  /\ set' = Added(Dropped(set, parameter[n], n), r, n)
  /\ Destroy(Counted(Uncounted(internal, parameter[n], n), r), external)
  /\ parameter' = [parameter EXCEPT ![n] = r]
  /\ bound' = [bound EXCEPT ![n] = k]
  /\ UNCHANGED <<index, external>>

(* An element, which the application gets from the delay it refers to (and *)
(* the level from the pyramid).                                            *)
SetElement(n, d, k) == external /\ SetParameter(n, GetReferenceFromDelay(d, k), k)

SetPlain(n) == parameter[n] # Plain /\ SetParameter(n, Plain, 0)

(* ownDestructNode: an association that is not found stays.                *)
DestructNode(n) ==
  /\ parameter[n] # Null
  /\ set' = Dropped(set, parameter[n], n)
  /\ Destroy(Uncounted(internal, parameter[n], n), external)
  /\ parameter' = [parameter EXCEPT ![n] = Null]
  /\ bound' = [bound EXCEPT ![n] = 0]
  /\ UNCHANGED <<index, external>>

NextIndex_Stays(d) == index[d]   (* deviation: parameters move, the index does not *)
NextIndex(d) == (index[d] + 1) % Count

Associated(d, s) == {n \in Nodes : set[d][s].head = n \/ Contains(set[d][s].next, n)}

(* What n is bound to when the delays have moved on: the parameters filed  *)
(* under slot i get the element i places after the index.                  *)
Rebound(n) ==
  IF \E d \in Delays, i \in Slots : n \in Associated(d, i)
  THEN LET a == CHOOSE a \in Delays \X Slots : n \in Associated(a[1], a[2])
       IN <<a[1], (((index[a[1]] + 1) % Count) + a[2]) % Count>>
  ELSE parameter[n]

(* vxAgeDelay of the pyramid's delay and of those of its levels, by the    *)
(* application, or at the end of an execution of a graph it is registered  *)
(* with: vxRegisterAutoAging takes no reference, so the delay has to live. *)
AgeDelay ==
  /\ Pyramid \in alive
  /\ index' = [d \in Delays |-> NextIndex(d)]
  /\ parameter' = [n \in Nodes |-> Rebound(n)]
  /\ UNCHANGED <<set, internal, external, alive, bound>>

ReleaseDelay ==
  /\ external
  /\ external' = FALSE
  /\ Destroy(internal, FALSE)
  /\ UNCHANGED <<index, set, parameter, bound>>

Init ==
  /\ index = [d \in Delays |-> 0]
  /\ set = [d \in Delays |-> [s \in Slots |-> [head |-> Null, next |-> <<>>]]]
  /\ internal = [d \in Delays |-> IF d \in Levels THEN 1 ELSE 0]
  /\ external = TRUE
  /\ alive = Delays
  /\ parameter = [n \in Nodes |-> Null]
  /\ bound = [n \in Nodes |-> 0]

Next ==
  \/ \E n \in Nodes :
       \/ CreateNode(n) \/ SetPlain(n) \/ DestructNode(n)
       \/ \E d \in Delays, k \in Slots : SetElement(n, d, k)
  \/ AgeDelay \/ ReleaseDelay

Spec == Init /\ [][Next]_vars

-----------------------------------------------------------------------------
(* Properties. *)

Entries == [head : Nodes \cup {Null}, next : Seq(Nodes)]

TypeOK ==
  /\ index \in [Delays -> Slots]
  /\ set \in [Delays -> [Slots -> Entries]]
  /\ internal \in [Delays -> Nat]
  /\ external \in BOOLEAN /\ alive \subseteq Delays
  /\ parameter \in [Nodes -> Elements \cup {Plain, Null}]
  /\ bound \in [Nodes -> Slots]

(* How often n is filed in the delay d. *)
Filed(d, n) ==
  MapThenSumSet(LAMBDA s : (IF set[d][s].head = n THEN 1 ELSE 0)
                             + Len(SelectSeq(set[d][s].next, LAMBDA m : m = n)), Slots)

(* The association of a parameter is found when it has to be removed:      *)
(* otherwise vxSetParameterByIndex reports "Internal error removing delay  *)
(* association" and ownDestructNode leaves a freed node in the delay.      *)
AssociationsAreFound == \A n \in Nodes : IsElement(parameter[n]) => Found(parameter[n], n)

(* A node is filed once, in the delay its parameter is an element of, and  *)
(* in no other: whatever heads were emptied and whatever is behind them.   *)
(* The associations are what keeps a delay alive that the application has  *)
(* released.                                                               *)
AssociationsAreCounted ==
  /\ TypeOK /\ AssociationsAreFound
  /\ \A d \in Delays, n \in Nodes :
       Filed(d, n) = IF IsElement(parameter[n]) /\ DelayOf(parameter[n]) = d THEN 1 ELSE 0
  /\ \A d \in Delays :
       internal[d] = Cardinality({n \in Nodes : Filed(d, n) > 0})
                      + (IF d \in Levels /\ Pyramid \in alive THEN 1 ELSE 0)
  /\ \A n \in Nodes : IsElement(parameter[n]) => DelayOf(parameter[n]) \in alive

(* A parameter that was set to the element k steps back stays bound to the *)
(* element k steps back, however often the delay, and those of its levels, *)
(* are aged.                                                               *)
ParametersFollowTheDelay ==
  \A n \in Nodes : IsElement(parameter[n]) =>
    parameter[n] = GetReferenceFromDelay(DelayOf(parameter[n]), bound[n])
=============================================================================
