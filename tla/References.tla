------------------------------ MODULE References ------------------------------
(***************************************************************************)
(* Reference counts (vx_reference.c): every object has an external count,  *)
(* of the application, and an internal one, of other objects; the object   *)
(* is destroyed when both are zero, and its destructor releases what it    *)
(* holds.  The context keeps a table of all objects and destroys them when *)
(* it is released itself (vx_context.c).                                   *)
(*                                                                         *)
(* A call is a list of things to do, one for each section of code under a  *)
(* lock; threads interleave between them.  A destructor puts what it does  *)
(* in front of the list, as the calls nest in the code.                    *)
(*                                                                         *)
(* Who holds what is the relation holds: a graph its nodes, a node its     *)
(* parameter, an image its parent, internally, and an object array its     *)
(* items, externally.                                                      *)
(***************************************************************************)
EXTENDS Integers, Sequences, FiniteSets, FiniteSetsExt, SequencesExt

CONSTANTS
  Threads,      (* threads of the application                              *)
  Graphs, Nodes, Images, Regions, Arrays, Items,   (* bound: the objects   *)
                (* they make; Regions are images made from other images    *)
  NumSlots,     (* VX_INT_MAX_REF, the size of the table                   *)
  MaxHandles,   (* bound: references of one thread to one object           *)
  MaxObjects,   (* bound: objects created in all                           *)
  Null

Objects == Graphs \cup Nodes \cup Images \cup Regions \cup Arrays \cup Items
Parameters == Images \cup Regions \cup Arrays   (* of nodes *)
Slots == 1 .. NumSlots
Kinds == {"external", "internal"}

ASSUME BoundsAssumption == {NumSlots, MaxHandles, MaxObjects} \subseteq Nat \ {0}
ASSUME ObjectsAssumption == IsFiniteSet(Objects) /\ IsFiniteSet(Threads) /\ Null \notin Objects
(* Every object has one type.                                              *)
ASSUME KindsAssumption ==
  /\ Graphs \cap (Nodes \cup Images \cup Regions \cup Arrays \cup Items) = {}
  /\ Nodes \cap (Images \cup Regions \cup Arrays \cup Items) = {}
  /\ Images \cap (Regions \cup Arrays \cup Items) = {}
  /\ Regions \cap (Arrays \cup Items) = {}
  /\ Arrays \cap Items = {}

VARIABLES
  context,          (* the context is in use, collects its objects or is gone *)
  phase,            (* of an object: it does not exist, exists, is being      *)
                    (* destroyed, was freed                                   *)
  external,         (* ref->external_count                                    *)
  internal,         (* ref->internal_count                                    *)
  reftable,         (* context->reftable                                      *)
  num_references,   (* context->num_references                                *)
  holds,            (* pairs of objects: the first one refers to the second   *)
  handles,          (* references a thread of the application has             *)
  todo              (* what is left to do of a thread's call                  *)

counts == <<external, internal>>
table == <<reftable, num_references>>
vars == <<context, phase, external, internal, reftable, num_references, holds, handles, todo>>

(* What there is to do. *)
Decrement(o, kind) == [do |-> "decrement", ref |-> o, kind |-> kind]
Increment(n, o) == [do |-> "increment", ref |-> o, by |-> n]   (* of the node n *)
TakeOut(o) == [do |-> "take out", ref |-> o]
Release(o) == [do |-> "free", ref |-> o]
DestructGraph(g) == [do |-> "graph", ref |-> g]
RemoveNodeInt(n) == [do |-> "node", ref |-> n]
InitItem(a, i) == [do |-> "item", ref |-> a, item |-> i]
Collect(s) == [do |-> "collect", slot |-> s]

HeldKind(o) == IF o \in Arrays THEN "external" ELSE "internal"
HeldBy(o) == {p \in Objects : <<o, p>> \in holds}
HoldersOf(o, kind) == {p \in Objects : <<p, o>> \in holds /\ HeldKind(p) = kind}

-----------------------------------------------------------------------------
(* The table. *)

Room == \E s \in Slots : reftable[s] = Null

FreeSlot_Count == num_references + 1   (* deviation: behind the last entry, holes or not *)
FreeSlot == Min({s \in Slots : reftable[s] = Null})

(* ownAddReference. *)
AddReference(o) ==
  /\ reftable' = [reftable EXCEPT ![FreeSlot] = o]
  /\ num_references' = num_references + 1

Entry(o) == {s \in Slots : reftable[s] = o}

InTable(o) == Entry(o) # {}

-----------------------------------------------------------------------------
(* Calls of the application, on objects it has a reference to.             *)

Ready(t) == context = "live" /\ todo[t] = <<>>

(* A node is used by a thread that holds its graph too, as long as there   *)
(* is one: destroying the graph takes the application's reference to it.   *)
Has(t, o) ==
  /\ handles[t][o] > 0
  /\ o \in Nodes => \A g \in Graphs : <<g, o>> \in holds => handles[t][g] > 0

Take(t, o) == handles' = [handles EXCEPT ![t][o] = @ + 1]

(* An object that can be created: there is room for it.                    *)
New(o) ==
  /\ phase[o] = "none" /\ Cardinality({p \in Objects : phase[p] # "none"}) < MaxObjects
  /\ Room

(* ownCreateReference.  When the table is full, or there is no memory, the *)
(* call returns an error object and changes nothing.                       *)
CreateReference(t, o) ==
  /\ New(o)
  /\ phase' = [phase EXCEPT ![o] = "live"]
  /\ AddReference(o)
  /\ Take(t, o)

(* vxCreateGraph, vxCreateImage.                                           *)
Create(t, o) ==
  /\ CreateReference(t, o)
  /\ external' = [external EXCEPT ![o] = 1]
  /\ UNCHANGED <<context, internal, holds, todo>>

(* vxCreateImageFromROI, vxCreateImageFromChannel.                         *)
CreateImageFromROI(t, o, parent) ==
  /\ Has(t, parent)
  /\ CreateReference(t, o)
  /\ external' = [external EXCEPT ![o] = 1]
  /\ internal' = [internal EXCEPT ![parent] = @ + 1]
  /\ holds' = holds \cup {<<o, parent>>}
  /\ UNCHANGED <<context, todo>>

(* vxCreateGenericNode, under the graph's lock.                            *)
CreateGenericNode(t, g, n) ==
  /\ Has(t, g)
  /\ CreateReference(t, n)
  /\ external' = [external EXCEPT ![n] = 1]
  /\ internal' = [internal EXCEPT ![n] = 1]
  /\ holds' = holds \cup {<<g, n>>}
  /\ UNCHANGED <<context, todo>>

(* Another call on the same node would read a parameter that is being      *)
(* released: one thread at a time.                                         *)
Exclusive(t, n) == \A u \in Threads \ {t} : todo[u] = <<>> \/ handles[u][n] = 0

(* vxSetParameterByIndex: ownNodeSetParameter releases the old parameter,  *)
(* then counts the new one.                                                *)
SetParameterByIndex(t, n, d) ==
  /\ Has(t, n) /\ Has(t, d)
  /\ Exclusive(t, n)
  /\ holds' = (holds \ {<<n, o>> : o \in HeldBy(n)}) \cup {<<n, d>>}
  /\ todo' = [todo EXCEPT ![t] =
                [i \in DOMAIN SetToSeq(HeldBy(n)) |-> Decrement(SetToSeq(HeldBy(n))[i], "internal")]
                \o <<Increment(n, d)>>]
  /\ UNCHANGED <<context, phase, counts, table, handles>>

(* vxQueryParameter of VX_PARAMETER_REF, vxGetObjectArrayItem.             *)
GetHeld(t, o, d) ==
  /\ Has(t, o)
  /\ Exclusive(t, o) /\ handles[t][d] < MaxHandles
  /\ external' = [external EXCEPT ![d] = @ + 1]
  /\ Take(t, d)
  /\ UNCHANGED <<context, phase, internal, table, holds, todo>>

(* vxRetainReference, by t, of a reference it gives to u.                  *)
RetainReference(t, u, o) ==
  /\ Has(t, o) /\ handles[u][o] < MaxHandles
  /\ external' = [external EXCEPT ![o] = @ + 1]
  /\ Take(u, o)
  /\ UNCHANGED <<context, phase, internal, table, holds, todo>>

ReleaseReference(t, o) ==
  /\ Has(t, o)
  /\ handles' = [handles EXCEPT ![t][o] = @ - 1]
  /\ todo' = [todo EXCEPT ![t] = <<Decrement(o, "external")>>]
  /\ UNCHANGED <<context, phase, counts, table, holds>>

(* vxRemoveNode: out of the graph, under its lock, then both references.   *)
RemoveNode(t, g, n) ==
  /\ Has(t, n) /\ <<g, n>> \in holds
  /\ holds' = holds \ {<<g, n>>}
  /\ handles' = [handles EXCEPT ![t][n] = @ - 1]
  /\ todo' = [todo EXCEPT ![t] = <<Decrement(n, "internal"), Decrement(n, "external")>>]
  /\ UNCHANGED <<context, phase, counts, table>>

(* vxCreateObjectArray: the array, then its item.                          *)
CreateObjectArray(t, a, i) ==
  /\ phase[i] = "none"
  /\ CreateReference(t, a)
  /\ external' = [external EXCEPT ![a] = 1]
  /\ todo' = [todo EXCEPT ![t] = <<InitItem(a, i)>>]
  /\ UNCHANGED <<context, internal, holds>>

(* vxReleaseContext, of the last reference, when every call has returned.  *)
ReleaseContext(t) ==
  /\ \A u \in Threads : todo[u] = <<>>
  /\ context' = "collecting"
  /\ handles' = [u \in Threads |-> [o \in Objects |-> 0]]
  /\ todo' = [todo EXCEPT ![t] = <<Collect(1)>>]
  /\ UNCHANGED <<phase, counts, table, holds>>

-----------------------------------------------------------------------------
(* The steps of a call. *)

Doing(t, what) == todo[t] # <<>> /\ Head(todo[t]).do = what

First(t) == Head(todo[t])

(* The first thing is done; more is to be done before the rest.            *)
Continue(t, more) == todo' = [todo EXCEPT ![t] = more \o Tail(@)]

Less(count) == IF count = 0 THEN 0 ELSE count - 1

LastOf_External(ext, int) == ext = 0   (* deviation: internal references do not count *)
LastOf(ext, int) == ext + int = 0

(* ownReleaseReferenceInt up to the count: an object that was freed is not *)
(* valid, and ownDecrementReference works under the object's lock.         *)
DecrementReference(t) ==
  /\ Doing(t, "decrement")
  /\ LET o == First(t).ref
         ext == IF First(t).kind = "external" THEN Less(external[o]) ELSE external[o]
         int == IF First(t).kind = "internal" THEN Less(internal[o]) ELSE internal[o]
     IN IF phase[o] = "freed" THEN Continue(t, <<>>) /\ UNCHANGED counts
        ELSE /\ external' = [external EXCEPT ![o] = ext]
             /\ internal' = [internal EXCEPT ![o] = int]
             /\ Continue(t, IF LastOf(ext, int) THEN <<TakeOut(o)>> ELSE <<>>)
  /\ UNCHANGED <<context, phase, table, holds, handles>>

IncrementReference(t) ==
  /\ Doing(t, "increment")
  /\ internal' = [internal EXCEPT ![First(t).ref] = @ + 1]
  /\ Continue(t, <<>>)
  /\ UNCHANGED <<context, phase, external, table, holds, handles>>

Releases_None(o) == <<>>   (* deviation: a destructor keeps what the object holds *)
(* What a destructor releases; only ownDestructGraph looks at its nodes    *)
(* one by one.                                                             *)
Releases(o) ==
  IF o \in Graphs THEN <<DestructGraph(o)>>
  ELSE LET held == SetToSeq(HeldBy(o)) IN
       [i \in DOMAIN held |-> Decrement(held[i], HeldKind(o))]

(* ownRemoveReference, under the context's lock, and the destructor.  An   *)
(* object that is not in the table is not destroyed again.                 *)
RemoveReference(t) ==
  /\ Doing(t, "take out")
  /\ LET o == First(t).ref IN
     IF ~InTable(o) THEN Continue(t, <<>>) /\ UNCHANGED <<phase, table, holds>>
     ELSE /\ reftable' = [s \in Slots |-> IF s \in Entry(o) THEN Null ELSE reftable[s]]
          /\ num_references' = num_references - 1
          /\ phase' = [phase EXCEPT ![o] = "dying"]
          /\ holds' = IF o \in Graphs THEN holds ELSE {h \in holds : h[1] # o}
          /\ Continue(t, Releases(o) \o <<Release(o)>>)
  /\ UNCHANGED <<context, counts, handles>>

Free(t) ==
  /\ Doing(t, "free")
  /\ phase' = [phase EXCEPT ![First(t).ref] = "freed"]
  /\ Continue(t, <<>>)
  /\ UNCHANGED <<context, counts, table, holds, handles>>

(* ownDestructGraph: while there are nodes, release the external reference *)
(* of the first one, if it has one, and take it out of the graph.  The     *)
(* reference is the application's: one of its threads has lost it.         *)
DestructNextNode(t) ==
  /\ Doing(t, "graph")
  /\ LET g == First(t).ref IN
     \/ /\ HeldBy(g) = {}
        /\ Continue(t, <<>>)
        /\ UNCHANGED handles
     \/ \E n \in HeldBy(g) :
          IF external[n] = 0
          THEN Continue(t, <<RemoveNodeInt(n), First(t)>>) /\ UNCHANGED handles
          ELSE /\ Continue(t, <<Decrement(n, "external"), RemoveNodeInt(n), First(t)>>)
               /\ IF context = "collecting" THEN UNCHANGED handles
                  ELSE \E u \in Threads : /\ handles[u][n] > 0
                                          /\ handles' = [handles EXCEPT ![u][n] = @ - 1]
  /\ UNCHANGED <<context, phase, counts, table, holds>>

(* ownRemoveNodeInt, under the graph's lock; a node that is not valid any  *)
(* more stays where it is.                                                 *)
UnlinkNode(t) ==
  /\ Doing(t, "node")
  /\ LET n == First(t).ref IN
     IF phase[n] = "freed" THEN Continue(t, <<>>) /\ UNCHANGED holds
     ELSE /\ holds' = holds \ {<<g, n>> : g \in Graphs}
          /\ Continue(t, <<Decrement(n, "internal")>>)
  /\ UNCHANGED <<context, phase, counts, table, handles>>

(* ownInitObjectArrayInt.                                                  *)
InitObjectArray(t) ==
  /\ Doing(t, "item") /\ New(First(t).item)
  /\ phase' = [phase EXCEPT ![First(t).item] = "live"]
  /\ AddReference(First(t).item)
  /\ external' = [external EXCEPT ![First(t).item] = 1]
  /\ holds' = holds \cup {<<First(t).ref, First(t).item>>}
  /\ Continue(t, <<>>)
  /\ UNCHANGED <<context, internal, handles>>

(* When the item cannot be created the array is released, and the          *)
(* application gets an error object.                                       *)
InitObjectArrayFails(t) ==
  /\ Doing(t, "item")
  /\ handles' = [handles EXCEPT ![t][First(t).ref] = @ - 1]
  /\ Continue(t, <<Decrement(First(t).ref, "external")>>)
  /\ UNCHANGED <<context, phase, counts, table, holds>>

(* vxReleaseContext collects what is left, entry by entry: all external    *)
(* references but one are dropped, and that one is released.               *)
CollectNext(t) ==
  /\ Doing(t, "collect")
  /\ LET s == First(t).slot IN
     IF s \notin Slots
     THEN /\ context' = "gone"
          /\ Continue(t, <<>>)
          /\ UNCHANGED external
     ELSE /\ UNCHANGED context
          /\ IF reftable[s] = Null \/ external[reftable[s]] = 0
             THEN Continue(t, <<Collect(s + 1)>>) /\ UNCHANGED external
             ELSE /\ external' = [external EXCEPT ![reftable[s]] = 1]
                  /\ Continue(t, <<Decrement(reftable[s], "external"), Collect(s + 1)>>)
  /\ UNCHANGED <<phase, internal, table, holds, handles>>

-----------------------------------------------------------------------------

Init ==
  /\ context = "live"
  /\ phase = [o \in Objects |-> "none"]
  /\ external = [o \in Objects |-> 0] /\ internal = [o \in Objects |-> 0]
  /\ reftable = [s \in Slots |-> Null] /\ num_references = 0
  /\ holds = {}
  /\ handles = [t \in Threads |-> [o \in Objects |-> 0]]
  /\ todo = [t \in Threads |-> <<>>]

Call(t) ==
  /\ Ready(t)
  /\ \/ \E o \in Graphs \cup Images : Create(t, o)
     \/ \E o \in Objects, u \in Threads : RetainReference(t, u, o)
     \/ \E o \in Objects : ReleaseReference(t, o)
     \/ \E o \in Regions, p \in Images \cup Regions : CreateImageFromROI(t, o, p)
     \/ \E g \in Graphs, n \in Nodes : CreateGenericNode(t, g, n) \/ RemoveNode(t, g, n)
     \/ \E n \in Nodes, d \in Parameters : SetParameterByIndex(t, n, d)
     \/ \E h \in {p \in holds : p[1] \in Nodes \cup Arrays} : GetHeld(t, h[1], h[2])
     \/ \E a \in Arrays, i \in Items : CreateObjectArray(t, a, i)
     \/ ReleaseContext(t)

Step(t) ==
  \/ DecrementReference(t) \/ IncrementReference(t) \/ RemoveReference(t) \/ Free(t)
  \/ DestructNextNode(t) \/ UnlinkNode(t) \/ InitObjectArray(t) \/ InitObjectArrayFails(t)
  \/ CollectNext(t)

Next == \E t \in Threads : Call(t) \/ Step(t)

Spec == Init /\ [][Next]_vars

-----------------------------------------------------------------------------
(* Properties. *)

(* Where such things are on the lists of what is left to do.               *)
Pending(things) ==
  {l \in UNION {{t} \X DOMAIN todo[t] : t \in Threads} : todo[l[1]][l[2]] \in things}

(* The references the application has to an object.                        *)
Handed(o) == {l \in Threads \X (1 .. MaxHandles) : l[2] <= handles[l[1]][o]}

Things ==
  [do : {"decrement"}, ref : Objects, kind : Kinds]
  \cup [do : {"increment"}, ref : Parameters, by : Nodes]
  \cup [do : {"take out", "free"}, ref : Objects]
  \cup [do : {"graph"}, ref : Graphs] \cup [do : {"node"}, ref : Nodes]
  \cup [do : {"item"}, ref : Arrays, item : Items]
  \cup [do : {"collect"}, slot : Nat]

TypeOK ==
  /\ context \in {"live", "collecting", "gone"}
  /\ phase \in [Objects -> {"none", "live", "dying", "freed"}]
  /\ external \in [Objects -> Nat] /\ internal \in [Objects -> Nat]
  /\ reftable \in [Slots -> Objects \cup {Null}] /\ num_references \in 0 .. NumSlots
  /\ holds \subseteq Objects \X Objects
  /\ handles \in [Threads -> [Objects -> 0 .. MaxHandles]]
  /\ todo \in [Threads -> Seq(Things)]

(* The table has the objects that exist and were not removed, once each;   *)
(* the count is that of its entries, holes or not.                         *)
TableIsComplete ==
  /\ TypeOK
  /\ \A o \in Objects : Cardinality(Entry(o)) = (IF phase[o] = "live" THEN 1 ELSE 0)
  /\ num_references = Cardinality({s \in Slots : reftable[s] # Null})

(* While the context is in use the counts of an object are the references  *)
(* the threads have to it, those of other objects, and those about to be   *)
(* released; it is being removed, by one thread, exactly when both are     *)
(* zero.  No count is ever clamped.                                        *)
CountsMatchHolders ==
  context = "live" =>
    \A o \in Objects : phase[o] = "live" =>
      /\ external[o] = Cardinality(Handed(o)) + Cardinality(HoldersOf(o, "external"))
                         + Cardinality(Pending({Decrement(o, "external")}))
      /\ internal[o] + Cardinality(Pending({Increment(n, o) : n \in Nodes}))
           = Cardinality(HoldersOf(o, "internal")) + Cardinality(Pending({Decrement(o, "internal")}))
      /\ Cardinality(Pending({TakeOut(o)})) = IF external[o] + internal[o] = 0 THEN 1 ELSE 0

(* Nothing refers to an object that is destroyed: neither the application, *)
(* nor another object, nor a call that goes on.  Only while the context    *)
(* collects its objects, an object array may outlive its items: they are   *)
(* collected for their external reference, which is the array's.           *)
NothingDangles ==
  /\ \A t \in Threads, o \in Objects : handles[t][o] > 0 => phase[o] = "live"
  /\ \A h \in holds : phase[h[2]] # "live" => context = "collecting" /\ h[1] \in Arrays
  /\ \A t \in Threads : \A i \in DOMAIN todo[t] :
       todo[t][i].do \in {"decrement", "increment", "take out"} /\ phase[todo[t][i].ref] # "live"
         => context = "collecting" /\ todo[t][i].ref \in Items

(* vxReleaseContext: "By now, all external and internal references should  *)
(* be removed", and every object was freed.                                *)
CollectedAtTheEnd ==
  context = "gone" => /\ \A o \in Objects : phase[o] \in {"none", "freed"}
                      /\ num_references = 0
=============================================================================
