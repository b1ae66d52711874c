---------------------------- MODULE GraphLifecycle ----------------------------
(***************************************************************************)
(* The flags verified and reverify of a graph (vx_graph.c, vx_node.c)      *)
(* against what they stand for: parameters that passed the checks of       *)
(* vxVerifyGraph, and kernels that were initialised.                       *)
(*                                                                         *)
(* One thread builds, verifies and processes the graph.  Another writes    *)
(* data objects: ownWroteToReference looks the graph up in the context's   *)
(* table of references and clears its flags without the graph's lock.      *)
(* Each node has one parameter, an input: ownContaminateGraphs skips       *)
(* outputs.                                                                *)
(*                                                                         *)
(* The histories record events after which the code no longer promises     *)
(* what its flags say; the properties say that there are no others.        *)
(***************************************************************************)
EXTENDS Integers, FiniteSets, FiniteSetsExt, SequencesExt

CONSTANTS
  Nodes,        (* bound: nodes the application creates                    *)
  UserNodes,    (* those of user kernels; the others have built-in kernels *)
  Data,         (* data objects, parameters of the nodes                   *)
  Held,         (* those the application keeps a reference to              *)
  Others,       (* bound: other objects the application creates            *)
  Graph,        (* the graph, as an entry of the table                     *)
  Null          (* an empty entry of the table                             *)

Objects == Nodes \cup Data \cup Others \cup {Graph}
Slots == 1 .. Cardinality(Objects)

ASSUME UserNodesAssumption == UserNodes \subseteq Nodes
ASSUME DataAssumption == Data # {} /\ Held \subseteq Data
ASSUME ObjectsAssumption ==
  /\ IsFiniteSet(Objects) /\ Null \notin Objects /\ Graph \notin Nodes \cup Data \cup Others
  /\ Nodes \cap Data = {} /\ Nodes \cap Others = {} /\ Data \cap Others = {}

VARIABLES
  reftable,           (* context->reftable                                 *)
  nodes,              (* graph->nodes                                      *)
  parameter,          (* node->parameters[0]                               *)
  verified, reverify, (* flags of the graph                                *)
  extracted,          (* data objects with the flag extracted              *)
  good,               (* data objects whose contents pass the checks       *)
  live,               (* initialisations of a node's kernel that no        *)
                      (* deinitialisation followed, 2 for more than one    *)
  pc,                 (* where the application is in vxVerifyGraph and     *)
                      (* vxExecuteGraph                                    *)
  process,            (* vxExecuteGraph made this call of vxVerifyGraph    *)
  first,              (* first_time_verify                                 *)
  writer, written,    (* where the other thread is, and what it writes     *)
  fresh,              (* history: nodes no verification has initialised    *)
  trusted,            (* history: nothing but a verification, at its end,  *)
                      (* has set verified since the last one               *)
  unchecked,          (* history: an event after which a graph may run     *)
                      (* with parameters the checks would refuse           *)
  forgotten           (* history: reverify was lost, with kernels          *)
                      (* initialised                                       *)

flags == <<verified, reverify>>
contents == <<nodes, parameter, live, fresh>>
call == <<pc, process, first>>
other == <<writer, written>>
vars == <<reftable, nodes, parameter, verified, reverify, extracted, good, live,
          pc, process, first, writer, written, fresh, trusted, unchecked, forgotten>>


-----------------------------------------------------------------------------
(* The table of references. *)

InTable(o) == \E s \in Slots : reftable[s] = o

NumReferences == Cardinality({s \in Slots : reftable[s] # Null})

(* ownAddReference: the first empty entry. *)
AddReference(o) ==
  reftable' = [reftable EXCEPT ![Min({s \in Slots : reftable[s] = Null})] = o]

(* ownRemoveReference leaves a hole. *)
RemoveReference(o) == reftable' = [s \in Slots |-> IF reftable[s] = o THEN Null ELSE reftable[s]]

(* ownContaminateGraphs scans as many entries as the table has references. *)
Scanned == {reftable[s] : s \in 1 .. NumReferences}

-----------------------------------------------------------------------------
(* The graph is modified: graph->reverify = graph->verified and            *)
(* graph->verified = false, in this order.                                 *)

Reverify_Always == TRUE   (* deviation: also of a graph that was not verified *)
Reverify == verified

(* vxVerifyGraph is under way: it has read reverify, and will reset it. *)
Verifying == pc \in {"deinitialize", "check", "initialize"}

(* A graph whose verified flag an earlier modification has cleared.        *)
ModifiedAgain == reverify /\ ~verified /\ ~Verifying

Modified_Verified == verified   (* deviation: a modified graph stays verified *)
Modified == FALSE

ForceVerify ==
  /\ reverify' = Reverify
  /\ verified' = Modified
  /\ forgotten' = (forgotten \/ ModifiedAgain)

Idle == pc = "idle" /\ InTable(Graph)

CreateOther(o) ==
  /\ pc = "idle" /\ ~InTable(o)
  /\ AddReference(o)
  /\ UNCHANGED <<flags, contents, extracted, good, call, other, trusted, unchecked, forgotten>>

ReleaseOther(o) ==
  /\ pc = "idle" /\ InTable(o)
  /\ RemoveReference(o)
  /\ UNCHANGED <<flags, contents, extracted, good, call, other, trusted, unchecked, forgotten>>

(* vxCreateGraph. *)
CreateGraph ==
  /\ pc = "idle" /\ ~InTable(Graph)
  /\ AddReference(Graph)
  /\ UNCHANGED <<flags, contents, extracted, good, call, other, trusted, unchecked, forgotten>>

(* vxCreateGenericNode, then vxSetParameterByIndex. *)
CreateGenericNode(n, d) ==
  /\ Idle /\ n \notin nodes
  /\ AddReference(n)
  /\ nodes' = nodes \cup {n}
  /\ parameter' = [parameter EXCEPT ![n] = d]
  /\ fresh' = fresh \cup {n}
  /\ ForceVerify
  /\ UNCHANGED <<extracted, good, live, call, other, trusted, unchecked>>

(* vxRemoveNode, of a node whose last references are the graph's and the   *)
(* application's: ownDestructNode calls the deinitializer, initialised or  *)
(* not.                                                                    *)
RemoveNode(n) ==
  /\ Idle /\ n \in nodes
  /\ RemoveReference(n)
  /\ nodes' = nodes \ {n}
  /\ fresh' = fresh \ {n}
  /\ parameter' = [parameter EXCEPT ![n] = Null]
  /\ live' = [live EXCEPT ![n] = 0]
  /\ ForceVerify
  /\ UNCHANGED <<extracted, good, call, other, trusted, unchecked>>

(* vxSetNodeTarget, with the same kernel on another target. *)
SetNodeTarget(n) ==
  /\ Idle /\ n \in nodes
  /\ ForceVerify
  /\ UNCHANGED <<reftable, contents, extracted, good, call, other, trusted, unchecked>>

(* vxSetParameterByIndex leaves the flags alone. *)
SetParameterByIndex(n, d) ==
  /\ Idle /\ n \in nodes /\ parameter[n] # d
  /\ parameter' = [parameter EXCEPT ![n] = d]
  /\ unchecked' = TRUE
  /\ UNCHANGED <<reftable, nodes, live, fresh, flags, extracted, good, call, other, trusted,
                 forgotten>>

(* vxSetGraphParameterByIndex marks the graph verified, whatever it was.   *)
SetGraphParameterByIndex(n, d) ==
  /\ Idle /\ n \in nodes
  /\ parameter' = [parameter EXCEPT ![n] = d]
  /\ reverify' = FALSE
  /\ verified' = TRUE
  /\ trusted' = (trusted /\ verified)
  /\ unchecked' = TRUE
  /\ UNCHANGED <<reftable, nodes, live, fresh, extracted, good, call, other, forgotten>>

(* vxQueryParameter of VX_PARAMETER_REF, of an object the application has  *)
(* no reference to.                                                        *)
Extract(n) ==
  /\ Idle /\ n \in nodes /\ parameter[n] \notin extracted \cup Held
  /\ extracted' = extracted \cup {parameter[n]}
  /\ UNCHANGED <<reftable, flags, contents, good, call, other, trusted, unchecked, forgotten>>

(* ownDecrementReference, of its last external reference. *)
ReleaseExtracted(d) ==
  /\ pc = "idle" /\ d \in extracted /\ written # d
  /\ extracted' = extracted \ {d}
  /\ UNCHANGED <<reftable, flags, contents, good, call, other, trusted, unchecked, forgotten>>

-----------------------------------------------------------------------------
(* vxVerifyGraph.  The other thread never takes the graph's lock, so the   *)
(* lock needs no step of its own.  The other thread writes reverify only   *)
(* as a copy of verified, which is FALSE from the first step to the last,  *)
(* so the steps may read and write both flags at once.                     *)

VerifyGraph(fromProcess) ==
  /\ Idle
  /\ fromProcess => ~verified
  /\ first' = (~verified /\ ~reverify)
  /\ verified' = FALSE
  /\ process' = fromProcess
  /\ pc' = "deinitialize"
  /\ unchecked' = (writer # "idle")
  /\ UNCHANGED <<reftable, reverify, contents, extracted, good, other, trusted, forgotten>>

Deinit(set) == [n \in Nodes |-> IF n \in set /\ live[n] > 0 THEN live[n] - 1 ELSE live[n]]

(* Only user kernels, and only when the graph was verified before. *)
ToDeinitialize_None == {}                    (* deviation: kernels stay initialised *)
ToDeinitialize == IF first THEN {} ELSE nodes \cap UserNodes

Deinitialize ==
  /\ pc = "deinitialize"
  /\ live' = Deinit(ToDeinitialize)
  /\ pc' = "check"
  /\ UNCHANGED <<reftable, nodes, parameter, fresh, flags, extracted, good, process, first,
                 other, trusted, unchecked, forgotten>>

Exit(success, wasChecked) ==
  /\ reverify' = FALSE
  /\ verified' = success
  /\ trusted' = wasChecked
  /\ pc' = IF success /\ process THEN "running" ELSE "idle"
  /\ process' = FALSE
  /\ first' = FALSE

(* A deinitializer fails, after those of the nodes in before: its status   *)
(* is kept in an inner variable, and the outer one still is VX_SUCCESS.    *)
DeinitializeFails(n, before) ==
  /\ pc = "deinitialize"
  /\ n \in ToDeinitialize \ before /\ before \subseteq ToDeinitialize
  /\ live' = Deinit(before)
  /\ Exit(TRUE, FALSE)
  /\ unchecked' = TRUE
  /\ UNCHANGED <<reftable, nodes, parameter, fresh, extracted, good, other,
                 forgotten>>

(* The parameters are checked, one after the other; what a validator says  *)
(* of an object depends on its contents.                                   *)
ChecksPass == \A n \in nodes : parameter[n] \in good

Check ==
  /\ pc = "check" /\ ChecksPass
  /\ pc' = "initialize"
  /\ UNCHANGED <<reftable, contents, flags, extracted, good, process, first, other, trusted,
                 unchecked, forgotten>>

CheckFails ==
  /\ pc = "check" /\ ~ChecksPass
  /\ Exit(FALSE, TRUE)
  /\ UNCHANGED <<reftable, contents, extracted, good, other, unchecked,
                 forgotten>>

Init1(set) == [n \in Nodes |-> IF n \in set /\ live[n] < 2 THEN live[n] + 1 ELSE live[n]]

(* The initialize phase, and the exit. *)
Initialize ==
  /\ pc = "initialize"
  /\ live' = Init1(nodes)
  /\ fresh' = {}
  /\ Exit(TRUE, TRUE)
  /\ UNCHANGED <<reftable, nodes, parameter, extracted, good, other, unchecked,
                 forgotten>>

(* An initializer fails, after those of the nodes in before: they are not  *)
(* deinitialised, and the next verification is a first one.                *)
InitializeFails(n, before) ==
  /\ pc = "initialize"
  /\ n \in nodes \ before /\ before \subseteq nodes
  /\ live' = Init1(before)
  /\ fresh' = fresh \ before
  /\ Exit(FALSE, TRUE)
  /\ forgotten' = (forgotten \/ before \cap UserNodes # {})
  /\ UNCHANGED <<reftable, nodes, parameter, extracted, good, other, unchecked>>

-----------------------------------------------------------------------------
(* vxExecuteGraph: a graph that is verified is run as it is. *)

ProcessGraph ==
  /\ Idle /\ verified
  /\ pc' = "running"
  /\ unchecked' = (unchecked \/ writer # "idle")
  /\ UNCHANGED <<reftable, contents, flags, extracted, good, process, first, other, trusted,
                 forgotten>>

Complete ==
  /\ pc = "running"
  /\ pc' = "idle"
  /\ UNCHANGED <<reftable, contents, flags, extracted, good, process, first, other, trusted,
                 unchecked, forgotten>>

-----------------------------------------------------------------------------
(* The other thread. *)

(* The contents change, and with them what the checks say of the object.   *)
Write(d) ==
  /\ writer = "idle" /\ d \in Held \cup extracted
  /\ good' = IF d \in good THEN good \ {d} ELSE good \cup {d}
  /\ writer' = "written"
  /\ written' = d
  /\ unchecked' = (unchecked \/ pc # "idle")
  /\ UNCHANGED <<reftable, contents, flags, extracted, call, trusted, forgotten>>

Contaminates ==
  /\ written \in extracted
  /\ Graph \in Scanned
  /\ \E n \in nodes : parameter[n] = written

(* ownWroteToReference, of an object that was not extracted, that is no    *)
(* parameter, or of a graph behind the holes of the table.                 *)
WroteToReference ==
  /\ writer = "written" /\ ~Contaminates
  /\ writer' = "idle"
  /\ written' = Null
  /\ unchecked' = (unchecked \/ written \notin extracted \/ Graph \notin Scanned)
  /\ UNCHANGED <<reftable, contents, flags, extracted, good, call, trusted, forgotten>>

(* ownContaminateGraphs: graph->reverify = graph->verified ...             *)
ContaminateGraphs ==
  /\ writer = "written" /\ Contaminates
  /\ reverify' = Reverify
  /\ writer' = "found"
  /\ forgotten' = (forgotten \/ ModifiedAgain)
  /\ UNCHANGED <<reftable, contents, verified, extracted, good, call, written, trusted,
                 unchecked>>

(* ... then graph->verified = false, of a graph that may have been         *)
(* verified again in between.                                              *)
ClearVerified ==
  /\ writer = "found"
  /\ verified' = Modified
  /\ writer' = "idle"
  /\ written' = Null
  /\ forgotten' = (forgotten \/ (verified /\ ~reverify))
  /\ UNCHANGED <<reftable, contents, reverify, extracted, good, call, trusted, unchecked>>

-----------------------------------------------------------------------------

(* The data objects were created first.  A graph's memory is zeroed.       *)
Init ==
  /\ reftable = [s \in Slots |-> IF s \in DOMAIN SetToSeq(Data) THEN SetToSeq(Data)[s] ELSE Null]
  /\ nodes = {} /\ parameter = [n \in Nodes |-> Null]
  /\ verified = FALSE /\ reverify = FALSE
  /\ extracted = {} /\ good = Data /\ live = [n \in Nodes |-> 0]
  /\ pc = "idle" /\ process = FALSE /\ first = FALSE
  /\ writer = "idle" /\ written = Null
  /\ fresh = {} /\ trusted = TRUE /\ unchecked = FALSE /\ forgotten = FALSE

Build ==
  \/ CreateGraph
  \/ \E o \in Others : CreateOther(o) \/ ReleaseOther(o)
  \/ \E d \in Data : ReleaseExtracted(d)
  \/ \E n \in Nodes, d \in Data :
       \/ CreateGenericNode(n, d)
       \/ SetParameterByIndex(n, d)
       \/ SetGraphParameterByIndex(n, d)
  \/ \E n \in Nodes : RemoveNode(n) \/ SetNodeTarget(n) \/ Extract(n)

Verify ==
  \/ \E fromProcess \in BOOLEAN : VerifyGraph(fromProcess)
  \/ Deinitialize \/ Check \/ CheckFails \/ Initialize
  \/ \E n \in nodes, before \in SUBSET nodes :
       DeinitializeFails(n, before) \/ InitializeFails(n, before)

Process == ProcessGraph \/ Complete

OtherThread ==
  \/ \E d \in Data : Write(d)
  \/ WroteToReference \/ ContaminateGraphs \/ ClearVerified

Next == Build \/ Verify \/ Process \/ OtherThread

Spec == Init /\ [][Next]_vars

-----------------------------------------------------------------------------
(* Properties. *)

TypeOK ==
  /\ reftable \in [Slots -> Objects \cup {Null}]
  /\ nodes \subseteq Nodes /\ fresh \subseteq nodes
  /\ parameter \in [Nodes -> Data \cup {Null}] /\ \A n \in nodes : parameter[n] \in Data
  /\ verified \in BOOLEAN /\ reverify \in BOOLEAN /\ process \in BOOLEAN /\ first \in BOOLEAN
  /\ trusted \in BOOLEAN /\ unchecked \in BOOLEAN /\ forgotten \in BOOLEAN
  /\ extracted \subseteq Data /\ good \subseteq Data
  /\ live \in [Nodes -> 0 .. 2]
  /\ pc \in {"idle", "deinitialize", "check", "initialize", "running"}
  /\ writer \in {"idle", "written", "found"} /\ written \in Data \cup {Null}

(* The kernels of a graph that is run, or marked verified, are             *)
(* initialised: vxExecuteGraph asks only graph->verified.                  *)
VerifiedIsInitialised ==
  verified \/ pc = "running" => \A n \in nodes : live[n] > 0

(* A verification that is not the first one deinitialises only kernels     *)
(* that are initialised, or were never verified: nodes that were created   *)
(* in between.                                                             *)
ReverifyIsInitialised ==
  (reverify /\ ~Verifying) \/ (pc = "deinitialize" /\ ~first) =>
    \A n \in (nodes \cap UserNodes) \ fresh : live[n] > 0

(* What the checks said still holds while the graph runs or is verified;   *)
(* a write under way is not reported yet, and only about the object that   *)
(* is written.                                                             *)
ChecksLast ==
  ~unchecked =>
    /\ pc # "idle" => writer = "idle"
    /\ pc \in {"initialize", "running"} => ChecksPass
    /\ pc = "idle" /\ verified =>
         /\ writer = "idle" => ChecksPass
         /\ writer = "written" => \A n \in nodes : parameter[n] # written => parameter[n] \in good

(* Kernels are initialised at most once, and not at all when the flags say *)
(* that the next verification is the first one.                            *)
InitialisedByFlags ==
  ~forgotten =>
    \A n \in UserNodes :
      /\ live[n] < 2
      /\ (IF Verifying THEN pc # "deinitialize" \/ first ELSE ~verified /\ ~reverify) => live[n] = 0

(* Inductive, and the other two properties follow from it.  What is        *)
(* trusted is lost only when vxSetGraphParameterByIndex marks a graph      *)
(* verified that was not, or a deinitializer fails, and until the next     *)
(* verification ends.                                                      *)
LifecycleInv ==
  /\ TypeOK
  /\ Verifying => ~verified
  /\ \A n \in Nodes \ nodes : live[n] = 0
  /\ trusted => VerifiedIsInitialised /\ ReverifyIsInitialised
  /\ ChecksLast
  /\ InitialisedByFlags

(* A graph is run with parameters that fail the checks of vxVerifyGraph    *)
(* only if, since the verification began, a parameter was set, an object   *)
(* was written that ownWroteToReference does not report or that            *)
(* ownContaminateGraphs does not find for the holes of the table, a write  *)
(* overlapped a call, or verified was set without the checks.              *)
RunsChecked == pc = "running" /\ ~unchecked => ChecksPass

(* The initializer of a user kernel is called again without the            *)
(* deinitializer only after reverify was lost: a graph was modified twice  *)
(* between two verifications, an initializer failed, or a write that       *)
(* contaminates the graph overlapped a verification.                       *)
InitializedOnce == ~forgotten => \A n \in UserNodes : live[n] < 2
=============================================================================
