----------------------------- MODULE GraphExecute -----------------------------
(***************************************************************************)
(* One graph of vx_graph.c: the application builds it (vxCreateGenericNode *)
(* with vxSetParameterByIndex, vxRemoveNode), verifies it (vxVerifyGraph)  *)
(* and executes it (vxProcessGraph, vxExecuteGraph, vxWorkerNode).         *)
(*                                                                         *)
(* A node is the sequence of its parameters; a node is referred to by its  *)
(* index in graph->nodes, which vxVerifyGraph sorts.  The lists of indices *)
(* of vxExecuteGraph are bags (how often a node is listed): no property    *)
(* depends on the order of a list, only on what it repeats.                *)
(***************************************************************************)
EXTENDS Integers, Sequences, FiniteSets, SequencesExt

CONSTANTS
  Refs,         (* data objects                                            *)
  NoRef,        (* a parameter that is not set                             *)
  Overlaps,     (* pairs of objects that share memory: an image and a      *)
                (* region of it, a pyramid and a level of it               *)
  Catalog,      (* bound: the nodes the application makes                  *)
  MaxNodes,     (* bound: nodes in the graph                               *)
  Smp,          (* built with OPENVX_USE_SMP                               *)
  Rebinds,      (* parameters of a verified graph are set too              *)
  DeinitFails   (* the deinitializer of a user kernel may fail             *)

Dirs == {"in", "out", "bi"}
Params == [dir : Dirs, ref : Refs \cup {NoRef}, optional : BOOLEAN]
Modes == IF Smp THEN {"serial", "smp"} ELSE {"serial"}
Environments == [deinit : IF DeinitFails THEN BOOLEAN ELSE {TRUE}, checks : BOOLEAN]

ASSUME RefsAssumption == NoRef \notin Refs
ASSUME OverlapsAssumption ==
  /\ Overlaps \subseteq Refs \X Refs
  /\ \A r, s \in Refs : <<r, s>> \in Overlaps => <<s, r>> \in Overlaps
ASSUME CatalogAssumption == Catalog \subseteq Seq(Params) \ {<<>>}
ASSUME FlagsAssumption == {Smp, Rebinds, DeinitFails} \subseteq BOOLEAN
ASSUME MaxNodesAssumption == MaxNodes \in Nat
(* A listed node that was executed already leaves its work item of the     *)
(* thread pool as it was, whatever it was: only serial execution of graphs *)
(* with such nodes is modelled.                                            *)
ASSUME RebindsAssumption == Rebinds => ~Smp

VARIABLES
  nodes,              (* graph->nodes                                      *)
  verified, reverify, (* flags of the graph                                *)
  state,              (* graph->state                                      *)
  heads,              (* graph->heads                                      *)
  pc, mode,           (* where vxExecuteGraph is, and how it runs nodes    *)
  next,               (* next_nodes, the batch that is executed            *)
  todo,               (* the part of the batch no one has taken yet        *)
  running,            (* the part that is being executed                   *)
  left,               (* left_nodes                                        *)
  visited, executed,  (* flags of the nodes, read only while the graph is  *)
                      (* processed, which first clears them                *)
  action,             (* the action the batch returned                     *)
  runs                (* history: executions of each node in this call     *)

graphVars == <<nodes, verified, reverify, state, heads>>
runVars == <<pc, mode, next, todo, running, left, visited, executed, action, runs>>
vars == <<nodes, verified, reverify, state, heads, pc, mode, next, todo, running,
          left, visited, executed, action, runs>>

-----------------------------------------------------------------------------
(* What a list of nodes says of its data. *)

(* vxCheckWriteDependency: the same memory, or a part of it. *)
Touches(r, s) == NoRef \notin {r, s} /\ (r = s \/ <<r, s>> \in Overlaps)

(* ownFindNodesWithReference, for a direction in dirs. *)
NodesWith(list, r, dirs) ==
  {m \in DOMAIN list : \E q \in DOMAIN list[m] :
                         list[m][q].dir \in dirs /\ Touches(list[m][q].ref, r)}

Reads(list, n) == {list[n][p].ref : p \in {q \in DOMAIN list[n] : list[n][q].dir = "in"}}
Writes(list, n) == {list[n][p].ref : p \in {q \in DOMAIN list[n] : list[n][q].dir # "in"}}

Children(list, n) == UNION {NodesWith(list, r, {"in"}) : r \in Writes(list, n)}
Producers(list, n) == UNION {NodesWith(list, r, {"out", "bi"}) : r \in Reads(list, n)}

Missing(list) == \E n \in DOMAIN list : \E p \in DOMAIN list[n] :
                   list[n][p].ref = NoRef /\ ~list[n][p].optional

(* The parameters of the other node n1 are scanned up to the number of     *)
(* parameters of n.                                                        *)
MultipleWriters(list) ==
  \E n \in DOMAIN list : \E n1 \in DOMAIN list \ {n} :
    \E r \in Writes(list, n) : \E p1 \in DOMAIN list[n] \cap DOMAIN list[n1] :
      list[n1][p1].dir # "in" /\ Touches(r, list[n1][p1].ref)

Heads(list) == {n \in DOMAIN list : Producers(list, n) \subseteq {n}}

(* ownTraverseGraph from n, at most k levels deep, fails: it meets a node  *)
(* that feeds itself, or it is too deep.                                   *)
WalkFails(list) ==
  LET fails[k \in 0 .. Len(list) + 1] ==
        IF k = 0 THEN DOMAIN list
        ELSE {n \in DOMAIN list : \E m \in Children(list, n) : m \in fails[k - 1] \cup {n}}
  IN fails[Len(list) + 1]

(* The nodes ownTraverseGraph marks visited when it starts at the heads. *)
Reached(list) ==
  LET reached[k \in 0 .. Len(list)] ==
        IF k = 0 THEN Heads(list)
        ELSE reached[k - 1] \cup UNION {Children(list, n) : n \in reached[k - 1]}
  IN reached[Len(list)]

Unvisited_Ignored(list) == FALSE  (* deviation: disconnected cycles pass *)
Unvisited(list) == Reached(list) # DOMAIN list

-----------------------------------------------------------------------------
(* vxTopologicalSort, algorithm T of TAoCP 2.2.3.  It compares references, *)
(* so an image and a region of it are unrelated here.  A place is a pair   *)
(* <<n, p>>, the parameter p of node n.  The objects are sorted: a node n  *)
(* is <<0, n>>, and a reference is the place where it is met first, so     *)
(* that objects and relations have the order of their numbers in the code. *)

Earlier(l, m) == l[1] < m[1] \/ (l[1] = m[1] /\ l[2] < m[2])

(* A finite set of pairs in this order. *)
InOrder(S) ==
  [i \in 1 .. Cardinality(S) |->
     CHOOSE l \in S : Cardinality({m \in S : Earlier(m, l)}) = i - 1]

Places(list) ==
  {l \in UNION {{n} \X DOMAIN list[n] : n \in DOMAIN list} : list[l[1]][l[2]].ref # NoRef}

Node(n) == <<0, n>>
Data(list, r) ==
  CHOOSE l \in Places(list) :
    /\ list[l[1]][l[2]].ref = r
    /\ \A m \in Places(list) : list[m[1]][m[2]].ref = r => ~Earlier(m, l)

Relation_Forward(list, n, p) ==   (* deviation: inputs are sorted as outputs *)
  [at |-> <<n, p>>, before |-> Node(n), after |-> Data(list, list[n][p].ref)]

Relation(list, n, p) ==
  LET r == Data(list, list[n][p].ref) IN
  IF list[n][p].dir = "in" THEN [at |-> <<n, p>>, before |-> r, after |-> Node(n)]
                           ELSE [at |-> <<n, p>>, before |-> Node(n), after |-> r]

Relations(list) == {Relation(list, l[1], l[2]) : l \in Places(list)}

Objects(list) ==
  {Node(n) : n \in DOMAIN list} \cup {Data(list, list[l[1]][l[2]].ref) : l \in Places(list)}

Before(relations, o) == {l.before : l \in {m \in relations : m.after = o}}

(* T5 to T7: output the front of the queue, then queue the successors      *)
(* that have no predecessor left, the one related last first: a successor  *)
(* has none left when its first relation to the front is taken away.       *)
Output(relations, x) ==
  IF x.queue = <<>> THEN x
  ELSE LET out == Append(x.out, Head(x.queue))
           freed == {l \in relations : /\ l.before = Head(x.queue)
                                       /\ Before(relations, l.after) \subseteq Range(out)}
           first == {l \in freed : \A m \in freed : m.after = l.after => ~Earlier(m.at, l.at)}
           order == Reverse(InOrder({l.at : l \in first}))
           successor(i) == (CHOOSE l \in first : l.at = order[i]).after
       IN [out |-> out, queue |-> Tail(x.queue) \o [i \in DOMAIN order |-> successor(i)]]

(* The output after each turn, until all objects are output or the queue   *)
(* is empty. *)
Outputs(list) ==
  LET relations == Relations(list)
      objects == Objects(list)
      free == {o \in objects : Before(relations, o) = {}}
      output[k \in 0 .. Cardinality(objects)] ==
        IF k = 0 THEN [out |-> <<>>, queue |-> InOrder(free)]
                 ELSE Output(relations, output[k - 1])
  IN output[Cardinality(objects)].out

(* T8: after a cycle the list is as it was. *)
TopologicalSort(list) ==
  LET out == Outputs(list)
      sorted == InOrder({<<k, out[k][2]>> : k \in {j \in DOMAIN out : out[j][1] = 0}})
  IN IF Len(out) = Cardinality(Objects(list)) THEN [i \in DOMAIN list |-> list[sorted[i][2]]]
                                              ELSE list

-----------------------------------------------------------------------------
(* Building the graph *)

Init ==
  /\ nodes = <<>> /\ heads = {}
  /\ verified = FALSE /\ reverify = FALSE /\ state = "UNVERIFIED"
  /\ pc = "idle" /\ mode = "serial"
  /\ next = <<>> /\ todo = <<>> /\ running = <<>> /\ runs = <<>>
  /\ left = {} /\ visited = {} /\ executed = {}
  /\ action = "CONTINUE"

(* The graph has changed: it is to be verified again. *)
Unverify ==
  /\ reverify' = verified
  /\ verified' = FALSE
  /\ state' = "UNVERIFIED"

CreateNode(params) ==
  /\ pc = "idle"
  /\ Len(nodes) < MaxNodes
  /\ nodes' = Append(nodes, params)
  /\ Unverify
  /\ UNCHANGED <<heads, runVars>>

(* ownRemoveNodeInt: the last node takes the place of the removed one. *)
Without(list, i) == Front([list EXCEPT ![i] = Last(list)])

RemoveNode(i) ==
  /\ pc = "idle"
  /\ i \in DOMAIN nodes
  /\ nodes' = Without(nodes, i)
  /\ Unverify
  /\ UNCHANGED <<heads, runVars>>

(* vxSetParameterByIndex changes the node only: the graph stays verified.  *)
(* Unless Rebinds, applications do so before they verify the graph.        *)
SetParameterByIndex(i, p, r) ==
  /\ pc = "idle"
  /\ i \in DOMAIN nodes /\ p \in DOMAIN nodes[i]
  /\ verified => Rebinds
  /\ nodes' = [nodes EXCEPT ![i][p].ref = r]
  /\ nodes'[i] \in Catalog
  /\ UNCHANGED <<verified, reverify, state, heads, runVars>>

-----------------------------------------------------------------------------
(* vxVerifyGraph.  A kernel that cannot be deinitialized, before it is     *)
(* verified again, ends it with the status it had so far, success: the     *)
(* status of the deinitializer is a variable of an inner block.  checks    *)
(* stands for what the kernels and targets say of their nodes.  The heads  *)
(* of a graph that failed are not kept: they are determined again before   *)
(* they are used.                                                          *)

Runnable(list) ==
  /\ ~Missing(list) /\ ~MultipleWriters(list)
  /\ Heads(list) # {} /\ Heads(list) \cap WalkFails(list) = {}
  /\ ~Unvisited(list)

Verification(list, env) ==
  LET unwound == {verified, reverify} = {FALSE} \/ env.deinit \/ list = <<>>
      runnable == env.checks /\ Runnable(list)
  IN IF ~unwound THEN [nodes |-> list, heads |-> heads, verified |-> TRUE]
     ELSE [nodes |-> list, heads |-> IF runnable THEN Heads(list) ELSE {},
           verified |-> runnable]

Verifications ==
  {Verification(list, env) : list \in {TopologicalSort(nodes)}, env \in Environments}

VerifyGraph ==
  /\ pc = "idle"
  /\ \E v \in Verifications :
       /\ nodes' = v.nodes /\ heads' = v.heads /\ verified' = v.verified
       /\ state' = IF v.verified THEN "VERIFIED" ELSE "UNVERIFIED"
  /\ reverify' = FALSE
  /\ UNCHANGED runVars

-----------------------------------------------------------------------------
(* vxProcessGraph *)

Nodes == DOMAIN nodes
Listed(bag) == {n \in DOMAIN bag : bag[n] > 0}
Once(list, S) == [n \in DOMAIN list |-> IF n \in S THEN 1 ELSE 0]
Take(bag, n) == [bag EXCEPT ![n] = @ - 1]
Put(bag, n) == [bag EXCEPT ![n] = @ + 1]

(* A graph that is not verified is verified first. *)
ProcessGraph(m) ==
  /\ pc = "idle"
  /\ \E v \in IF verified THEN {[nodes |-> nodes, heads |-> heads, verified |-> TRUE]}
                          ELSE Verifications :
       LET none == Once(v.nodes, {})
           first == Once(v.nodes, v.heads)
       IN /\ nodes' = v.nodes /\ heads' = v.heads /\ verified' = v.verified
          /\ state' = IF v.verified THEN "RUNNING" ELSE "UNVERIFIED"
          /\ IF v.verified
             THEN /\ pc' = "batch" /\ mode' = m
                  /\ next' = first /\ todo' = first /\ running' = none /\ runs' = none
                  /\ UNCHANGED <<left, visited, executed, action>>
             ELSE UNCHANGED runVars
  /\ reverify' = (verified /\ reverify)

(* A thread takes a node of the batch: this thread, or the worker threads  *)
(* that all share it.                                                      *)
StartNode(n) ==
  /\ pc = "batch"
  /\ n \in Listed(todo)
  /\ mode = "serial" => action = "CONTINUE" /\ Listed(running) = {} /\ n \notin executed
  /\ todo' = Take(todo, n)
  /\ running' = Put(running, n)
  /\ runs' = Put(runs, n)
  /\ UNCHANGED <<graphVars, pc, mode, next, left, visited, executed, action>>

(* vxTargetProcess returns; a serial batch is given up at the first node   *)
(* that asks for it, the worker threads finish theirs.                     *)
FinishNode(n, a) ==
  /\ pc = "batch"
  /\ n \in Listed(running)
  /\ running' = Take(running, n)
  /\ executed' = executed \cup {n}
  /\ action' = IF a = "ABANDON" THEN a ELSE action
  /\ UNCHANGED <<graphVars, pc, mode, next, todo, left, visited, runs>>

(* A serial batch ends early at a node that asks for it or that has been   *)
(* executed already ("Multiple executions attempted!").                    *)
BatchOver ==
  /\ Listed(running) = {}
  /\ \/ Listed(todo) = {}
     \/ mode = "serial" /\ (action = "ABANDON" \/ Listed(todo) \cap executed # {})

-----------------------------------------------------------------------------
(* ownFindNextNodes *)

(* The nodes that read what a node of the batch has written, and those     *)
(* that were not ready before; how often the list repeats them.            *)
Possible == left \cup UNION {Children(nodes, n) : n \in Listed(next)}
Mentions(m) ==
  LET links == {l \in Listed(next) \X (1 .. Len(nodes[m])) :
                  /\ nodes[m][l[2]].dir = "in"
                  /\ \E r \in Writes(nodes, l[1]) : Touches(r, nodes[m][l[2]].ref)}
  IN IF links = {} THEN 1 ELSE Cardinality(links)

(* Deviations: writers of bidirectional parameters, or of all inputs but   *)
(* the first, are not waited for.                                          *)
Ready_OutputsOnly(n) ==
  UNION {NodesWith(nodes, r, {"out"}) : r \in Reads(nodes, n)} \subseteq executed
Ready_FirstInput(n) ==
  \A p \in DOMAIN nodes[n] :
    nodes[n][p].dir = "in" /\ (\A q \in 1 .. p - 1 : nodes[n][q].dir # "in")
      => NodesWith(nodes, nodes[n][p].ref, {"out", "bi"}) \subseteq executed

Ready(n) == Producers(nodes, n) \subseteq executed

(* Deviations: a node is scheduled as often as it is mentioned; the list   *)
(* of next nodes is not emptied first.                                     *)
FindNext_Repeats ==
  [n \in Nodes |-> IF n \in Possible /\ Ready(n) /\ n \notin visited THEN Mentions(n) ELSE 0]
FindNext_Keeps ==
  Once(nodes, Listed(next) \cup {n \in Possible : Ready(n) /\ n \notin visited})

FindNext == Once(nodes, {n \in Possible : Ready(n) /\ n \notin visited})

Decide ==
  /\ pc = "batch" /\ BatchOver
  /\ IF action = "ABANDON"
     THEN pc' = "end" /\ UNCHANGED <<next, todo, left, visited>>
     ELSE /\ next' = FindNext
          /\ todo' = FindNext
          /\ left' = {n \in Possible : ~Ready(n)}
          /\ visited' = visited \cup Listed(FindNext)
          /\ pc' = IF Listed(FindNext) = {} THEN "end" ELSE "batch"
  /\ UNCHANGED <<graphVars, mode, running, executed, action, runs>>

End ==
  /\ pc = "end"
  /\ state' = IF action = "ABANDON" THEN "ABANDONED" ELSE "COMPLETED"
  /\ pc' = "idle" /\ mode' = "serial"
  /\ next' = <<>> /\ todo' = <<>> /\ running' = <<>> /\ runs' = <<>>
  /\ left' = {} /\ visited' = {} /\ executed' = {}
  /\ action' = "CONTINUE"
  /\ UNCHANGED <<nodes, verified, reverify, heads>>

-----------------------------------------------------------------------------
Next ==
  \/ \E params \in Catalog : CreateNode(params)
  \/ \E i \in Nodes : RemoveNode(i)
  \/ \E i \in Nodes : \E p \in DOMAIN nodes[i], r \in Refs : SetParameterByIndex(i, p, r)
  \/ VerifyGraph
  \/ \E m \in Modes : ProcessGraph(m)
  \/ \E n \in Nodes : StartNode(n)
  \/ \E n \in Nodes, a \in {"CONTINUE", "ABANDON"} : FinishNode(n, a)
  \/ Decide
  \/ End

Spec == Init /\ [][Next]_vars

(* The threads that execute a graph keep running; kernels return. *)
FairSpec ==
  /\ Spec
  /\ WF_vars(\E n \in Nodes : StartNode(n))
  /\ WF_vars(\E n \in Nodes, a \in {"CONTINUE", "ABANDON"} : FinishNode(n, a))
  /\ WF_vars(Decide)
  /\ WF_vars(End)

-----------------------------------------------------------------------------
(* Properties *)

(* The graph, the lists of an execution and the flags have their types. *)
TypeOK ==
  /\ nodes \in Seq(Seq(Params) \ {<<>>}) /\ Len(nodes) <= MaxNodes
  /\ verified \in BOOLEAN /\ reverify \in BOOLEAN
  /\ state \in {"UNVERIFIED", "VERIFIED", "RUNNING", "COMPLETED", "ABANDONED"}
  /\ verified => heads \subseteq Nodes
  /\ pc \in {"idle", "batch", "end"} /\ mode \in Modes
  /\ action \in {"CONTINUE", "ABANDON"}
  /\ IF pc = "idle" THEN <<next, todo, running, runs>> = <<(<<>>), <<>>, <<>>, <<>>>>
                    ELSE {next, todo, running, runs} \subseteq [Nodes -> Nat]
  /\ left \cup visited \cup executed \subseteq Nodes

Feeds(list, m, n) == \E r \in Writes(list, m), s \in Reads(list, n) : Touches(r, s)
Acyclic(list) ==
  \A S \in (SUBSET DOMAIN list) \ {{}} : \E n \in S : \A m \in S : ~Feeds(list, m, n)

(* vxIsGraphVerified: a verified graph has its parameters, one writer of   *)
(* any piece of memory, and no cycle, connected to a head or not.          *)
VerifiedIsRunnable ==
  /\ TypeOK
  /\ verified =>
       /\ ~Missing(nodes)
       /\ Acyclic(nodes)
       /\ \A m, n \in Nodes : \A r \in Writes(nodes, m), s \in Writes(nodes, n) :
            m # n => ~Touches(r, s)

Occurrences(list, params) == Cardinality({i \in DOMAIN list : list[i] = params})
Precedes(list, m, n) == (Writes(list, m) \cap Reads(list, n)) \ {NoRef} # {}

(* vxTopologicalSort: sorting never loses or repeats a node, cyclic graphs *)
(* included, and lists each node of an acyclic graph after the nodes whose *)
(* outputs it reads, as the validation of its parameters expects.          *)
SortIsTopological ==
  pc = "idle" =>
    \A list \in {TopologicalSort(nodes)} :
       /\ \A params \in Range(nodes) \cup Range(list) :
            Occurrences(list, params) = Occurrences(nodes, params)
       /\ Acyclic(nodes) => \A m, n \in DOMAIN list : Precedes(list, m, n) => m < n

(* vxWorkerNode: nodes that run at the same time do not write what another *)
(* one of them reads or writes.                                            *)
NoDataRace ==
  pc = "batch" =>
    \A m, n \in Listed(running) :
      m # n => \A r \in Writes(nodes, m), s \in Writes(nodes, n) \cup Reads(nodes, n) :
                 ~Touches(r, s)

(* ownFindNextNodes: a node only runs once every node it reads from has    *)
(* run, directly or through a shared region.                               *)
RunsAfterProducers ==
  pc = "batch" => \A n \in Listed(running) : \A m \in Nodes :
                    Feeds(nodes, m, n) => m \in executed

(* vxExecuteGraph: no node is executed twice in a call, and when the call  *)
(* is not abandoned every node has been executed.                          *)
EveryNodeRunsOnce ==
  pc # "idle" => \A n \in Nodes :
                   /\ runs[n] <= 1
                   /\ pc = "end" /\ action = "CONTINUE" => n \in executed

(* vxProcessGraph returns. *)
ExecutionEnds == pc # "idle" ~> pc = "idle"

=============================================================================
