---------------------------- MODULE GraphSchedule ----------------------------
(***************************************************************************)
(* Asynchronous and synchronous execution of graphs: vxScheduleGraph,      *)
(* vxWaitGraph and vxProcessGraph of vx_graph.c, called by application     *)
(* threads, and the graph thread vxWorkerGraph of vx_context.c.            *)
(*                                                                         *)
(* A scheduled graph owns an entry of the static table graph_queue.  The   *)
(* input and the output queue of the context carry pointers to entries.    *)
(* The queues are the first-in first-out buffers OsalQueue implements; a   *)
(* queue with two users of one kind may fail a call although it was not    *)
(* popped (FailsOnlyWhenPopped of OsalQueue), and so may one that waits    *)
(* when the wait ends by itself: MaxFailures.                              *)
(***************************************************************************)
EXTENDS Integers, Sequences, FiniteSets, SequencesExt

CONSTANTS
  Graphs,       (* the verified graphs of the context                      *)
  NumSlots,     (* dimof(graph_queue), 10                                  *)
  Apps,         (* the application threads                                 *)
  GraphThread,  (* the thread of vxWorkerGraph                             *)
  NoGraph,      (* 0 in the v1 field of a free entry                       *)
  Depth,        (* VX_INT_MAX_QUEUE_DEPTH                                  *)
  MaxFailures,  (* bound: queue calls that fail although nothing is popped *)
  MaxLock       (* bound: graph->lock is not posted beyond this count      *)

Threads == Apps \cup {GraphThread}
Slots == 1 .. NumSlots
Statuses == {"VX_SUCCESS", "VX_FAILURE", "VX_ERROR_GRAPH_ABANDONED",
             "VX_ERROR_GRAPH_SCHEDULED", "VX_ERROR_NO_RESOURCES",
             "VX_ERROR_INVALID_REFERENCE"}
Outcomes == {"VX_SUCCESS", "VX_ERROR_GRAPH_ABANDONED"}

ASSUME SlotsAssumption == NumSlots \in Nat \ {0} /\ Depth \in Nat \ {0}
ASSUME ThreadsAssumption == IsFiniteSet(Apps) /\ GraphThread \notin Apps
ASSUME NoGraphAssumption == NoGraph \notin Graphs
ASSUME BoundsAssumption == MaxFailures \in Nat /\ MaxLock \in Nat \ {0}

VARIABLES
  lock,           (* graph->lock, a semaphore that starts at 1             *)
  graph_queue,    (* [g |-> v1, s |-> v2] of each entry                    *)
  input, output,  (* proc.input and proc.output                            *)
  count,          (* the re-entrancy counter of vxProcessGraph             *)
  pc,             (* where each thread is                                  *)
  graph,          (* the graph each thread works on                        *)
  data,           (* the entry each thread holds a pointer to              *)
  depth,          (* the depth argument of vxExecuteGraph                  *)
  status,         (* the status of each thread's call                      *)
  ran,            (* history: the graphs the graph thread has executed     *)
                  (* since they were last put into an entry                *)
  failures        (* history: the queue calls that failed                  *)

vars == <<lock, graph_queue, input, output, count, pc, graph, data, depth, status,
          ran, failures>>

Init ==
  /\ lock = [g \in Graphs |-> 1]
  /\ graph_queue = [q \in Slots |-> [g |-> NoGraph, s |-> "VX_SUCCESS"]]
  /\ input = <<>> /\ output = <<>>
  /\ count = 0
  /\ pc = [t \in Threads |-> "idle"]
  /\ graph = [t \in Threads |-> NoGraph]
  /\ data = [t \in Threads |-> 0]
  /\ depth = [t \in Threads |-> 0]
  /\ status = [t \in Threads |-> "VX_SUCCESS"]
  /\ ran = {}
  /\ failures = 0

Goto(t, step) == pc' = [pc EXCEPT ![t] = step]

(* t is back from its call with s; its local variables are gone. *)
Return(t, s) ==
  /\ status' = [status EXCEPT ![t] = s]
  /\ graph' = [graph EXCEPT ![t] = NoGraph]
  /\ data' = [data EXCEPT ![t] = 0]
  /\ depth' = [depth EXCEPT ![t] = 0]
  /\ Goto(t, "idle")

Holds(q, g) == graph_queue[q].g = g
Lowest(S) == CHOOSE q \in S : \A r \in S : q <= r

-----------------------------------------------------------------------------
(* What the steps are made of.  A deviation is a defect the code does not  *)
(* have: in the place of the operator it is named after it has to violate  *)
(* a property.                                                             *)

PostLock(g) == lock[g] < MaxLock /\ lock' = [lock EXCEPT ![g] = @ + 1]

(* The counter of vxProcessGraph when a thread leaves. *)
CountDown_Resets == count' = 0
CountDown == count' = count - 1

TakeInput_Peeks == input # <<>> /\ UNCHANGED input
TakeInput == input # <<>> /\ input' = Tail(input)

PutOutput_Drops(q) == UNCHANGED output
PutOutput(q) == Len(output) < Depth /\ output' = Append(output, q)

QueueFails == failures < MaxFailures /\ failures' = failures + 1

(* The entry that was read is the one of the graph that is waited for. *)
ReadMine_Any(a) == TRUE
ReadMine(a) == Holds(data[a], graph[a])

(* The first entry with the graph is freed, whichever entry was read. *)
Free_Keeps(g) == graph_queue
Free(g) == LET mine == {q \in Slots : Holds(q, g)}
           IN IF mine = {} THEN graph_queue
              ELSE [graph_queue EXCEPT ![Lowest(mine)].g = NoGraph]

-----------------------------------------------------------------------------
(* vxScheduleGraph *)

ScheduleLock(a, g) ==
  /\ pc[a] = "idle"
  /\ lock[g] > 0
  /\ lock' = [lock EXCEPT ![g] = @ - 1]
  /\ graph' = [graph EXCEPT ![a] = g]
  /\ Goto(a, "claim")
  /\ UNCHANGED <<graph_queue, input, output, count, data, depth, status, ran, failures>>

ScheduleRefused(a, g) ==
  /\ pc[a] = "idle"
  /\ lock[g] = 0
  /\ Return(a, "VX_ERROR_GRAPH_SCHEDULED")
  /\ UNCHANGED <<lock, graph_queue, input, output, count, ran, failures>>

(* The table is searched under the global lock.  Nothing marks the entry   *)
(* before the lock is posted.                                              *)
ClaimSlot(a) ==
  /\ pc[a] = "claim"
  /\ \E q \in Slots : Holds(q, NoGraph)
  /\ data' = [data EXCEPT ![a] = Lowest({q \in Slots : Holds(q, NoGraph)})]
  /\ Goto(a, "fill")
  /\ UNCHANGED <<lock, graph_queue, input, output, count, graph, depth, status, ran, failures>>

(* "Graph queue is full": graph->lock stays taken. *)
NoSlot(a) ==
  /\ pc[a] = "claim"
  /\ ~ \E q \in Slots : Holds(q, NoGraph)
  /\ Return(a, "VX_ERROR_NO_RESOURCES")
  /\ UNCHANGED <<lock, graph_queue, input, output, count, ran, failures>>

FillSlot(a) ==
  /\ pc[a] = "fill"
  /\ graph_queue' = [graph_queue EXCEPT ![data[a]] = [g |-> graph[a], s |-> "VX_SUCCESS"]]
  /\ ran' = ran \ {graph[a]}
  /\ Goto(a, "writeInput")
  /\ UNCHANGED <<lock, input, output, count, graph, data, depth, status, failures>>

WriteInput(a) ==
  /\ pc[a] = "writeInput"
  /\ Len(input) < Depth
  /\ input' = Append(input, data[a])
  /\ Return(a, "VX_SUCCESS")
  /\ UNCHANGED <<lock, graph_queue, output, count, ran, failures>>

(* The entry is not given back. *)
WriteInputFails(a) ==
  /\ pc[a] = "writeInput"
  /\ QueueFails
  /\ PostLock(graph[a])
  /\ Return(a, "VX_ERROR_NO_RESOURCES")
  /\ UNCHANGED <<graph_queue, input, output, count, ran>>

-----------------------------------------------------------------------------
(* vxWaitGraph *)

(* The graph is not scheduled: its lock is taken and posted again. *)
WaitFree(a, g) ==
  /\ pc[a] = "idle"
  /\ lock[g] > 0
  /\ lock' = [lock EXCEPT ![g] = @ - 1]
  /\ graph' = [graph EXCEPT ![a] = g]
  /\ status' = [status EXCEPT ![a] = "VX_FAILURE"]
  /\ Goto(a, "waitPost")
  /\ UNCHANGED <<graph_queue, input, output, count, data, depth, ran, failures>>

WaitLocked(a, g) ==
  /\ pc[a] = "idle"
  /\ lock[g] = 0
  /\ graph' = [graph EXCEPT ![a] = g]
  /\ Goto(a, "readOutput")
  /\ UNCHANGED <<lock, graph_queue, input, output, count, data, depth, status, ran, failures>>

ReadOutput(a) ==
  /\ pc[a] = "readOutput"
  /\ output # <<>>
  /\ data' = [data EXCEPT ![a] = Head(output)]
  /\ output' = Tail(output)
  /\ Goto(a, "inspect")
  /\ UNCHANGED <<lock, graph_queue, input, count, graph, depth, status, ran, failures>>

ReadOutputFails(a) ==
  /\ pc[a] = "readOutput"
  /\ QueueFails
  /\ status' = [status EXCEPT ![a] = "VX_FAILURE"]
  /\ Goto(a, "waitPost")
  /\ UNCHANGED <<lock, graph_queue, input, output, count, graph, data, depth, ran>>

Inspect(a) ==
  /\ pc[a] = "inspect"
  /\ status' = [status EXCEPT ![a] = graph_queue[data[a]].s]
  /\ Goto(a, IF ReadMine(a) THEN "clear" ELSE "putBack")
  /\ UNCHANGED <<lock, graph_queue, input, output, count, graph, data, depth, ran, failures>>

(* Under the global lock. *)
ClearSlot(a) ==
  /\ pc[a] = "clear"
  /\ graph_queue' = Free(graph[a])
  /\ Goto(a, "waitPost")
  /\ UNCHANGED <<lock, input, output, count, graph, data, depth, status, ran, failures>>

(* Another graph's entry goes back; whether the write worked is ignored. *)
PutBack(a) ==
  /\ pc[a] = "putBack"
  /\ PutOutput(data[a])
  /\ Goto(a, "readOutput")
  /\ UNCHANGED <<lock, graph_queue, input, count, graph, data, depth, status, ran, failures>>

PutBackFails(a) ==
  /\ pc[a] = "putBack"
  /\ QueueFails
  /\ Goto(a, "readOutput")
  /\ UNCHANGED <<lock, graph_queue, input, output, count, graph, data, depth, status, ran>>

WaitPost(a) ==
  /\ pc[a] = "waitPost"
  /\ PostLock(graph[a])
  /\ Return(a, status[a])
  /\ UNCHANGED <<graph_queue, input, output, count, ran, failures>>

-----------------------------------------------------------------------------
(* vxProcessGraph, called by an application thread or the graph thread.    *)

CallProcess(a, g) ==
  /\ a \in Apps
  /\ pc[a] = "idle"
  /\ graph' = [graph EXCEPT ![a] = g]
  /\ Goto(a, "enter")
  /\ UNCHANGED <<lock, graph_queue, input, output, count, data, depth, status, ran, failures>>

Enter(t) ==
  /\ pc[t] = "enter"
  /\ count' = count + 1
  /\ Goto(t, "readCount")
  /\ UNCHANGED <<lock, graph_queue, input, output, graph, data, depth, status, ran, failures>>

(* The counter is passed to vxExecuteGraph after the lock is posted. *)
ReadCount(t) ==
  /\ pc[t] = "readCount"
  /\ depth' = [depth EXCEPT ![t] = count]
  /\ Goto(t, "execute")
  /\ UNCHANGED <<lock, graph_queue, input, output, count, graph, data, status, ran, failures>>

(* vxExecuteGraph as a whole; GraphExecute has its steps. *)
Execute(t) ==
  /\ pc[t] = "execute"
  /\ \E s \in Outcomes : status' = [status EXCEPT ![t] = s]
  /\ ran' = IF t = GraphThread THEN ran \cup {graph[t]} ELSE ran
  /\ Goto(t, "leave")
  /\ UNCHANGED <<lock, graph_queue, input, output, count, graph, data, depth, failures>>

Leave(t) ==
  /\ pc[t] = "leave"
  /\ CountDown
  /\ IF t = GraphThread
     THEN Goto(t, "writeOutput") /\ UNCHANGED <<graph, data, depth, status>>
     ELSE Return(t, status[t])
  /\ UNCHANGED <<lock, graph_queue, input, output, ran, failures>>

-----------------------------------------------------------------------------
(* vxWorkerGraph *)

(* An entry whose graph is gone makes vxProcessGraph return at once. *)
ReadInput ==
  /\ pc[GraphThread] = "idle"
  /\ TakeInput
  /\ data' = [data EXCEPT ![GraphThread] = Head(input)]
  /\ graph' = [graph EXCEPT ![GraphThread] = graph_queue[Head(input)].g]
  /\ IF graph'[GraphThread] = NoGraph
     THEN /\ status' = [status EXCEPT ![GraphThread] = "VX_ERROR_INVALID_REFERENCE"]
          /\ Goto(GraphThread, "writeOutput")
     ELSE Goto(GraphThread, "enter") /\ UNCHANGED status
  /\ UNCHANGED <<lock, graph_queue, output, count, depth, ran, failures>>

StoreResult ==
  graph_queue' = [graph_queue EXCEPT
                    ![data[GraphThread]] = [g |-> graph[GraphThread], s |-> status[GraphThread]]]

WriteOutput ==
  /\ pc[GraphThread] = "writeOutput"
  /\ StoreResult
  /\ PutOutput(data[GraphThread])
  /\ Return(GraphThread, status[GraphThread])
  /\ UNCHANGED <<lock, input, count, ran, failures>>

WriteOutputFails ==
  /\ pc[GraphThread] = "writeOutput"
  /\ QueueFails
  /\ StoreResult
  /\ Return(GraphThread, status[GraphThread])
  /\ UNCHANGED <<lock, input, output, count, ran>>

-----------------------------------------------------------------------------
(* A call an application makes; nothing obliges it to.                     *)
Call(a, g) ==
  \/ ScheduleLock(a, g) \/ ScheduleRefused(a, g)
  \/ WaitFree(a, g) \/ WaitLocked(a, g)
  \/ CallProcess(a, g)

AppWorks(a) ==
  \/ ClaimSlot(a) \/ NoSlot(a) \/ FillSlot(a) \/ WriteInput(a)
  \/ ReadOutput(a) \/ Inspect(a) \/ ClearSlot(a) \/ PutBack(a) \/ WaitPost(a)

AppFails(a) == WriteInputFails(a) \/ ReadOutputFails(a) \/ PutBackFails(a)

ProcessStep(t) == Enter(t) \/ ReadCount(t) \/ Execute(t) \/ Leave(t)

GraphThreadWorks == ReadInput \/ WriteOutput \/ ProcessStep(GraphThread)

Next ==
  \/ \E a \in Apps, g \in Graphs : Call(a, g)
  \/ \E a \in Apps : AppWorks(a) \/ AppFails(a) \/ ProcessStep(a)
  \/ GraphThreadWorks \/ WriteOutputFails

Spec == Init /\ [][Next]_vars

(* A call that was made goes on, and the graph thread runs, whenever the   *)
(* scheduler finds them runnable.  Nothing obliges a queue call to fail.   *)
Fairness ==
  /\ \A a \in Apps : WF_vars(AppWorks(a) \/ ProcessStep(a))
  /\ WF_vars(GraphThreadWorks)

FairSpec == Spec /\ Fairness

-----------------------------------------------------------------------------
(* Properties. *)

(* Every variable has its type. *)
TypeOK ==
  /\ lock \in [Graphs -> 0 .. MaxLock]
  /\ graph_queue \in [Slots -> [g : Graphs \cup {NoGraph}, s : Statuses]]
  /\ input \in Seq(Slots) /\ output \in Seq(Slots)
  /\ count \in 0 .. Cardinality(Threads)
  /\ pc \in [Threads -> {"idle", "claim", "fill", "writeInput", "readOutput", "inspect",
                         "clear", "putBack", "waitPost", "enter", "readCount", "execute",
                         "leave", "writeOutput"}]
  /\ graph \in [Threads -> Graphs \cup {NoGraph}]
  /\ data \in [Threads -> Slots \cup {0}]
  /\ depth \in [Threads -> 0 .. Cardinality(Threads)]
  /\ status \in [Threads -> Statuses]
  /\ ran \subseteq Graphs
  /\ failures \in 0 .. MaxFailures

(* The places an entry can be in between two steps of its life. *)
Carried(q) ==
  {t \in Threads : data[t] = q /\ pc[t] \in
     {"fill", "writeInput", "inspect", "clear", "putBack"}}
  \cup {t \in {GraphThread} : data[t] = q /\ pc[t] # "idle"}

Occurrences(q) ==
  Cardinality({k \in 1 .. Len(input) : input[k] = q})
  + Cardinality({k \in 1 .. Len(output) : output[k] = q})
  + Cardinality(Carried(q))

(* As long as no call of a queue has failed, a pointer to an entry of      *)
(* graph_queue is in one place at a time: in one of the queues or in the   *)
(* hands of one thread, and nowhere once the entry is free.                *)
EntryHasOneOwner ==
  failures = 0 =>
    \A q \in Slots :
      /\ Occurrences(q) <= 1
      /\ ~Holds(q, NoGraph) => Occurrences(q) = 1

(* A result that vxWaitGraph takes for its graph was written by an         *)
(* execution later than the vxScheduleGraph it waits for; a fresh entry    *)
(* has the value of VX_SUCCESS as well.                                    *)
WaitGetsItsOwnResult ==
  failures = 0 =>
    \A a \in Apps : pc[a] = "clear" => graph[a] \in ran /\ status[a] \in Outcomes

(* Scheduled once, executed once by the graph thread.                      *)
ScheduledRunsOnce ==
  [][failures = 0 /\ pc[GraphThread] = "execute" /\ pc'[GraphThread] # "execute"
       => graph[GraphThread] \notin ran]_vars

(* Between two calls of the application the table has exactly one entry    *)
(* for each graph that is locked and none for the others.                  *)
EntriesMatchLocks ==
  failures = 0 /\ (\A a \in Apps : pc[a] = "idle") =>
    \A g \in Graphs :
      Cardinality({q \in Slots : Holds(q, g)}) = 1 - lock[g]

(* The threads that the re-entrancy counter counts.                        *)
Inside == {t \in Threads : pc[t] \in {"readCount", "execute", "leave"}}

Alone(t) == pc[t] = "execute" /\ depth[t] = 1

(* The counter is read after its lock was given up, when others may have   *)
(* come and gone; even so at most one execution at a time counts itself    *)
(* the only one: the thread pool, its completed event and the array of     *)
(* work items serve one graph at a time.                                   *)
OneExecutionUsesThePool ==
  /\ TypeOK
  /\ count = Cardinality(Inside)
  /\ \A t, u \in Threads : Alone(t) /\ Alone(u) => t = u

(* A wait for a graph that was scheduled returns, whatever other graphs'   *)
(* results it has to put back, unless a queue call fails.                  *)
WaitReturns ==
  \A a \in Apps : pc[a] = "readOutput" ~> pc[a] = "idle" \/ failures > 0
=============================================================================
