----------------------------- MODULE ThreadPool -----------------------------
(***************************************************************************)
(* vx_threadpool_t of sample/framework/vx_osal.c and its only user, the    *)
(* SMP branch of vxExecuteGraph in vx_graph.c: the thread that executes a  *)
(* graph issues one batch of work items (the nodes that are ready), waits  *)
(* for the completed event, reads the action each item returned, and       *)
(* issues the next batch from the same array on its stack.                 *)
(*                                                                         *)
(* Each worker owns a queue.  It has one writer at a time (the issuer      *)
(* holds pool->sem) and one reader, so by the properties of OsalQueue it   *)
(* is a first-in first-out buffer whose calls fail only when popped.       *)
(***************************************************************************)
EXTENDS Integers, Sequences, FiniteSets

CONSTANTS
  NumWorkers,        (* VX_INT_HOST_CORES                                  *)
  Depth,             (* VX_INT_MAX_QUEUE_DEPTH                             *)
  MaxBatch,          (* the most nodes of a graph that are ready at once   *)
  Spurious,          (* TRUE: a condition wait may end with no broadcast   *)
  Client,            (* the executing thread, as a holder of pool->sem     *)
  None               (* pool->sem is free                                  *)

Workers == 0 .. NumWorkers - 1
Items == 1 .. MaxBatch

ASSUME WorkersAssumption == NumWorkers \in Nat \ {0}
ASSUME DepthAssumption == Depth \in Nat \ {0}
ASSUME BatchAssumption == MaxBatch \in Nat \ {0}
ASSUME ClientAssumption == Client # None
ASSUME SpuriousAssumption == Spurious \in BOOLEAN

VARIABLES
  queue, popped,       (* of each worker                                   *)
  hold,                (* pool_worker->data of each worker, 0 before the   *)
                       (* first item                                       *)
  wpc,                 (* where each worker is                             *)
  numCurrentItems, nextWorkerIndex, completed, sem,  (* vx_threadpool_t    *)
  action,              (* workitems[i].v3: "unset" is the value the issuer *)
                       (* stores, a worker overwrites it                   *)
  pc, n, i, count, index, wrote, (* the issuer and its locals              *)
  releaser             (* ownDestroyThreadpool: "no", the worker it is     *)
                       (* about to pop, the one it joins, or "done"        *)

poolvars == <<numCurrentItems, nextWorkerIndex, completed, sem>>
workervars == <<hold, wpc>>
locals == <<n, i, count, index, wrote>>
vars == <<queue, popped, workervars, poolvars, action, pc, locals, releaser>>

(* The pool is freed when the last worker is joined.  An issuer that is    *)
(* still in the pool then has undefined behaviour, which is not modelled.  *)
PoolExists == releaser.at # "done"

(* ownCreateThreadpool: no event is set, each worker reads its queue. *)
Init ==
  /\ queue = [w \in Workers |-> <<>>]
  /\ popped = [w \in Workers |-> FALSE]
  /\ hold = [w \in Workers |-> 0]
  /\ wpc = [w \in Workers |-> "read"]
  /\ numCurrentItems = 0
  /\ nextWorkerIndex = 0
  /\ completed = FALSE
  /\ sem = None
  /\ action = [k \in Items |-> "unset"]
  /\ pc = "idle"
  /\ n = 0 /\ i = 0 /\ count = 0 /\ index = 0 /\ wrote = FALSE
  /\ releaser = [at |-> "no", w |-> 0]

-----------------------------------------------------------------------------
(* What the steps are made of.  A deviation is a defect the code does not  *)
(* have: in the place of the operator it is named after it has to violate  *)
(* a property.                                                             *)

PopQueue_First(w) == popped' = [popped EXCEPT ![0] = TRUE]
PopQueue(w) == popped' = [popped EXCEPT ![w] = TRUE]

ReadQueue(w) ==
  /\ ~popped[w] /\ queue[w] # <<>>
  /\ queue' = [queue EXCEPT ![w] = Tail(@)]

NextWorker(w) == (w + 1) % NumWorkers

(* The items that are left when the completed event is set. *)
NoneLeft_OneEarly(k) == k <= 1
NoneLeft_Below(k) == k < 0
NoneLeft(k) == k <= 0

ResetCompleted_Forgets == UNCHANGED completed
ResetCompleted == completed' = FALSE

Uncount == numCurrentItems' = numCurrentItems - 1

(* ownWaitEvent(&pool->completed, VX_INT_FOREVER): its only waiter is also *)
(* the only thread that resets the event.  Without the event the wait ends *)
(* only spuriously, and vxExecuteGraph goes on just the same.              *)
WaitEnds == completed \/ Spurious

-----------------------------------------------------------------------------
(* The workers: vxWorkerThreadpool. *)

WorkerRead(w) ==
  /\ wpc[w] = "read"
  /\ ReadQueue(w)
  /\ hold' = [hold EXCEPT ![w] = Head(queue[w])]
  /\ wpc' = [wpc EXCEPT ![w] = "run"]
  /\ UNCHANGED <<popped, poolvars, action, pc, locals, releaser>>

(* ownReadQueue returns false from a popped queue and the loop ends. *)
WorkerExit(w) ==
  /\ wpc[w] = "read"
  /\ popped[w]
  /\ wpc' = [wpc EXCEPT ![w] = "exited"]
  /\ UNCHANGED <<queue, popped, hold, poolvars, action, pc, locals, releaser>>

(* vxWorkerNode: the node's kernel runs and its action goes to v3. *)
WorkerRun(w) ==
  /\ wpc[w] = "run"
  /\ \E a \in {"continue", "abandon"} :
       action' = [action EXCEPT ![hold[w]] = a]
  /\ wpc' = [wpc EXCEPT ![w] = "finish"]
  /\ UNCHANGED <<queue, popped, hold, poolvars, pc, locals, releaser>>

(* The worker that accounts for the last item sets the event. *)
WorkerFinish(w) ==
  /\ wpc[w] = "finish"
  /\ sem = None
  /\ numCurrentItems' = numCurrentItems - 1
  /\ completed' = (completed \/ NoneLeft(numCurrentItems'))
  /\ wpc' = [wpc EXCEPT ![w] = "read"]
  /\ UNCHANGED <<queue, popped, hold, nextWorkerIndex, sem, action, pc, locals,
                 releaser>>

-----------------------------------------------------------------------------
(* The issuer: vxExecuteGraph at depth 1, ownIssueThreadpool and           *)
(* ownCompleteThreadpool.                                                  *)

(* The next batch: m ready nodes, each with VX_ACTION_CONTINUE in v3. *)
StartBatch(m) ==
  /\ pc = "idle"
  /\ PoolExists
  /\ n' = m
  /\ action' = [k \in Items |-> IF k <= m THEN "unset" ELSE action[k]]
  /\ pc' = "issue"
  /\ UNCHANGED <<queue, popped, workervars, poolvars, i, count, index, wrote, releaser>>

(* pool->sem is held from here to IssuePost, the waits for room included. *)
IssueLock ==
  /\ pc = "issue"
  /\ sem = None
  /\ sem' = Client
  /\ ResetCompleted
  /\ i' = 1
  /\ count' = 0
  /\ pc' = "pick"
  /\ UNCHANGED <<queue, popped, workervars, numCurrentItems, nextWorkerIndex, action,
                 n, index, wrote, releaser>>

IssuePick ==
  /\ pc = "pick"
  /\ count' = count + 1
  /\ index' = nextWorkerIndex
  /\ nextWorkerIndex' = NextWorker(nextWorkerIndex)
  /\ numCurrentItems' = numCurrentItems + 1
  /\ pc' = "write"
  /\ UNCHANGED <<queue, popped, workervars, completed, sem, action, n, i, wrote,
                 releaser>>

(* ownWriteQueue blocks while the worker's queue is full. *)
IssueWrite ==
  /\ pc = "write"
  /\ ~popped[index]
  /\ Len(queue[index]) < Depth
  /\ queue' = [queue EXCEPT ![index] = Append(@, i)]
  /\ wrote' = TRUE
  /\ i' = i + 1
  /\ count' = 0
  /\ pc' = IF i < n THEN "pick" ELSE "post"
  /\ UNCHANGED <<popped, workervars, poolvars, action, n, index, releaser>>

(* A popped queue refuses the item: the next worker is tried, once round. *)
IssueRefused ==
  /\ pc = "write"
  /\ popped[index]
  /\ wrote' = FALSE
  /\ Uncount
  /\ pc' = IF count < NumWorkers THEN "pick" ELSE "post"
  /\ UNCHANGED <<queue, popped, workervars, nextWorkerIndex, completed, sem, action,
                 n, i, count, index, releaser>>

(* When nothing is outstanding the event is set at once.  A batch that was *)
(* not issued whole is not waited for.                                     *)
IssuePost ==
  /\ pc = "post"
  /\ completed' = (completed \/ numCurrentItems = 0)
  /\ sem' = None
  /\ pc' = IF wrote THEN "complete" ELSE "idle"
  /\ UNCHANGED <<queue, popped, workervars, numCurrentItems, nextWorkerIndex, action,
                 locals, releaser>>

(* ownCompleteThreadpool, blocking. *)
Complete ==
  /\ pc = "complete"
  /\ WaitEnds
  /\ pc' = "collect"
  /\ UNCHANGED <<queue, popped, workervars, poolvars, action, locals, releaser>>

(* The actions of the items are read; the graph goes on, is abandoned, or  *)
(* has no node left.                                                       *)
Collect ==
  /\ pc = "collect"
  /\ pc' = "idle"
  /\ UNCHANGED <<queue, popped, workervars, poolvars, action, locals, releaser>>

-----------------------------------------------------------------------------
(* The thread in vxReleaseContext: ownDestroyThreadpool pops each queue    *)
(* and joins its worker before it turns to the next.  The graph thread is  *)
(* stopped only after that, so a scheduled graph may be executing.         *)

Release ==
  /\ releaser.at = "no"
  /\ releaser' = [at |-> "pop", w |-> 0]
  /\ UNCHANGED <<queue, popped, workervars, poolvars, action, pc, locals>>

ReleasePop ==
  /\ releaser.at = "pop"
  /\ PopQueue(releaser.w)
  /\ releaser' = [releaser EXCEPT !.at = "join"]
  /\ UNCHANGED <<queue, workervars, poolvars, action, pc, locals>>

ReleaseJoin ==
  /\ releaser.at = "join"
  /\ wpc[releaser.w] = "exited"
  /\ releaser' = IF releaser.w + 1 < NumWorkers
                 THEN [at |-> "pop", w |-> releaser.w + 1]
                 ELSE [at |-> "done", w |-> releaser.w]
  /\ UNCHANGED <<queue, popped, workervars, poolvars, action, pc, locals>>

-----------------------------------------------------------------------------
WorkerStep(w) == WorkerRead(w) \/ WorkerExit(w) \/ WorkerRun(w) \/ WorkerFinish(w)

IssuerStep ==
  /\ PoolExists
  /\ \/ IssueLock \/ IssuePick \/ IssueWrite \/ IssueRefused \/ IssuePost
     \/ Complete \/ Collect

ReleaserStep == ReleasePop \/ ReleaseJoin

Next ==
  \/ \E w \in Workers : WorkerStep(w)
  \/ \E m \in Items : StartBatch(m)
  \/ IssuerStep
  \/ Release
  \/ ReleaserStep

Spec == Init /\ [][Next]_vars

(* Threads that can run do run.  A worker or the issuer that finds the     *)
(* semaphore free again and again obtains it.                              *)
Fairness ==
  /\ \A w \in Workers : WF_vars(WorkerStep(w)) /\ SF_vars(WorkerFinish(w))
  /\ WF_vars(IssuerStep)
  /\ SF_vars(PoolExists /\ IssueLock)
  /\ WF_vars(ReleaserStep)

FairSpec == Spec /\ Fairness

-----------------------------------------------------------------------------
(* Properties. *)

(* Every variable has its type; numCurrentItems is a signed integer in the *)
(* code and is never negative here.                                        *)
TypeOK ==
  /\ queue \in [Workers -> Seq(Items)]
  /\ popped \in [Workers -> BOOLEAN]
  /\ hold \in [Workers -> Items \cup {0}]
  /\ wpc \in [Workers -> {"read", "run", "finish", "exited"}]
  /\ numCurrentItems \in Nat
  /\ nextWorkerIndex \in Workers
  /\ completed \in BOOLEAN
  /\ sem \in {Client, None}
  /\ action \in [Items -> {"unset", "continue", "abandon"}]
  /\ pc \in {"idle", "issue", "pick", "write", "post", "complete", "collect"}
  /\ n \in 0 .. MaxBatch /\ i \in 0 .. MaxBatch + 1
  /\ count \in 0 .. NumWorkers /\ index \in Workers /\ wrote \in BOOLEAN
  /\ releaser \in [at : {"no", "pop", "join", "done"}, w : Workers]

(* The items a worker has taken and not yet accounted for. *)
InProgress == {w \in Workers : wpc[w] \in {"run", "finish"}}

(* The places of the queues that are filled.                               *)
Queued == {s \in Workers \X (1 .. Depth) : s[2] <= Len(queue[s[1]])}

(* numCurrentItems, which the workers and the issuer change from several   *)
(* places, is at all times the number of items queued or in the hands of a *)
(* worker, and one more while the issuer waits to write an item.           *)
CountMatchesWork ==
  /\ TypeOK
  /\ numCurrentItems =
       Cardinality(Queued) + Cardinality(InProgress) + (IF pc = "write" THEN 1 ELSE 0)

(* The completed event is never up while an item is queued or running, and *)
(* the count that decides it is right.                                     *)
CompletedMeansDone ==
  /\ CountMatchesWork
  /\ completed => InProgress = {} /\ \A w \in Workers : queue[w] = <<>>

Releasing == releaser.at # "no"

(* When vxExecuteGraph reads workitems[k].v3 after a blocking complete,    *)
(* the node of every item of the batch has run; and since the items lie on *)
(* its stack and are written again for the next batch, no queue and no     *)
(* running worker has a pointer to one between two batches, unless the     *)
(* context is being released.                                              *)
CollectsOnlyFinishedWork ==
  /\ pc = "collect" => \A k \in 1 .. n : action[k] # "unset"
  /\ pc \in {"idle", "issue"} /\ ~Releasing =>
       \A w \in Workers : queue[w] = <<>> /\ wpc[w] # "run"

(* Every batch that is issued is completed and collected, unless the       *)
(* context is released meanwhile: popped workers leave items unread.       *)
BatchReturns == pc = "issue" ~> pc = "idle" \/ Releasing

(* ownDestroyThreadpool returns: every worker it joins leaves its loop.    *)
ReleaseReturns == Releasing ~> releaser.at = "done"
=============================================================================
