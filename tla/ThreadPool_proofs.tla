-------------------------- MODULE ThreadPool_proofs --------------------------
(***************************************************************************)
(* The safety properties of ThreadPool, for any number of workers, any     *)
(* depth of their queues and any size of the batches.                      *)
(*                                                                         *)
(* What the workers and the issuer do to numCurrentItems adds up           *)
(* (PoolInv), so the completed event means what it says.  That the issuer  *)
(* collects finished work only needs the way of each item besides: it is   *)
(* in a queue, in the hands of a worker, or done (BatchInv).               *)
(***************************************************************************)
EXTENDS ThreadPool, FiniteSetTheorems, TLAPS

Issuing == {"pick", "write", "post"}

(* The issuer has the semaphore while it issues, and the event is down.    *)
LockInv ==
  /\ sem = Client <=> pc \in Issuing
  /\ completed => numCurrentItems = 0 /\ pc \notin Issuing

(* Where the issuer is in its batch, and whether the batch was issued.     *)
LocalsInv ==
  /\ pc = "pick" => count < NumWorkers
  /\ pc = "issue" => n > 0
  /\ pc \in {"pick", "write"} => i \in 1 .. n
  /\ pc = "post" /\ wrote => i = n + 1
  /\ pc \in {"complete", "collect"} => i = n + 1

(* No queue is longer than its buffer, and a worker runs an item.          *)
WorkersInv ==
  /\ \A w \in Workers : Len(queue[w]) <= Depth
  /\ \A w \in Workers : wpc[w] = "run" => hold[w] \in Items

PoolInv == TypeOK /\ CountMatchesWork /\ LockInv /\ LocalsInv /\ WorkersInv

(* An item is waiting in a queue, or a worker has it and runs it.          *)
Waiting(k) == \E w \in Workers : \E j \in 1 .. Len(queue[w]) : queue[w][j] = k
Running(k) == \E w \in Workers : wpc[w] = "run" /\ hold[w] = k
Done(k) == action[k] # "unset"

NoWork == \A w \in Workers : queue[w] = <<>> /\ wpc[w] \notin {"run", "finish"}

(* The items of the batch that were issued are done when no queue and no   *)
(* worker has them; and nobody has any outside a batch.                    *)
BatchInv ==
  /\ pc \in Issuing \cup {"complete"} =>
       \A k \in 1 .. i - 1 : Done(k) \/ Waiting(k) \/ Running(k)
  /\ pc = "collect" => \A k \in 1 .. n : Done(k)
  /\ ~Releasing =>
       /\ \A w \in Workers : ~popped[w]
       /\ pc = "post" => wrote
       /\ pc \in {"collect", "idle", "issue"} => NoWork

(* The workers, and the places of their queues, are finite in number.      *)
LEMMA FiniteWork ==
  /\ IsFiniteSet(Queued) /\ Cardinality(Queued) \in Nat
  /\ IsFiniteSet(InProgress) /\ Cardinality(InProgress) \in Nat
<1>1. IsFiniteSet(Workers) /\ IsFiniteSet(1 .. Depth)
  BY WorkersAssumption, DepthAssumption, FS_Interval DEF Workers
<1>2. IsFiniteSet(Workers \X (1 .. Depth))
  BY <1>1, FS_Product
<1>3. Queued \in SUBSET (Workers \X (1 .. Depth)) /\ InProgress \in SUBSET Workers
  BY DEF Queued, InProgress
<1>4. IsFiniteSet(Queued) /\ IsFiniteSet(InProgress)
  BY <1>1, <1>2, <1>3, FS_Subset
<1>5. QED
  BY <1>4, FS_CardinalityType

(* Taking an item empties one place of the queue, the last one filled.     *)
LEMMA ReadCounts ==
  ASSUME PoolInv, NEW w \in Workers, ReadQueue(w)
  PROVE  Cardinality(Queued') = Cardinality(Queued) - 1
<1> DEFINE last == <<w, Len(queue[w])>>
<1>1. /\ queue[w] \in Seq(Items) /\ Len(queue[w]) \in 1 .. Depth
      /\ Len(queue'[w]) = Len(queue[w]) - 1
  BY DEF PoolInv, TypeOK, WorkersInv, ReadQueue
<1>2. \A v \in Workers \ {w} : queue'[v] = queue[v]
  BY DEF PoolInv, TypeOK, ReadQueue
<1>3. \A v \in Workers : Len(queue[v]) \in Nat
  BY DEF PoolInv, TypeOK
<1>4. last \in Queued
  BY <1>1 DEF Queued
<1>5. Queued' = Queued \ {last}
  <2>1. ASSUME NEW s \in Workers \X (1 .. Depth)
        PROVE  s[2] <= Len(queue'[s[1]]) <=> s[2] <= Len(queue[s[1]]) /\ s # last
    <3>1. s = <<s[1], s[2]>> /\ s[1] \in Workers /\ s[2] \in 1 .. Depth
      OBVIOUS
    <3>2. CASE s[1] = w
      <4>1. s = last <=> s[2] = Len(queue[w])
        BY <3>1, <3>2
      <4>2. QED
        BY <1>1, <3>1, <3>2, <4>1
    <3>3. CASE s[1] # w
      BY <1>2, <3>1, <3>3
    <3>4. QED
      BY <3>2, <3>3
  <2>2. QED
    BY <2>1 DEF Queued
<1>6. QED
  BY <1>4, <1>5, FiniteWork, FS_RemoveElement

(* Writing one fills one more place.                                       *)
LEMMA WriteCounts ==
  ASSUME PoolInv, IssueWrite
  PROVE  Cardinality(Queued') = Cardinality(Queued) + 1
<1> DEFINE w == index
           next == <<w, Len(queue[w]) + 1>>
<1>1. /\ w \in Workers /\ queue[w] \in Seq(Items) /\ Len(queue[w]) + 1 \in 1 .. Depth
      /\ Len(queue'[w]) = Len(queue[w]) + 1
  BY DepthAssumption DEF PoolInv, TypeOK, WorkersInv, IssueWrite
<1>2. \A v \in Workers \ {w} : queue'[v] = queue[v]
  BY DEF PoolInv, TypeOK, IssueWrite
<1>3. next \notin Queued
  BY <1>1 DEF Queued
<1>4. Queued' = Queued \cup {next}
  <2>1. ASSUME NEW s \in Workers \X (1 .. Depth)
        PROVE  s[2] <= Len(queue'[s[1]]) <=> s[2] <= Len(queue[s[1]]) \/ s = next
    <3>1. s = <<s[1], s[2]>> /\ s[1] \in Workers /\ s[2] \in 1 .. Depth
      OBVIOUS
    <3>2. CASE s[1] = w
      <4>1. s = next <=> s[2] = Len(queue[w]) + 1
        BY <3>1, <3>2
      <4>2. QED
        BY <1>1, <3>1, <3>2, <4>1
    <3>3. CASE s[1] # w
      BY <1>2, <3>1, <3>3
    <3>4. QED
      BY <3>2, <3>3
  <2>2. next \in Workers \X (1 .. Depth)
    BY <1>1
  <2>3. QED
    BY <2>1, <2>2 DEF Queued
<1>5. QED
  BY <1>3, <1>4, FiniteWork, FS_AddElement

(* When the count is zero no queue and no worker has an item.              *)
LEMMA ZeroMeansNone ==
  ASSUME PoolInv, numCurrentItems = 0
  PROVE  NoWork /\ InProgress = {}
<1>1. Cardinality(Queued) = 0 /\ Cardinality(InProgress) = 0
  BY FiniteWork DEF PoolInv, CountMatchesWork
<1>2. Queued = {} /\ InProgress = {}
  BY <1>1, FiniteWork, FS_EmptySet
<1>3. ASSUME NEW w \in Workers PROVE queue[w] = <<>>
  <2>1. queue[w] \in Seq(Items) /\ Len(queue[w]) \in Nat
    BY DEF PoolInv, TypeOK
  <2>2. ~ 1 <= Len(queue[w])
    <3>1. <<w, 1>> \in Workers \X (1 .. Depth) /\ <<w, 1>> \notin Queued
      BY <1>2, DepthAssumption
    <3>2. QED
      BY <3>1 DEF Queued
  <2>3. QED
    BY <2>1, <2>2
<1>4. QED
  BY <1>2, <1>3 DEF NoWork, InProgress

(* A worker in the middle of an item, or an issuer that waits to write     *)
(* one, is counted.                                                        *)
LEMMA WorkIsCounted ==
  ASSUME PoolInv
  PROVE  InProgress # {} \/ Queued # {} \/ pc = "write" => numCurrentItems > 0
<1>1. Cardinality(InProgress) = 0 => InProgress = {}
  BY FiniteWork, FS_EmptySet
<1>2. Cardinality(Queued) = 0 => Queued = {}
  BY FiniteWork, FS_EmptySet
<1>3. QED
  BY <1>1, <1>2, FiniteWork DEF PoolInv, CountMatchesWork

(* Every step keeps the types: the count never goes below zero.            *)
LEMMA TypeStep == PoolInv /\ [Next]_vars => TypeOK'
<1> SUFFICES ASSUME PoolInv, [Next]_vars PROVE TypeOK'
  OBVIOUS
<1> USE WorkersAssumption, DepthAssumption, BatchAssumption, ClientAssumption DEF
       PoolInv, TypeOK, Items, poolvars, workervars, locals
<1>1. ASSUME NEW w \in Workers, WorkerRead(w) PROVE TypeOK'
  <2>1. Head(queue[w]) \in Items /\ Tail(queue[w]) \in Seq(Items)
    BY <1>1 DEF WorkerRead, ReadQueue
  <2>2. QED
    BY <1>1, <2>1 DEF WorkerRead, ReadQueue
<1>2. ASSUME NEW w \in Workers, WorkerExit(w) PROVE TypeOK'
  BY <1>2 DEF WorkerExit
<1>3. ASSUME NEW w \in Workers, WorkerRun(w) PROVE TypeOK'
  BY <1>3 DEF WorkerRun
<1>4. ASSUME NEW w \in Workers, WorkerFinish(w) PROVE TypeOK'
  <2>1. w \in InProgress
    BY <1>4 DEF WorkerFinish, InProgress
  <2>2. numCurrentItems - 1 \in Nat
    BY <2>1, WorkIsCounted
  <2>3. QED
    BY <1>4, <2>2 DEF WorkerFinish, NoneLeft
<1>5. ASSUME NEW m \in Items, StartBatch(m) PROVE TypeOK'
  BY <1>5 DEF StartBatch, PoolExists
<1>6. CASE IssueLock
  <2>1. 1 \in 0 .. MaxBatch + 1 /\ 0 \in 0 .. NumWorkers
    OBVIOUS
  <2>2. sem' \in {Client, None} /\ completed' \in BOOLEAN
    BY <1>6 DEF IssueLock, ResetCompleted
  <2>3. QED
    BY <1>6, <2>1, <2>2 DEF IssueLock
<1>7. CASE IssuePick
  <2>1. NextWorker(nextWorkerIndex) \in Workers
    BY DEF NextWorker, Workers
  <2>2. QED
    BY <1>7, <2>1 DEF IssuePick, LocalsInv
<1>8. CASE IssueWrite
  <2>1. i \in Items /\ i + 1 \in 0 .. MaxBatch + 1
    BY <1>8 DEF IssueWrite, LocalsInv
  <2>2. Append(queue[index], i) \in Seq(Items)
    BY <2>1
  <2>3. QED
    BY <1>8, <2>1, <2>2 DEF IssueWrite
<1>9. CASE IssueRefused
  <2>1. numCurrentItems - 1 \in Nat
    BY <1>9, WorkIsCounted DEF IssueRefused
  <2>2. QED
    BY <1>9, <2>1 DEF IssueRefused, Uncount
<1>10. CASE IssuePost
  BY <1>10 DEF IssuePost
<1>11. CASE Complete
  BY <1>11 DEF Complete, WaitEnds
<1>12. CASE Collect
  BY <1>12 DEF Collect
<1>13. CASE Release
  <2>1. 0 \in Workers
    BY DEF Workers
  <2>2. QED
    BY <1>13, <2>1 DEF Release
<1>14. CASE ReleasePop
  BY <1>14 DEF ReleasePop, PopQueue
<1>15. CASE ReleaseJoin
  <2>1. releaser' \in [at : {"no", "pop", "join", "done"}, w : Workers]
    <3>1. releaser.w \in Workers
          /\ (releaser.w + 1 < NumWorkers => releaser.w + 1 \in Workers)
      BY DEF Workers
    <3>2. QED
      BY <1>15, <3>1 DEF ReleaseJoin
  <2>2. QED
    BY <1>15, <2>1 DEF ReleaseJoin
<1>16. CASE UNCHANGED vars
  BY <1>16 DEF vars
<1>17. QED
  BY <1>1, <1>2, <1>3, <1>4, <1>5, <1>6, <1>7, <1>8, <1>9, <1>10, <1>11, <1>12, <1>13,
     <1>14, <1>15, <1>16
     DEF Next, WorkerStep, IssuerStep, ReleaserStep

(* Every step keeps the count in step with the work.                       *)
LEMMA CountStep == PoolInv /\ TypeOK' /\ [Next]_vars => CountMatchesWork'
<1> SUFFICES ASSUME PoolInv, TypeOK', [Next]_vars PROVE CountMatchesWork'
  OBVIOUS
<1> USE DEF PoolInv, poolvars, workervars, locals
<1>1. ASSUME NEW w \in Workers, WorkerRead(w) PROVE CountMatchesWork'
  <2>1. Cardinality(Queued') = Cardinality(Queued) - 1
    BY <1>1, ReadCounts DEF WorkerRead
  <2>2. InProgress' = InProgress \cup {w} /\ w \notin InProgress
    BY <1>1 DEF WorkerRead, InProgress, TypeOK
  <2>3. Cardinality(InProgress') = Cardinality(InProgress) + 1
    BY <2>2, FiniteWork, FS_AddElement
  <2>4. numCurrentItems' = numCurrentItems /\ pc' = pc
    BY <1>1 DEF WorkerRead
  <2>5. QED
    BY <2>1, <2>3, <2>4, FiniteWork DEF CountMatchesWork
<1>2. ASSUME NEW w \in Workers, WorkerExit(w) PROVE CountMatchesWork'
  <2>1. Queued' = Queued /\ InProgress' = InProgress
    BY <1>2 DEF WorkerExit, Queued, InProgress
  <2>2. QED
    BY <1>2, <2>1 DEF WorkerExit, CountMatchesWork
<1>3. ASSUME NEW w \in Workers, WorkerRun(w) PROVE CountMatchesWork'
  <2>1. Queued' = Queued /\ InProgress' = InProgress
    BY <1>3 DEF WorkerRun, Queued, InProgress
  <2>2. QED
    BY <1>3, <2>1 DEF WorkerRun, CountMatchesWork
<1>4. ASSUME NEW w \in Workers, WorkerFinish(w) PROVE CountMatchesWork'
  <2>1. Queued' = Queued
    BY <1>4 DEF WorkerFinish, Queued
  <2>2. InProgress' = InProgress \ {w} /\ w \in InProgress
    BY <1>4 DEF WorkerFinish, InProgress, TypeOK
  <2>3. Cardinality(InProgress') = Cardinality(InProgress) - 1
    BY <2>2, FiniteWork, FS_RemoveElement
  <2>4. numCurrentItems' = numCurrentItems - 1 /\ pc' = pc
    BY <1>4 DEF WorkerFinish
  <2>5. QED
    BY <2>1, <2>3, <2>4, FiniteWork DEF CountMatchesWork
<1>5. ASSUME NEW m \in Items, StartBatch(m) PROVE CountMatchesWork'
  <2>1. Queued' = Queued /\ InProgress' = InProgress
    BY <1>5 DEF StartBatch, PoolExists, Queued, InProgress
  <2>2. QED
    BY <1>5, <2>1 DEF StartBatch, PoolExists, CountMatchesWork
<1>6. CASE IssueLock
  <2>1. Queued' = Queued /\ InProgress' = InProgress
    BY <1>6 DEF IssueLock, ResetCompleted, Queued, InProgress
  <2>2. QED
    BY <1>6, <2>1 DEF IssueLock, ResetCompleted, CountMatchesWork
<1>7. CASE IssuePick
  <2>1. Queued' = Queued /\ InProgress' = InProgress
    BY <1>7 DEF IssuePick, NextWorker, Queued, InProgress
  <2>2. numCurrentItems' = numCurrentItems + 1 /\ pc # "write" /\ pc' = "write"
    BY <1>7 DEF IssuePick, NextWorker
  <2>3. QED
    BY <2>1, <2>2, FiniteWork DEF CountMatchesWork
<1>8. CASE IssueWrite
  <2>1. Cardinality(Queued') = Cardinality(Queued) + 1
    BY <1>8, WriteCounts
  <2>2. InProgress' = InProgress
    BY <1>8 DEF IssueWrite, InProgress
  <2>3. numCurrentItems' = numCurrentItems /\ pc = "write" /\ pc' # "write"
    BY <1>8 DEF IssueWrite
  <2>4. QED
    BY <2>1, <2>2, <2>3, FiniteWork DEF CountMatchesWork
<1>9. CASE IssueRefused
  <2>1. Queued' = Queued /\ InProgress' = InProgress
    BY <1>9 DEF IssueRefused, Uncount, Queued, InProgress
  <2>2. numCurrentItems' = numCurrentItems - 1 /\ pc = "write" /\ pc' # "write"
    BY <1>9 DEF IssueRefused, Uncount
  <2>3. QED
    BY <2>1, <2>2, FiniteWork DEF CountMatchesWork
<1>10. CASE IssuePost
  <2>1. Queued' = Queued /\ InProgress' = InProgress
    BY <1>10 DEF IssuePost, Queued, InProgress
  <2>2. QED
    BY <1>10, <2>1 DEF IssuePost, CountMatchesWork
<1>11. CASE Complete
  <2>1. Queued' = Queued /\ InProgress' = InProgress
    BY <1>11 DEF Complete, WaitEnds, Queued, InProgress
  <2>2. QED
    BY <1>11, <2>1 DEF Complete, WaitEnds, CountMatchesWork
<1>12. CASE Collect
  <2>1. Queued' = Queued /\ InProgress' = InProgress
    BY <1>12 DEF Collect, Queued, InProgress
  <2>2. QED
    BY <1>12, <2>1 DEF Collect, CountMatchesWork
<1>13. CASE Release
  <2>1. Queued' = Queued /\ InProgress' = InProgress
    BY <1>13 DEF Release, Queued, InProgress
  <2>2. QED
    BY <1>13, <2>1 DEF Release, CountMatchesWork
<1>14. CASE ReleasePop
  <2>1. Queued' = Queued /\ InProgress' = InProgress
    BY <1>14 DEF ReleasePop, PopQueue, Queued, InProgress
  <2>2. QED
    BY <1>14, <2>1 DEF ReleasePop, PopQueue, CountMatchesWork
<1>15. CASE ReleaseJoin
  <2>1. Queued' = Queued /\ InProgress' = InProgress
    BY <1>15 DEF ReleaseJoin, Queued, InProgress
  <2>2. QED
    BY <1>15, <2>1 DEF ReleaseJoin, CountMatchesWork
<1>16. CASE UNCHANGED vars
  <2>1. Queued' = Queued /\ InProgress' = InProgress
    BY <1>16 DEF vars, Queued, InProgress
  <2>2. QED
    BY <1>16, <2>1 DEF vars, CountMatchesWork
<1>17. QED
  BY <1>1, <1>2, <1>3, <1>4, <1>5, <1>6, <1>7, <1>8, <1>9, <1>10, <1>11, <1>12, <1>13,
     <1>14, <1>15, <1>16
     DEF Next, WorkerStep, IssuerStep, ReleaserStep

(* Every step keeps the issuer the holder of the semaphore while it        *)
(* issues, and the event down as long as there is work.                    *)
LEMMA LockStep == PoolInv /\ CountMatchesWork' /\ [Next]_vars => LockInv'
<1> SUFFICES ASSUME PoolInv, CountMatchesWork', [Next]_vars PROVE LockInv'
  OBVIOUS
<1> USE WorkersAssumption, DepthAssumption, BatchAssumption, ClientAssumption DEF
       PoolInv, TypeOK, LockInv, Issuing, poolvars, workervars, locals
<1>1. ASSUME NEW w \in Workers, WorkerRead(w) PROVE LockInv'
  BY <1>1 DEF WorkerRead, ReadQueue
<1>2. ASSUME NEW w \in Workers, WorkerExit(w) PROVE LockInv'
  BY <1>2 DEF WorkerExit
<1>3. ASSUME NEW w \in Workers, WorkerRun(w) PROVE LockInv'
  BY <1>3 DEF WorkerRun
<1>4. ASSUME NEW w \in Workers, WorkerFinish(w) PROVE LockInv'
  <2>1. numCurrentItems' \in Nat /\ numCurrentItems > 0
    <3>1. w \in InProgress
      BY <1>4 DEF WorkerFinish, InProgress
    <3>2. QED
      BY <3>1, WorkIsCounted DEF CountMatchesWork
  <2>2. QED
    BY <1>4, <2>1 DEF WorkerFinish, NoneLeft
<1>5. ASSUME NEW m \in Items, StartBatch(m) PROVE LockInv'
  BY <1>5 DEF StartBatch, PoolExists
<1>6. CASE IssueLock
  BY <1>6 DEF IssueLock, ResetCompleted
<1>7. CASE IssuePick
  BY <1>7 DEF IssuePick, NextWorker
<1>8. CASE IssueWrite
  BY <1>8 DEF IssueWrite
<1>9. CASE IssueRefused
  BY <1>9 DEF IssueRefused, Uncount
<1>10. CASE IssuePost
  BY <1>10 DEF IssuePost
<1>11. CASE Complete
  BY <1>11 DEF Complete, WaitEnds
<1>12. CASE Collect
  BY <1>12 DEF Collect
<1>13. CASE Release
  BY <1>13 DEF Release
<1>14. CASE ReleasePop
  BY <1>14 DEF ReleasePop, PopQueue
<1>15. CASE ReleaseJoin
  BY <1>15 DEF ReleaseJoin
<1>16. CASE UNCHANGED vars
  BY <1>16 DEF vars
<1>17. QED
  BY <1>1, <1>2, <1>3, <1>4, <1>5, <1>6, <1>7, <1>8, <1>9, <1>10, <1>11, <1>12, <1>13,
     <1>14, <1>15, <1>16
     DEF Next, WorkerStep, IssuerStep, ReleaserStep

(* Every step keeps the locals of the issuer.                              *)
LEMMA LocalsStep == PoolInv /\ [Next]_vars => LocalsInv'
<1> SUFFICES ASSUME PoolInv, [Next]_vars PROVE LocalsInv'
  OBVIOUS
<1> USE WorkersAssumption, DepthAssumption, BatchAssumption, ClientAssumption DEF
       PoolInv, TypeOK, LocalsInv, Items, poolvars, workervars, locals
<1>1. ASSUME NEW w \in Workers, WorkerRead(w) PROVE LocalsInv'
  BY <1>1 DEF WorkerRead, ReadQueue
<1>2. ASSUME NEW w \in Workers, WorkerExit(w) PROVE LocalsInv'
  BY <1>2 DEF WorkerExit
<1>3. ASSUME NEW w \in Workers, WorkerRun(w) PROVE LocalsInv'
  BY <1>3 DEF WorkerRun
<1>4. ASSUME NEW w \in Workers, WorkerFinish(w) PROVE LocalsInv'
  BY <1>4 DEF WorkerFinish, NoneLeft
<1>5. ASSUME NEW m \in Items, StartBatch(m) PROVE LocalsInv'
  BY <1>5 DEF StartBatch, PoolExists
<1>6. CASE IssueLock
  BY <1>6 DEF IssueLock, ResetCompleted
<1>7. CASE IssuePick
  BY <1>7 DEF IssuePick, NextWorker
<1>8. CASE IssueWrite
  BY <1>8 DEF IssueWrite
<1>9. CASE IssueRefused
  BY <1>9 DEF IssueRefused, Uncount
<1>10. CASE IssuePost
  BY <1>10 DEF IssuePost
<1>11. CASE Complete
  BY <1>11 DEF Complete, WaitEnds
<1>12. CASE Collect
  BY <1>12 DEF Collect
<1>13. CASE Release
  BY <1>13 DEF Release
<1>14. CASE ReleasePop
  BY <1>14 DEF ReleasePop, PopQueue
<1>15. CASE ReleaseJoin
  BY <1>15 DEF ReleaseJoin
<1>16. CASE UNCHANGED vars
  BY <1>16 DEF vars
<1>17. QED
  BY <1>1, <1>2, <1>3, <1>4, <1>5, <1>6, <1>7, <1>8, <1>9, <1>10, <1>11, <1>12, <1>13,
     <1>14, <1>15, <1>16
     DEF Next, WorkerStep, IssuerStep, ReleaserStep

(* Every step keeps the queues in their buffers: only the issuer writes,   *)
(* and it waits for room.                                                  *)
LEMMA WorkersStep == PoolInv /\ [Next]_vars => WorkersInv'
<1> SUFFICES ASSUME PoolInv, [Next]_vars PROVE WorkersInv'
  OBVIOUS
<1> USE WorkersAssumption, DepthAssumption, BatchAssumption, ClientAssumption DEF
       PoolInv, TypeOK, WorkersInv, poolvars, workervars, locals
<1>1. ASSUME NEW w \in Workers, WorkerRead(w) PROVE WorkersInv'
  <2>1. Head(queue[w]) \in Items /\ Len(Tail(queue[w])) <= Depth
    BY <1>1 DEF WorkerRead, ReadQueue
  <2>2. QED
    BY <1>1, <2>1 DEF WorkerRead, ReadQueue
<1>2. ASSUME NEW w \in Workers, WorkerExit(w) PROVE WorkersInv'
  BY <1>2 DEF WorkerExit
<1>3. ASSUME NEW w \in Workers, WorkerRun(w) PROVE WorkersInv'
  BY <1>3 DEF WorkerRun
<1>4. ASSUME NEW w \in Workers, WorkerFinish(w) PROVE WorkersInv'
  BY <1>4 DEF WorkerFinish, NoneLeft
<1>5. ASSUME NEW m \in Items, StartBatch(m) PROVE WorkersInv'
  BY <1>5 DEF StartBatch, PoolExists
<1>6. CASE IssueLock
  BY <1>6 DEF IssueLock, ResetCompleted
<1>7. CASE IssuePick
  BY <1>7 DEF IssuePick, NextWorker
<1>8. CASE IssueWrite
  <2>1. Len(Append(queue[index], i)) <= Depth
    BY <1>8 DEF IssueWrite
  <2>2. QED
    BY <1>8, <2>1 DEF IssueWrite
<1>9. CASE IssueRefused
  BY <1>9 DEF IssueRefused, Uncount
<1>10. CASE IssuePost
  BY <1>10 DEF IssuePost
<1>11. CASE Complete
  BY <1>11 DEF Complete, WaitEnds
<1>12. CASE Collect
  BY <1>12 DEF Collect
<1>13. CASE Release
  BY <1>13 DEF Release
<1>14. CASE ReleasePop
  BY <1>14 DEF ReleasePop, PopQueue
<1>15. CASE ReleaseJoin
  BY <1>15 DEF ReleaseJoin
<1>16. CASE UNCHANGED vars
  BY <1>16 DEF vars
<1>17. QED
  BY <1>1, <1>2, <1>3, <1>4, <1>5, <1>6, <1>7, <1>8, <1>9, <1>10, <1>11, <1>12, <1>13,
     <1>14, <1>15, <1>16
     DEF Next, WorkerStep, IssuerStep, ReleaserStep

(* No work, and nobody has the semaphore.                                  *)
LEMMA InitInv == Init => PoolInv /\ BatchInv
<1> SUFFICES ASSUME Init PROVE PoolInv /\ BatchInv
  OBVIOUS
<1> USE WorkersAssumption, DepthAssumption, BatchAssumption, ClientAssumption DEF Init
<1>1. TypeOK
  <2>1. /\ 0 \in Workers /\ 0 \in 0 .. MaxBatch
        /\ 0 \in 0 .. MaxBatch + 1 /\ 0 \in 0 .. NumWorkers
    BY DEF Workers
  <2>2. queue \in [Workers -> Seq(Items)]
    OBVIOUS
  <2>3. QED
    BY <2>1, <2>2 DEF TypeOK
<1>2. CountMatchesWork
  <2>1. Queued = {} /\ InProgress = {}
    BY DEF Queued, InProgress
  <2>2. QED
    BY <1>1, <2>1, FS_EmptySet DEF CountMatchesWork
<1>3. LockInv /\ LocalsInv /\ WorkersInv
  BY DEF LockInv, LocalsInv, WorkersInv, Issuing
<1>4. BatchInv
  BY DEF BatchInv, Issuing, NoWork, Releasing
<1>5. QED
  BY <1>1, <1>2, <1>3, <1>4 DEF PoolInv

(* The inductive invariant of the pool.                                    *)
THEOREM PoolIsCounted == Spec => []PoolInv
<1>1. PoolInv /\ [Next]_vars => PoolInv'
  BY TypeStep, CountStep, LockStep, LocalsStep, WorkersStep DEF PoolInv
<1>2. QED
  BY <1>1, InitInv, PTL DEF Spec

(* The completed event is never up while an item is queued or running.     *)
THEOREM EventMeansDone == Spec => []CompletedMeansDone
<1>1. PoolInv => CompletedMeansDone
  <2> SUFFICES ASSUME PoolInv PROVE CompletedMeansDone
    OBVIOUS
  <2>1. completed => NoWork /\ InProgress = {}
    BY ZeroMeansNone DEF PoolInv, LockInv
  <2>2. QED
    BY <2>1 DEF PoolInv, CompletedMeansDone, NoWork
<1>2. QED
  BY <1>1, PoolIsCounted, PTL

(* An item keeps its place in a step that touches neither the queues nor   *)
(* the workers.                                                            *)
LEMMA Unmoved ==
  ASSUME UNCHANGED <<queue, hold, wpc>>, NEW k
  PROVE  (Waiting(k)' <=> Waiting(k)) /\ (Running(k)' <=> Running(k))
  BY DEF Waiting, Running

(* An item that is taken from a queue is run by the worker that took it.   *)
LEMMA TakenIsRun ==
  ASSUME PoolInv, NEW w \in Workers, WorkerRead(w), NEW k, Waiting(k) \/ Running(k)
  PROVE  Waiting(k)' \/ Running(k)'
<1> USE DEF PoolInv, TypeOK, WorkerRead, ReadQueue
<1>1. CASE Running(k)
  BY <1>1 DEF Running
<1>2. ASSUME NEW v \in Workers, NEW j \in 1 .. Len(queue[v]), queue[v][j] = k
      PROVE  Waiting(k)' \/ Running(k)'
  <2>1. CASE v # w
    BY <1>2, <2>1 DEF Waiting
  <2>2. CASE v = w /\ j = 1
    <3>1. hold'[w] = k /\ wpc'[w] = "run"
      BY <1>2, <2>2
    <3>2. QED
      BY <3>1 DEF Running
  <2>3. CASE v = w /\ j # 1
    <3>1. /\ queue'[w] = Tail(queue[w]) /\ queue[w] \in Seq(Items)
          /\ j - 1 \in 1 .. Len(Tail(queue[w]))
      BY <2>3
    <3>2. queue'[w][j - 1] = k
      BY <1>2, <2>3, <3>1
    <3>3. QED
      BY <3>1, <3>2 DEF Waiting
  <2>4. QED
    BY <2>1, <2>2, <2>3
<1>3. QED
  BY <1>1, <1>2 DEF Waiting

(* An item that is written waits, and so do those that waited.             *)
LEMMA WrittenWaits ==
  ASSUME PoolInv, IssueWrite, NEW k, k = i \/ Waiting(k) \/ Running(k)
  PROVE  Waiting(k)' \/ Running(k)'
<1> USE DEF PoolInv, TypeOK, IssueWrite, workervars
<1>1. CASE Running(k)
  BY <1>1 DEF Running
<1>2. index \in Workers /\ queue[index] \in Seq(Items) /\ i \in Items
  BY BatchAssumption DEF LocalsInv, Items
<1>3. /\ Len(queue'[index]) = Len(queue[index]) + 1
      /\ \A j \in 1 .. Len(queue[index]) : queue'[index][j] = queue[index][j]
      /\ queue'[index][Len(queue[index]) + 1] = i
  BY <1>2
<1>4. CASE k = i
  BY <1>2, <1>3, <1>4 DEF Waiting
<1>5. CASE Waiting(k)
  <2>1. PICK v \in Workers : \E j \in 1 .. Len(queue[v]) : queue[v][j] = k
    BY <1>5 DEF Waiting
  <2>2. PICK j \in 1 .. Len(queue[v]) : queue[v][j] = k
    BY <2>1
  <2>3. j \in 1 .. Len(queue'[v]) /\ queue'[v][j] = k
    BY <1>2, <1>3, <2>2
  <2>4. QED
    BY <2>3 DEF Waiting
<1>6. QED
  BY <1>1, <1>4, <1>5

(* Every step keeps the items of the batch in view: none is lost between   *)
(* the queue, the worker and its action.                                   *)
LEMMA BatchStep == ~Spurious /\ PoolInv /\ BatchInv /\ [Next]_vars => BatchInv'
<1> SUFFICES ASSUME ~Spurious, PoolInv, BatchInv, [Next]_vars PROVE BatchInv'
  OBVIOUS
<1> USE SpuriousAssumption DEF PoolInv, TypeOK, BatchInv, Issuing, Done, Releasing,
       poolvars, workervars, locals
<1>1. ASSUME NEW w \in Workers, WorkerRead(w) PROVE BatchInv'
  <2>1. /\ action' = action /\ pc' = pc /\ i' = i /\ n' = n /\ wrote' = wrote
        /\ popped' = popped /\ releaser' = releaser
    BY <1>1 DEF WorkerRead
  <2>2. \A k : Waiting(k) \/ Running(k) => Waiting(k)' \/ Running(k)'
    BY <1>1, TakenIsRun
  <2>3. ~NoWork
    BY <1>1 DEF WorkerRead, ReadQueue, NoWork
  <2>4. QED
    BY <2>1, <2>2, <2>3
<1>2. ASSUME NEW w \in Workers, WorkerExit(w) PROVE BatchInv'
  <2>1. /\ action' = action /\ pc' = pc /\ i' = i /\ n' = n /\ wrote' = wrote
        /\ popped' = popped /\ releaser' = releaser
    BY <1>2 DEF WorkerExit
  <2>2. \A k : (Waiting(k)' <=> Waiting(k)) /\ (Running(k)' <=> Running(k))
    BY <1>2 DEF WorkerExit, Waiting, Running
  <2>3. NoWork => NoWork'
    BY <1>2 DEF WorkerExit, NoWork
  <2>4. QED
    BY <2>1, <2>2, <2>3
<1>3. ASSUME NEW w \in Workers, WorkerRun(w) PROVE BatchInv'
  <2>1. /\ pc' = pc /\ i' = i /\ n' = n /\ wrote' = wrote /\ popped' = popped
        /\ releaser' = releaser
    BY <1>3 DEF WorkerRun
  <2>2. hold[w] \in Items /\ \A k \in Items : (Done(k) \/ k = hold[w]) => Done(k)'
    BY <1>3 DEF WorkerRun, WorkersInv
  <2>3. \A k : (Waiting(k) => Waiting(k)') /\ (Running(k) /\ k # hold[w] => Running(k)')
    BY <1>3 DEF WorkerRun, Waiting, Running
  <2>4. ~NoWork
    BY <1>3 DEF WorkerRun, NoWork
  <2>5. /\ pc \in Issuing \cup {"complete"} => \A k \in 1 .. i - 1 : k \in Items
        /\ pc = "collect" => \A k \in 1 .. n : k \in Items
    BY BatchAssumption DEF Items
  <2>6. QED
    BY <2>1, <2>2, <2>3, <2>4, <2>5
<1>4. ASSUME NEW w \in Workers, WorkerFinish(w) PROVE BatchInv'
  <2>1. /\ action' = action /\ pc' = pc /\ i' = i /\ n' = n /\ wrote' = wrote
        /\ popped' = popped /\ releaser' = releaser
    BY <1>4 DEF WorkerFinish
  <2>2. \A k : (Waiting(k)' <=> Waiting(k)) /\ (Running(k)' <=> Running(k))
    BY <1>4 DEF WorkerFinish, Waiting, Running
  <2>3. NoWork => NoWork'
    BY <1>4 DEF WorkerFinish, NoWork
  <2>4. QED
    BY <2>1, <2>2, <2>3
<1>5. ASSUME NEW m \in Items, StartBatch(m) PROVE BatchInv'
  <2>1. \A k : (Waiting(k)' <=> Waiting(k)) /\ (Running(k)' <=> Running(k))
    BY <1>5, Unmoved DEF StartBatch, PoolExists
  <2>2. QED
    BY <1>5, <2>1 DEF NoWork, StartBatch, PoolExists
<1>6. CASE IssueLock
  <2>1. \A k : (Waiting(k)' <=> Waiting(k)) /\ (Running(k)' <=> Running(k))
    BY <1>6, Unmoved DEF IssueLock, ResetCompleted
  <2>2. QED
    BY <1>6, <2>1 DEF NoWork, IssueLock, ResetCompleted
<1>7. CASE IssuePick
  <2>1. \A k : (Waiting(k)' <=> Waiting(k)) /\ (Running(k)' <=> Running(k))
    BY <1>7, Unmoved DEF IssuePick, NextWorker
  <2>2. QED
    BY <1>7, <2>1 DEF IssuePick, NextWorker
<1>8. CASE IssueWrite
  <2>1. \A k : k = i \/ Waiting(k) \/ Running(k) => Waiting(k)' \/ Running(k)'
    BY <1>8, WrittenWaits
  <2>2. /\ action' = action /\ i' = i + 1 /\ popped' = popped /\ releaser' = releaser
        /\ pc' \in {"pick", "post"} /\ wrote'
    BY <1>8 DEF IssueWrite
  <2>3. \A k \in 1 .. i' - 1 : k \in 1 .. i - 1 \/ k = i
    BY <2>2
  <2>4. pc \in Issuing
    BY <1>8 DEF IssueWrite
  <2>5. QED
    BY <2>1, <2>2, <2>3, <2>4
<1>9. CASE IssueRefused
  <2>1. \A k : (Waiting(k)' <=> Waiting(k)) /\ (Running(k)' <=> Running(k))
    BY <1>9, Unmoved DEF IssueRefused, Uncount
  <2>2. QED
    BY <1>9, <2>1 DEF IssueRefused, Uncount
<1>10. CASE IssuePost
  <2>1. \A k : (Waiting(k)' <=> Waiting(k)) /\ (Running(k)' <=> Running(k))
    BY <1>10, Unmoved DEF IssuePost
  <2>2. QED
    BY <1>10, <2>1 DEF IssuePost
<1>11. CASE Complete
  <2>1. NoWork
    BY <1>11, ZeroMeansNone DEF Complete, WaitEnds, LockInv
  <2>2. \A k : ~Waiting(k) /\ ~Running(k)
    BY <2>1 DEF NoWork, Waiting, Running
  <2>3. \A k \in 1 .. n : Done(k)
    BY <1>11, <2>2 DEF Complete, LocalsInv
  <2>4. NoWork' /\ pc' = "collect" /\ \A k \in 1 .. n' : Done(k)'
    BY <1>11, <2>1, <2>3 DEF Complete, NoWork
  <2>5. popped' = popped /\ releaser' = releaser
    BY <1>11 DEF Complete
  <2>6. QED
    BY <2>4, <2>5
<1>12. CASE Collect
  <2>1. \A k : (Waiting(k)' <=> Waiting(k)) /\ (Running(k)' <=> Running(k))
    BY <1>12, Unmoved DEF Collect
  <2>2. QED
    BY <1>12, <2>1 DEF NoWork, Collect
<1>13. CASE Release
  <2>1. \A k : (Waiting(k)' <=> Waiting(k)) /\ (Running(k)' <=> Running(k))
    BY <1>13, Unmoved DEF Release
  <2>2. QED
    BY <1>13, <2>1 DEF NoWork, Release
<1>14. CASE ReleasePop
  <2>1. \A k : (Waiting(k)' <=> Waiting(k)) /\ (Running(k)' <=> Running(k))
    BY <1>14, Unmoved DEF ReleasePop, PopQueue
  <2>2. QED
    BY <1>14, <2>1 DEF NoWork, ReleasePop, PopQueue
<1>15. CASE ReleaseJoin
  <2>1. \A k : (Waiting(k)' <=> Waiting(k)) /\ (Running(k)' <=> Running(k))
    BY <1>15, Unmoved DEF ReleaseJoin
  <2>2. QED
    BY <1>15, <2>1 DEF NoWork, ReleaseJoin
<1>16. CASE UNCHANGED vars
  <2>1. \A k : (Waiting(k)' <=> Waiting(k)) /\ (Running(k)' <=> Running(k))
    BY <1>16, Unmoved DEF vars
  <2>2. QED
    BY <1>16, <2>1 DEF NoWork, vars
<1>17. QED
  BY <1>1, <1>2, <1>3, <1>4, <1>5, <1>6, <1>7, <1>8, <1>9, <1>10, <1>11, <1>12, <1>13,
     <1>14, <1>15, <1>16
     DEF Next, WorkerStep, IssuerStep, ReleaserStep

(* When no condition wait ends of itself, the issuer reads the actions of  *)
(* items that have all run, and between two batches nobody has a pointer   *)
(* to an item unless the context is being released.                        *)
THEOREM CollectedIsFinished ==
  ASSUME ~Spurious
  PROVE  Spec => []CollectsOnlyFinishedWork
<1>1. BatchInv /\ PoolInv /\ [Next]_vars => BatchInv'
  BY BatchStep
<1>2. BatchInv => CollectsOnlyFinishedWork
  BY DEF BatchInv, CollectsOnlyFinishedWork, NoWork, Done
<1>3. QED
  BY <1>1, <1>2, InitInv, PoolIsCounted, PTL DEF Spec

=============================================================================
