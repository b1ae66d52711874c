------------------------ MODULE GraphSchedule_proofs ------------------------
(***************************************************************************)
(* At most one execution uses the thread pool, for any number of threads,  *)
(* graphs and entries.  The counter is the number of threads between its   *)
(* two sections (a fact about a finite set that a thread joins or leaves), *)
(* so whoever reads it while another one executes reads at least two.      *)
(*                                                                         *)
(* With one application thread beside the graph thread, and until the      *)
(* first call of a queue fails: an entry of graph_queue has one owner, a   *)
(* waiter gets the result of its own graph, and a schedule is executed     *)
(* once; with an entry for each graph a lock is taken exactly while its    *)
(* graph has an entry.                                                     *)
(***************************************************************************)
EXTENDS GraphSchedule, FiniteSetTheorems, WellFoundedInduction, TLAPS

(* What a thread knows at its step: its graph and its entry.               *)
StepInv ==
  /\ \A t \in Threads :
       pc[t] \notin {"idle", "writeOutput"} => graph[t] \in Graphs
  /\ \A t \in Threads :
       pc[t] \in {"fill", "writeInput", "inspect", "clear", "putBack", "writeOutput"}
         => data[t] \in Slots
  /\ pc[GraphThread] # "idle" => data[GraphThread] \in Slots

IInv == OneExecutionUsesThePool /\ StepInv

Counted == {"readCount", "execute", "leave"}

-----------------------------------------------------------------------------
Less == {ss \in Nat \X Nat : ss[1] < ss[2]}

(* A search that finds an entry yields an entry.                           *)
LEMMA LowestIsSlot ==
  ASSUME NEW S \in SUBSET Slots, S # {}
  PROVE  Lowest(S) \in S
<1>1. S \subseteq Nat
  BY DEF Slots
<1>2. IsWellFoundedOn(Less, Nat)
  BY NatLessThanWellFounded DEF OpToRel, Less
<1>3. PICK q \in S : \A r \in S : ~ (<<r, q>> \in Less)
  BY <1>1, <1>2, WFMin
<1>4. \A r \in S : <<r, q>> \in Less <=> r < q
  BY <1>1 DEF Less
<1>5. \A r \in S : ~ (r < q)
  BY <1>3, <1>4
<1>6. \A r \in S : q <= r
  BY <1>1, <1>5
<1>7. QED
  BY <1>6 DEF Lowest

(* The threads are finitely many, and so are the counted ones.             *)
LEMMA InsideIsFinite ==
  /\ IsFiniteSet(Inside)
  /\ Cardinality(Inside) \in Nat /\ Cardinality(Threads) \in Nat
  /\ Cardinality(Inside) <= Cardinality(Threads)
<1>1. IsFiniteSet(Threads)
  BY ThreadsAssumption, FS_AddElement DEF Threads
<1>2. Inside \subseteq Threads
  BY DEF Inside
<1>3. QED
  BY <1>1, <1>2, FS_Subset, FS_CardinalityType

(* A thread that executes and another counted one are two.                 *)
LEMMA TwoInside ==
  ASSUME NEW t \in Inside, NEW u \in Inside, t # u
  PROVE  Cardinality(Inside) >= 2
<1>1. IsFiniteSet(Inside) /\ Cardinality(Inside) \in Nat
  BY InsideIsFinite
<1>2. Cardinality({t, u}) = 2 /\ IsFiniteSet({t, u})
  <2>1. Cardinality({t}) = 1 /\ IsFiniteSet({t})
    BY FS_Singleton
  <2>2. Cardinality({t} \cup {u}) = 2 /\ IsFiniteSet({t} \cup {u})
    BY <2>1, FS_AddElement
  <2>3. {t, u} = {t} \cup {u}
    OBVIOUS
  <2>4. QED
    BY <2>2, <2>3
<1>3. Cardinality({t, u}) <= Cardinality(Inside)
  BY <1>1, FS_Subset, {t, u} \subseteq Inside
<1>4. QED
  BY <1>1, <1>2, <1>3
-----------------------------------------------------------------------------
OneExecutionIsAlone == \A t, u \in Threads : Alone(t) /\ Alone(u) => t = u

(* A step of t on which it neither joins nor leaves the counted ones.      *)
Stays(t) ==
  /\ \A u \in Threads \ {t} : pc'[u] = pc[u] /\ depth'[u] = depth[u]
  /\ pc'[t] \in Counted <=> pc[t] \in Counted
  /\ pc'[t] # "execute"
  /\ count' = count

LEMMA StaysKeepsCount ==
  ASSUME OneExecutionUsesThePool, NEW t \in Threads, Stays(t)
  PROVE  count' = Cardinality(Inside') /\ OneExecutionIsAlone'
<1>1. Inside' = Inside
  BY DEF Inside, Counted, Stays
<1>2. OneExecutionIsAlone'
  <2>1. \A u \in Threads : Alone(u)' => Alone(u)
    BY DEF Alone, Stays
  <2>2. QED
    BY <2>1 DEF OneExecutionIsAlone, OneExecutionUsesThePool
<1>3. QED
  BY <1>1, <1>2 DEF OneExecutionUsesThePool, Stays

(* A thread that joins is counted.                                         *)
LEMMA EnterCounts ==
  ASSUME OneExecutionUsesThePool, NEW t \in Threads, Enter(t)
  PROVE  /\ count' = Cardinality(Inside') /\ OneExecutionIsAlone'
         /\ count' \in 0 .. Cardinality(Threads)
<1>1. Inside' = Inside \cup {t} /\ t \notin Inside
  BY DEF Inside, Enter, Goto, OneExecutionUsesThePool, TypeOK
<1>2. IsFiniteSet(Inside')
  BY <1>1, InsideIsFinite, FS_AddElement
<1>3. Cardinality(Inside') = Cardinality(Inside) + 1
  BY <1>1, InsideIsFinite, FS_AddElement
<1>4. count' = Cardinality(Inside')
  BY <1>3 DEF Enter, OneExecutionUsesThePool
<1>5. Cardinality(Inside') <= Cardinality(Threads)
  <2>1. IsFiniteSet(Threads)
    BY ThreadsAssumption, FS_AddElement DEF Threads
  <2>2. Inside' \subseteq Threads
    BY <1>1 DEF Inside
  <2>3. QED
    BY <2>1, <2>2, FS_Subset
<1>6. OneExecutionIsAlone'
  <2>1. \A u \in Threads : Alone(u)' => Alone(u)
    BY DEF Alone, Enter, Goto, OneExecutionUsesThePool, TypeOK
  <2>2. QED
    BY <2>1 DEF OneExecutionIsAlone, OneExecutionUsesThePool
<1>7. QED
  BY <1>3, <1>4, <1>5, <1>6, InsideIsFinite

(* One that leaves is not any more.                                        *)
LEMMA LeaveCounts ==
  ASSUME OneExecutionUsesThePool, NEW t \in Threads, Leave(t)
  PROVE  /\ count' = Cardinality(Inside') /\ OneExecutionIsAlone'
         /\ count' \in 0 .. Cardinality(Threads)
<1>1. Inside' = Inside \ {t} /\ t \in Inside
  BY DEF Inside, Leave, Goto, Return, OneExecutionUsesThePool, TypeOK
<1>2. Cardinality(Inside') = Cardinality(Inside) - 1
  BY <1>1, InsideIsFinite, FS_RemoveElement
<1>3. Cardinality(Inside) # 0
  BY <1>1, InsideIsFinite, FS_EmptySet
<1>4. OneExecutionIsAlone'
  <2>1. \A u \in Threads : Alone(u)' => Alone(u)
    BY DEF Alone, Leave, Goto, Return, OneExecutionUsesThePool, TypeOK
  <2>2. QED
    BY <2>1 DEF OneExecutionIsAlone, OneExecutionUsesThePool
<1>5. QED
  BY <1>2, <1>3, <1>4, InsideIsFinite
  DEF Leave, CountDown, OneExecutionUsesThePool

(* Whoever reads the counter while another thread is alone reads two.      *)
LEMMA ReadCountSeesTheOther ==
  ASSUME OneExecutionUsesThePool, NEW t \in Threads, ReadCount(t)
  PROVE  count' = Cardinality(Inside') /\ OneExecutionIsAlone'
<1>1. Inside' = Inside /\ t \in Inside
  BY DEF Inside, ReadCount, Goto, OneExecutionUsesThePool, TypeOK
<1>2. \A u \in Threads \ {t} : Alone(u)' <=> Alone(u)
  BY DEF Alone, ReadCount, Goto, OneExecutionUsesThePool, TypeOK
<1>3. \A u \in Threads \ {t} : Alone(u) => ~ Alone(t)'
  <2>1. SUFFICES ASSUME NEW u \in Threads \ {t}, Alone(u)
                 PROVE  ~ Alone(t)'
    OBVIOUS
  <2>2. u \in Inside
    BY <2>1 DEF Alone, Inside
  <2>3. Cardinality(Inside) >= 2
    BY <1>1, <2>2, TwoInside
  <2>4. depth'[t] = Cardinality(Inside)
    BY DEF ReadCount, OneExecutionUsesThePool, TypeOK
  <2>5. QED
    BY <2>3, <2>4, InsideIsFinite DEF Alone
<1>4. OneExecutionIsAlone'
  BY <1>2, <1>3 DEF OneExecutionIsAlone, OneExecutionUsesThePool
<1>5. QED
  BY <1>1, <1>4 DEF ReadCount, OneExecutionUsesThePool

-----------------------------------------------------------------------------
(* Each step keeps the invariant.                                          *)

(* A post of graph->lock stays within the bound of the model.              *)
LEMMA PostKeepsLock ==
  ASSUME IInv, NEW g \in Graphs, PostLock(g)
  PROVE  lock' \in [Graphs -> 0 .. MaxLock]
<1>1. lock[g] + 1 \in 0 .. MaxLock
  BY BoundsAssumption DEF PostLock, IInv, OneExecutionUsesThePool, TypeOK
<1>2. QED
  BY <1>1 DEF PostLock, IInv, OneExecutionUsesThePool, TypeOK

(* The entry vxScheduleGraph claims is one of the table.                   *)
LEMMA FreeEntryFound ==
  ASSUME OneExecutionUsesThePool, NEW a \in Threads, ClaimSlot(a)
  PROVE  data'[a] \in Slots
<1>1. DEFINE free == {q \in Slots : Holds(q, NoGraph)}
<1>2. free \in SUBSET Slots /\ free # {}
  BY DEF ClaimSlot
<1>3. Lowest(free) \in Slots
  BY <1>2, LowestIsSlot
<1>4. QED
  BY <1>3 DEF ClaimSlot, OneExecutionUsesThePool, TypeOK

(* A call of an application thread.                                        *)
LEMMA CallKeepsInv ==
  ASSUME IInv, NEW a \in Apps, NEW g \in Graphs, Call(a, g)
  PROVE  IInv'
<1>1. a \in Threads /\ 0 \in 0 .. Cardinality(Threads)
  BY InsideIsFinite DEF Threads
<1>2. CASE ScheduleLock(a, g)
  <2>1. TypeOK'
    BY <1>2, <1>1, BoundsAssumption
    DEF ScheduleLock, Goto, IInv, StepInv, OneExecutionUsesThePool, TypeOK,
        Statuses, Slots
  <2>2. StepInv'
    BY <1>2, ThreadsAssumption
    DEF ScheduleLock, Goto, IInv, StepInv, OneExecutionUsesThePool, TypeOK,
        Threads
  <2>3. Stays(a)
    BY <1>2, ThreadsAssumption
    DEF ScheduleLock, Goto, IInv, OneExecutionUsesThePool, TypeOK, Threads,
        Counted, Stays
  <2>4. QED
    BY <2>1, <2>2, <2>3, <1>1, StaysKeepsCount
    DEF IInv, OneExecutionUsesThePool, OneExecutionIsAlone
<1>3. CASE ScheduleRefused(a, g)
  <2>1. TypeOK'
    BY <1>3, <1>1, BoundsAssumption
    DEF ScheduleRefused, Return, Goto, IInv, StepInv, OneExecutionUsesThePool,
        TypeOK, Statuses, Slots
  <2>2. StepInv'
    BY <1>3, ThreadsAssumption
    DEF ScheduleRefused, Return, Goto, IInv, StepInv, OneExecutionUsesThePool,
        TypeOK, Threads
  <2>3. Stays(a)
    BY <1>3, ThreadsAssumption
    DEF ScheduleRefused, Return, Goto, IInv, OneExecutionUsesThePool, TypeOK,
        Threads, Counted, Stays
  <2>4. QED
    BY <2>1, <2>2, <2>3, <1>1, StaysKeepsCount
    DEF IInv, OneExecutionUsesThePool, OneExecutionIsAlone
<1>4. CASE WaitFree(a, g)
  <2>1. TypeOK'
    BY <1>4, <1>1, BoundsAssumption
    DEF WaitFree, Goto, IInv, StepInv, OneExecutionUsesThePool, TypeOK,
        Statuses, Slots
  <2>2. StepInv'
    BY <1>4, ThreadsAssumption
    DEF WaitFree, Goto, IInv, StepInv, OneExecutionUsesThePool, TypeOK, Threads
  <2>3. Stays(a)
    BY <1>4, ThreadsAssumption
    DEF WaitFree, Goto, IInv, OneExecutionUsesThePool, TypeOK, Threads,
        Counted, Stays
  <2>4. QED
    BY <2>1, <2>2, <2>3, <1>1, StaysKeepsCount
    DEF IInv, OneExecutionUsesThePool, OneExecutionIsAlone
<1>5. CASE WaitLocked(a, g)
  <2>1. TypeOK'
    BY <1>5, <1>1, BoundsAssumption
    DEF WaitLocked, Goto, IInv, StepInv, OneExecutionUsesThePool, TypeOK,
        Statuses, Slots
  <2>2. StepInv'
    BY <1>5, ThreadsAssumption
    DEF WaitLocked, Goto, IInv, StepInv, OneExecutionUsesThePool, TypeOK,
        Threads
  <2>3. Stays(a)
    BY <1>5, ThreadsAssumption
    DEF WaitLocked, Goto, IInv, OneExecutionUsesThePool, TypeOK, Threads,
        Counted, Stays
  <2>4. QED
    BY <2>1, <2>2, <2>3, <1>1, StaysKeepsCount
    DEF IInv, OneExecutionUsesThePool, OneExecutionIsAlone
<1>6. CASE CallProcess(a, g)
  <2>1. TypeOK'
    BY <1>6, <1>1, BoundsAssumption
    DEF CallProcess, Goto, IInv, StepInv, OneExecutionUsesThePool, TypeOK,
        Statuses, Slots
  <2>2. StepInv'
    BY <1>6, ThreadsAssumption
    DEF CallProcess, Goto, IInv, StepInv, OneExecutionUsesThePool, TypeOK,
        Threads
  <2>3. Stays(a)
    BY <1>6, ThreadsAssumption
    DEF CallProcess, Goto, IInv, OneExecutionUsesThePool, TypeOK, Threads,
        Counted, Stays
  <2>4. QED
    BY <2>1, <2>2, <2>3, <1>1, StaysKeepsCount
    DEF IInv, OneExecutionUsesThePool, OneExecutionIsAlone
<1>7. QED
  BY <1>2, <1>3, <1>4, <1>5, <1>6 DEF Call

(* A step of vxScheduleGraph or vxWaitGraph.                               *)
LEMMA AppStepKeepsInv ==
  ASSUME IInv, NEW a \in Apps, AppWorks(a) \/ AppFails(a)
  PROVE  IInv'
<1>1. a \in Threads /\ 0 \in 0 .. Cardinality(Threads)
  BY InsideIsFinite DEF Threads
<1>2. CASE ClaimSlot(a)
  <2>1. data'[a] \in Slots
    BY <1>2, <1>1, FreeEntryFound DEF IInv
  <2>2. TypeOK'
    BY <1>2, <1>1, <2>1, BoundsAssumption
    DEF ClaimSlot, Goto, IInv, StepInv, OneExecutionUsesThePool, TypeOK,
        Statuses, Slots
  <2>3. StepInv'
    BY <1>2, <2>1, ThreadsAssumption
    DEF ClaimSlot, Goto, IInv, StepInv, OneExecutionUsesThePool, TypeOK,
        Threads
  <2>4. Stays(a)
    BY <1>2, ThreadsAssumption, <2>1
    DEF ClaimSlot, Goto, IInv, OneExecutionUsesThePool, TypeOK, Threads,
        Counted, Stays
  <2>5. QED
    BY <2>2, <2>3, <2>4, <1>1, StaysKeepsCount
    DEF IInv, OneExecutionUsesThePool, OneExecutionIsAlone
<1>3. CASE NoSlot(a)
  <2>1. TypeOK'
    BY <1>3, <1>1, BoundsAssumption
    DEF NoSlot, Return, Goto, IInv, StepInv, OneExecutionUsesThePool, TypeOK,
        Statuses, Slots
  <2>2. StepInv'
    BY <1>3, ThreadsAssumption
    DEF NoSlot, Return, Goto, IInv, StepInv, OneExecutionUsesThePool, TypeOK,
        Threads
  <2>3. Stays(a)
    BY <1>3, ThreadsAssumption
    DEF NoSlot, Return, Goto, IInv, OneExecutionUsesThePool, TypeOK, Threads,
        Counted, Stays
  <2>4. QED
    BY <2>1, <2>2, <2>3, <1>1, StaysKeepsCount
    DEF IInv, OneExecutionUsesThePool, OneExecutionIsAlone
<1>4. CASE FillSlot(a)
  <2>1. TypeOK'
    BY <1>4, <1>1, BoundsAssumption
    DEF FillSlot, Goto, IInv, StepInv, OneExecutionUsesThePool, TypeOK,
        Statuses, Slots
  <2>2. StepInv'
    BY <1>4, ThreadsAssumption
    DEF FillSlot, Goto, IInv, StepInv, OneExecutionUsesThePool, TypeOK, Threads
  <2>3. Stays(a)
    BY <1>4, ThreadsAssumption
    DEF FillSlot, Goto, IInv, OneExecutionUsesThePool, TypeOK, Threads,
        Counted, Stays
  <2>4. QED
    BY <2>1, <2>2, <2>3, <1>1, StaysKeepsCount
    DEF IInv, OneExecutionUsesThePool, OneExecutionIsAlone
<1>5. CASE WriteInput(a)
  <2>1. TypeOK'
    BY <1>5, <1>1, BoundsAssumption
    DEF WriteInput, Return, Goto, IInv, StepInv, OneExecutionUsesThePool,
        TypeOK, Statuses, Slots
  <2>2. StepInv'
    BY <1>5, ThreadsAssumption
    DEF WriteInput, Return, Goto, IInv, StepInv, OneExecutionUsesThePool,
        TypeOK, Threads
  <2>3. Stays(a)
    BY <1>5, ThreadsAssumption
    DEF WriteInput, Return, Goto, IInv, OneExecutionUsesThePool, TypeOK,
        Threads, Counted, Stays
  <2>4. QED
    BY <2>1, <2>2, <2>3, <1>1, StaysKeepsCount
    DEF IInv, OneExecutionUsesThePool, OneExecutionIsAlone
<1>6. CASE WriteInputFails(a)
  <2>1. lock' \in [Graphs -> 0 .. MaxLock]
    BY <1>6, <1>1, PostKeepsLock DEF WriteInputFails, IInv, StepInv
  <2>2. TypeOK'
    BY <1>6, <1>1, <2>1, BoundsAssumption
    DEF WriteInputFails, QueueFails, Return, Goto, IInv, StepInv,
        OneExecutionUsesThePool, TypeOK, Statuses, Slots
  <2>3. StepInv'
    BY <1>6, <2>1, ThreadsAssumption
    DEF WriteInputFails, QueueFails, Return, Goto, IInv, StepInv,
        OneExecutionUsesThePool, TypeOK, Threads
  <2>4. Stays(a)
    BY <1>6, ThreadsAssumption, <2>1
    DEF WriteInputFails, QueueFails, Return, Goto, IInv,
        OneExecutionUsesThePool, TypeOK, Threads, Counted, Stays
  <2>5. QED
    BY <2>2, <2>3, <2>4, <1>1, StaysKeepsCount
    DEF IInv, OneExecutionUsesThePool, OneExecutionIsAlone
<1>7. CASE ReadOutput(a)
  <2>1. Head(output) \in Slots /\ output' \in Seq(Slots)
    BY <1>7 DEF ReadOutput, IInv, OneExecutionUsesThePool, TypeOK
  <2>2. TypeOK'
    BY <1>7, <1>1, <2>1, BoundsAssumption
    DEF ReadOutput, Goto, IInv, StepInv, OneExecutionUsesThePool, TypeOK,
        Statuses, Slots
  <2>3. StepInv'
    BY <1>7, <2>1, ThreadsAssumption
    DEF ReadOutput, Goto, IInv, StepInv, OneExecutionUsesThePool, TypeOK,
        Threads
  <2>4. Stays(a)
    BY <1>7, ThreadsAssumption, <2>1
    DEF ReadOutput, Goto, IInv, OneExecutionUsesThePool, TypeOK, Threads,
        Counted, Stays
  <2>5. QED
    BY <2>2, <2>3, <2>4, <1>1, StaysKeepsCount
    DEF IInv, OneExecutionUsesThePool, OneExecutionIsAlone
<1>8. CASE ReadOutputFails(a)
  <2>1. TypeOK'
    BY <1>8, <1>1, BoundsAssumption
    DEF ReadOutputFails, QueueFails, Goto, IInv, StepInv,
        OneExecutionUsesThePool, TypeOK, Statuses, Slots
  <2>2. StepInv'
    BY <1>8, ThreadsAssumption
    DEF ReadOutputFails, QueueFails, Goto, IInv, StepInv,
        OneExecutionUsesThePool, TypeOK, Threads
  <2>3. Stays(a)
    BY <1>8, ThreadsAssumption
    DEF ReadOutputFails, QueueFails, Goto, IInv, OneExecutionUsesThePool,
        TypeOK, Threads, Counted, Stays
  <2>4. QED
    BY <2>1, <2>2, <2>3, <1>1, StaysKeepsCount
    DEF IInv, OneExecutionUsesThePool, OneExecutionIsAlone
<1>9. CASE Inspect(a)
  <2>1. TypeOK'
    BY <1>9, <1>1, BoundsAssumption
    DEF Inspect, Goto, IInv, StepInv, OneExecutionUsesThePool, TypeOK,
        Statuses, Slots
  <2>2. StepInv'
    BY <1>9, ThreadsAssumption
    DEF Inspect, Goto, IInv, StepInv, OneExecutionUsesThePool, TypeOK, Threads
  <2>3. Stays(a)
    BY <1>9, ThreadsAssumption
    DEF Inspect, Goto, IInv, OneExecutionUsesThePool, TypeOK, Threads, Counted,
        Stays
  <2>4. QED
    BY <2>1, <2>2, <2>3, <1>1, StaysKeepsCount
    DEF IInv, OneExecutionUsesThePool, OneExecutionIsAlone
<1>10. CASE ClearSlot(a)
  <2>1. TypeOK'
    <3>1. graph_queue \in [Slots -> [g : Graphs \cup {NoGraph}, s : Statuses]]
      BY DEF IInv, OneExecutionUsesThePool, TypeOK
    <3>2. \/ graph_queue' = graph_queue
          \/ \E q \in Slots : graph_queue' = [graph_queue EXCEPT ![q].g = NoGraph]
      <4>1. CASE {q \in Slots : Holds(q, graph[a])} = {}
        BY <1>10, <4>1 DEF ClearSlot, Free
      <4>2. CASE {q \in Slots : Holds(q, graph[a])} # {}
        <5>1. Lowest({q \in Slots : Holds(q, graph[a])}) \in Slots
          BY <4>2, LowestIsSlot
        <5>2. QED
          BY <1>10, <4>2, <5>1 DEF ClearSlot, Free
      <4>3. QED
        BY <4>1, <4>2
    <3>3. ASSUME NEW q \in Slots
          PROVE  [graph_queue EXCEPT ![q].g = NoGraph]
                   \in [Slots -> [g : Graphs \cup {NoGraph}, s : Statuses]]
      BY <3>1
    <3>4. graph_queue' \in [Slots -> [g : Graphs \cup {NoGraph}, s : Statuses]]
      BY <3>1, <3>2, <3>3
    <3>5. QED
      BY <1>10, <1>1, <3>4 DEF ClearSlot, Goto, IInv, OneExecutionUsesThePool, TypeOK
  <2>2. StepInv'
    BY <1>10, LowestIsSlot, ThreadsAssumption
    DEF ClearSlot, Free, Holds, Goto, IInv, StepInv, OneExecutionUsesThePool,
        TypeOK, Threads
  <2>3. Stays(a)
    BY <1>10, ThreadsAssumption
    DEF ClearSlot, Free, Holds, Goto, IInv, OneExecutionUsesThePool, TypeOK,
        Threads, Counted, Stays
  <2>4. QED
    BY <2>1, <2>2, <2>3, <1>1, StaysKeepsCount
    DEF IInv, OneExecutionUsesThePool, OneExecutionIsAlone
<1>11. CASE PutBack(a)
  <2>1. TypeOK'
    BY <1>11, <1>1, BoundsAssumption
    DEF PutBack, PutOutput, Goto, IInv, StepInv, OneExecutionUsesThePool,
        TypeOK, Statuses, Slots
  <2>2. StepInv'
    BY <1>11, ThreadsAssumption
    DEF PutBack, PutOutput, Goto, IInv, StepInv, OneExecutionUsesThePool,
        TypeOK, Threads
  <2>3. Stays(a)
    BY <1>11, ThreadsAssumption
    DEF PutBack, PutOutput, Goto, IInv, OneExecutionUsesThePool, TypeOK,
        Threads, Counted, Stays
  <2>4. QED
    BY <2>1, <2>2, <2>3, <1>1, StaysKeepsCount
    DEF IInv, OneExecutionUsesThePool, OneExecutionIsAlone
<1>12. CASE PutBackFails(a)
  <2>1. TypeOK'
    BY <1>12, <1>1, BoundsAssumption
    DEF PutBackFails, QueueFails, Goto, IInv, StepInv, OneExecutionUsesThePool,
        TypeOK, Statuses, Slots
  <2>2. StepInv'
    BY <1>12, ThreadsAssumption
    DEF PutBackFails, QueueFails, Goto, IInv, StepInv, OneExecutionUsesThePool,
        TypeOK, Threads
  <2>3. Stays(a)
    BY <1>12, ThreadsAssumption
    DEF PutBackFails, QueueFails, Goto, IInv, OneExecutionUsesThePool, TypeOK,
        Threads, Counted, Stays
  <2>4. QED
    BY <2>1, <2>2, <2>3, <1>1, StaysKeepsCount
    DEF IInv, OneExecutionUsesThePool, OneExecutionIsAlone
<1>13. CASE WaitPost(a)
  <2>1. lock' \in [Graphs -> 0 .. MaxLock]
    BY <1>13, <1>1, PostKeepsLock DEF WaitPost, IInv, StepInv
  <2>2. TypeOK'
    BY <1>13, <1>1, <2>1, BoundsAssumption
    DEF WaitPost, Return, Goto, IInv, StepInv, OneExecutionUsesThePool, TypeOK,
        Statuses, Slots
  <2>3. StepInv'
    BY <1>13, <2>1, ThreadsAssumption
    DEF WaitPost, Return, Goto, IInv, StepInv, OneExecutionUsesThePool, TypeOK,
        Threads
  <2>4. Stays(a)
    BY <1>13, ThreadsAssumption, <2>1
    DEF WaitPost, Return, Goto, IInv, OneExecutionUsesThePool, TypeOK, Threads,
        Counted, Stays
  <2>5. QED
    BY <2>2, <2>3, <2>4, <1>1, StaysKeepsCount
    DEF IInv, OneExecutionUsesThePool, OneExecutionIsAlone
<1>14. QED
  BY <1>2, <1>3, <1>4, <1>5, <1>6, <1>7, <1>8, <1>9, <1>10, <1>11, <1>12, <1>13
  DEF AppWorks, AppFails

(* A step of vxProcessGraph, by any thread.                                *)
LEMMA ProcessStepKeepsInv ==
  ASSUME IInv, NEW a \in Threads, ProcessStep(a)
  PROVE  IInv'
<1>1. 0 \in 0 .. Cardinality(Threads)
  BY InsideIsFinite
<1>2. CASE Enter(a)
  <2>1. /\ count' = Cardinality(Inside') /\ OneExecutionIsAlone'
        /\ count' \in 0 .. Cardinality(Threads)
    BY <1>2, EnterCounts DEF IInv
  <2>2. TypeOK'
    BY <1>2, <1>1, <2>1
    DEF Enter, Goto, IInv, OneExecutionUsesThePool, TypeOK, Statuses
  <2>3. StepInv'
    BY <1>2, ThreadsAssumption
    DEF Enter, Goto, IInv, StepInv, OneExecutionUsesThePool, TypeOK, Threads
  <2>4. QED
    BY <2>1, <2>2, <2>3 DEF IInv, OneExecutionUsesThePool, OneExecutionIsAlone
<1>3. CASE ReadCount(a)
  <2>1. /\ count' = Cardinality(Inside') /\ OneExecutionIsAlone'
    BY <1>3, ReadCountSeesTheOther DEF IInv
  <2>2. TypeOK'
    BY <1>3, <1>1, <2>1
    DEF ReadCount, Goto, IInv, OneExecutionUsesThePool, TypeOK, Statuses
  <2>3. StepInv'
    BY <1>3, ThreadsAssumption
    DEF ReadCount, Goto, IInv, StepInv, OneExecutionUsesThePool, TypeOK,
        Threads
  <2>4. QED
    BY <2>1, <2>2, <2>3 DEF IInv, OneExecutionUsesThePool, OneExecutionIsAlone
<1>4. CASE Execute(a)
  <2>1. TypeOK'
    BY <1>4, <1>1, BoundsAssumption
    DEF Execute, Outcomes, Goto, IInv, StepInv, OneExecutionUsesThePool,
        TypeOK, Statuses, Slots
  <2>2. StepInv'
    BY <1>4, ThreadsAssumption
    DEF Execute, Outcomes, Goto, IInv, StepInv, OneExecutionUsesThePool,
        TypeOK, Threads
  <2>3. Stays(a)
    BY <1>4, ThreadsAssumption
    DEF Execute, Outcomes, Goto, IInv, OneExecutionUsesThePool, TypeOK,
        Threads, Counted, Stays
  <2>4. QED
    BY <2>1, <2>2, <2>3, <1>1, StaysKeepsCount
    DEF IInv, OneExecutionUsesThePool, OneExecutionIsAlone
<1>5. CASE Leave(a)
  <2>1. /\ count' = Cardinality(Inside') /\ OneExecutionIsAlone'
        /\ count' \in 0 .. Cardinality(Threads)
    BY <1>5, LeaveCounts DEF IInv
  <2>2. TypeOK'
    <3>1. CASE a = GraphThread
      BY <1>5, <1>1, <2>1, <3>1
      DEF Leave, Goto, IInv, OneExecutionUsesThePool, TypeOK
    <3>2. CASE a # GraphThread
      <4>1. /\ pc' = [pc EXCEPT ![a] = "idle"]
            /\ graph' = [graph EXCEPT ![a] = NoGraph]
            /\ data' = [data EXCEPT ![a] = 0] /\ depth' = [depth EXCEPT ![a] = 0]
            /\ status' = [status EXCEPT ![a] = status[a]]
            /\ UNCHANGED <<lock, graph_queue, input, output, ran, failures>>
        BY <1>5, <3>2 DEF Leave, Return, Goto
      <4>2. TypeOK /\ 0 \in 0 .. Cardinality(Threads)
        BY InsideIsFinite DEF IInv, OneExecutionUsesThePool, TypeOK
      <4>3. QED
        BY <1>1, <2>1, <4>1, <4>2 DEF TypeOK
    <3>3. QED
      BY <3>1, <3>2
  <2>3. StepInv'
    <3>1. CASE a = GraphThread
      BY <1>5, <3>1, ThreadsAssumption
      DEF Leave, Goto, IInv, StepInv, OneExecutionUsesThePool, TypeOK, Threads
    <3>2. CASE a # GraphThread
      <4>1. /\ pc' = [pc EXCEPT ![a] = "idle"]
            /\ graph' = [graph EXCEPT ![a] = NoGraph]
            /\ data' = [data EXCEPT ![a] = 0]
        BY <1>5, <3>2 DEF Leave, Return, Goto
      <4>2. TypeOK /\ StepInv /\ GraphThread \in Threads
        BY DEF IInv, OneExecutionUsesThePool, Threads
      <4>3. QED
        BY <3>2, <4>1, <4>2, <1>1 DEF StepInv, TypeOK
    <3>3. QED
      BY <3>1, <3>2
  <2>4. QED
    BY <2>1, <2>2, <2>3 DEF IInv, OneExecutionUsesThePool, OneExecutionIsAlone
<1>6. QED
  BY <1>2, <1>3, <1>4, <1>5 DEF ProcessStep

(* A step of vxWorkerGraph.                                                *)
LEMMA GraphThreadStepKeepsInv ==
  ASSUME IInv, GraphThreadWorks \/ WriteOutputFails
  PROVE  IInv'
<1>1. GraphThread \in Threads /\ 0 \in 0 .. Cardinality(Threads)
  BY InsideIsFinite DEF Threads
<1>2. CASE ReadInput
  <2>1. /\ Head(input) \in Slots /\ input' \in Seq(Slots)
        /\ graph_queue[Head(input)].g \in Graphs \cup {NoGraph}
    BY <1>2 DEF ReadInput, TakeInput, IInv, OneExecutionUsesThePool, TypeOK
  <2>2. TypeOK'
    BY <1>2, <1>1, <2>1, BoundsAssumption
    DEF ReadInput, Goto, IInv, StepInv, OneExecutionUsesThePool, TypeOK,
        Statuses, Slots
  <2>3. StepInv'
    BY <1>2, <2>1, ThreadsAssumption
    DEF ReadInput, Goto, IInv, StepInv, OneExecutionUsesThePool, TypeOK,
        Threads
  <2>4. Stays(GraphThread)
    BY <1>2, ThreadsAssumption, <2>1
    DEF ReadInput, Goto, IInv, OneExecutionUsesThePool, TypeOK, Threads,
        Counted, Stays
  <2>5. QED
    BY <2>2, <2>3, <2>4, <1>1, StaysKeepsCount
    DEF IInv, OneExecutionUsesThePool, OneExecutionIsAlone
<1>3. CASE WriteOutput
  <2>1. TypeOK'
    BY <1>3, <1>1, BoundsAssumption
    DEF WriteOutput, StoreResult, PutOutput, Return, Goto, IInv, StepInv,
        OneExecutionUsesThePool, TypeOK, Statuses, Slots
  <2>2. StepInv'
    BY <1>3, ThreadsAssumption
    DEF WriteOutput, StoreResult, PutOutput, Return, Goto, IInv, StepInv,
        OneExecutionUsesThePool, TypeOK, Threads
  <2>3. Stays(GraphThread)
    BY <1>3, ThreadsAssumption
    DEF WriteOutput, StoreResult, PutOutput, Return, Goto, IInv,
        OneExecutionUsesThePool, TypeOK, Threads, Counted, Stays
  <2>4. QED
    BY <2>1, <2>2, <2>3, <1>1, StaysKeepsCount
    DEF IInv, OneExecutionUsesThePool, OneExecutionIsAlone
<1>4. CASE WriteOutputFails
  <2>1. TypeOK'
    BY <1>4, <1>1, BoundsAssumption
    DEF WriteOutputFails, StoreResult, QueueFails, Return, Goto, IInv, StepInv,
        OneExecutionUsesThePool, TypeOK, Statuses, Slots
  <2>2. StepInv'
    BY <1>4, ThreadsAssumption
    DEF WriteOutputFails, StoreResult, QueueFails, Return, Goto, IInv, StepInv,
        OneExecutionUsesThePool, TypeOK, Threads
  <2>3. Stays(GraphThread)
    BY <1>4, ThreadsAssumption
    DEF WriteOutputFails, StoreResult, QueueFails, Return, Goto, IInv,
        OneExecutionUsesThePool, TypeOK, Threads, Counted, Stays
  <2>4. QED
    BY <2>1, <2>2, <2>3, <1>1, StaysKeepsCount
    DEF IInv, OneExecutionUsesThePool, OneExecutionIsAlone
<1>5. CASE ProcessStep(GraphThread)
  BY <1>5, ProcessStepKeepsInv DEF Threads
<1>6. QED
  BY <1>2, <1>3, <1>4, <1>5 DEF GraphThreadWorks

(* Nothing is counted at first.                                            *)
LEMMA InitInv == Init => IInv
<1>1. SUFFICES ASSUME Init
               PROVE  IInv
  OBVIOUS
<1>2. Inside = {}
  BY <1>1 DEF Init, Inside
<1>3. Cardinality(Inside) = 0
  BY <1>2, FS_EmptySet
<1>4. TypeOK
  BY <1>1, InsideIsFinite, BoundsAssumption DEF Init, TypeOK, Statuses
<1>5. StepInv
  BY <1>1, ThreadsAssumption DEF Init, StepInv, Threads
<1>6. QED
  BY <1>1, <1>3, <1>4, <1>5 DEF Init, Alone, IInv, OneExecutionUsesThePool

LEMMA StepInvariant == IInv /\ [Next]_vars => IInv'
<1>1. SUFFICES ASSUME IInv, [Next]_vars
               PROVE  IInv'
  OBVIOUS
<1>2. CASE \E a \in Apps, g \in Graphs : Call(a, g)
  BY <1>1, <1>2, CallKeepsInv
<1>3. CASE \E a \in Apps : AppWorks(a) \/ AppFails(a) \/ ProcessStep(a)
  BY <1>1, <1>3, AppStepKeepsInv, ProcessStepKeepsInv DEF Threads
<1>4. CASE GraphThreadWorks \/ WriteOutputFails
  BY <1>1, <1>4, GraphThreadStepKeepsInv
<1>5. CASE UNCHANGED vars
  <2>1. Inside' = Inside
    BY <1>5 DEF vars, Inside
  <2>2. QED
    BY <1>1, <1>5, <2>1
    DEF vars, IInv, StepInv, OneExecutionUsesThePool, TypeOK, Alone
<1>6. QED
  BY <1>1, <1>2, <1>3, <1>4, <1>5 DEF Next

(* However many threads process graphs, and whether or not queue calls     *)
(* fail, at most one execution at a time counts itself the only one and    *)
(* takes the thread pool of the context.                                   *)
THEOREM OnePoolUser == Spec => []OneExecutionUsesThePool
<1>1. IInv => OneExecutionUsesThePool
  BY DEF IInv
<1>2. QED
  BY <1>1, InitInv, StepInvariant, PTL DEF Spec

-----------------------------------------------------------------------------
(* Entries and results, while no queue call has failed and one application *)
(* thread makes the calls (OneCaller): two could claim the same entry,     *)
(* which nothing marks before the lock is posted.  An entry that holds a   *)
(* graph is in one queue or one hand (OwnerInv), no other entry holds that *)
(* graph, whose lock is taken (EntryInv), and the graph was executed since *)
(* it was put there if and only if the entry is on its way back (RanInv).  *)

OneCaller == \A a, b \in Apps : a = b

(* There is an entry for every graph: vxScheduleGraph never finds the      *)
(* table full, which would leave the lock of its graph taken.              *)
EnoughEntries == IsFiniteSet(Graphs) /\ Cardinality(Graphs) <= NumSlots

On(s, q) == \E k \in 1 .. Len(s) : s[k] = q
Single(s) == \A j, k \in 1 .. Len(s) : s[j] = s[k] => j = k

(* Where the graph thread can be. *)
GraphSteps == {"idle", "enter", "readCount", "execute", "leave", "writeOutput"}

(* A thread has a pointer to an entry in hand. *)
InHand(t) ==
  \/ pc[t] \in {"fill", "writeInput", "inspect", "clear", "putBack"}
  \/ t = GraphThread /\ pc[t] # "idle"

Queued(q) == On(input, q) \/ On(output, q)

OwnerInv ==
  /\ Single(input) /\ Single(output)
  /\ \A q \in Slots : ~ (On(input, q) /\ On(output, q))
  /\ \A t \in Threads : InHand(t) => ~Queued(data[t])
  /\ \A t, u \in Threads : t # u /\ InHand(t) /\ InHand(u) => data[t] # data[u]
  /\ \A q \in Slots : Holds(q, NoGraph) =>
       ~Queued(q) /\ \A t \in Threads : InHand(t) /\ data[t] = q => pc[t] = "fill"
  /\ \A q \in Slots : ~Holds(q, NoGraph) =>
       Queued(q) \/ \E t \in Threads : InHand(t) /\ data[t] = q /\ pc[t] # "fill"
  /\ pc[GraphThread] \in GraphSteps

(* Where a thread has the lock of its graph, and where no entry holds the  *)
(* graph yet or any more.                                                  *)
Locking == {"claim", "fill", "writeInput", "readOutput", "inspect", "clear", "putBack",
            "waitPost"}
Without == {"claim", "fill", "waitPost"}

EntryInv ==
  /\ \A q, r \in Slots : q # r /\ ~Holds(q, NoGraph) => ~Holds(r, graph_queue[q].g)
  /\ \A g \in Graphs : lock[g] \in {0, 1}
  /\ \A g \in Graphs : lock[g] = 1 => \A q \in Slots : ~Holds(q, g)
  /\ \A a \in Apps : pc[a] \in Without => \A q \in Slots : ~Holds(q, graph[a])
  /\ \A a \in Apps : pc[a] \in Locking => lock[graph[a]] = 0
  /\ \A a \in Apps : pc[a] \in {"writeInput", "clear"} => Holds(data[a], graph[a])
  /\ pc[GraphThread] # "idle" =>
       Holds(data[GraphThread], graph[GraphThread]) /\ graph[GraphThread] # NoGraph

(* An entry that carries a result of its graph. *)
HasResult(q) == graph_queue[q].g \in ran /\ graph_queue[q].s \in Outcomes

RanInv ==
  /\ \A q \in Slots : On(input, q) => graph_queue[q].g \notin ran
  /\ \A q \in Slots : On(output, q) => HasResult(q)
  /\ \A a \in Apps : pc[a] = "writeInput" => graph[a] \notin ran
  /\ \A a \in Apps : pc[a] \in {"inspect", "putBack", "clear"} => HasResult(data[a])
  /\ \A a \in Apps : pc[a] = "clear" => status[a] \in Outcomes
  /\ pc[GraphThread] \in {"enter", "readCount", "execute"} =>
       graph[GraphThread] \notin ran
  /\ pc[GraphThread] \in {"leave", "writeOutput"} =>
       graph[GraphThread] \in ran /\ status[GraphThread] \in Outcomes

(* A graph that is locked has an entry, but for the one that is just being *)
(* scheduled or given back.                                                *)
LockedInv ==
  \A g \in Graphs :
    lock[g] = 0 /\ (\A a \in Apps : pc[a] \in Without => graph[a] # g) =>
      \E q \in Slots : Holds(q, g)


Tables == OwnerInv /\ EntryInv /\ RanInv

(* A queue that loses its head.                                            *)
LEMMA OnTail ==
  ASSUME NEW s \in Seq(Slots), s # <<>>, Single(s)
  PROVE  /\ Head(s) \in Slots /\ Single(Tail(s)) /\ ~On(Tail(s), Head(s))
         /\ \A q : On(s, q) <=> q = Head(s) \/ On(Tail(s), q)
<1>1. /\ Len(s) \in Nat \ {0} /\ Head(s) = s[1] /\ Head(s) \in Slots
      /\ Len(Tail(s)) = Len(s) - 1 /\ \A k \in 1 .. Len(s) - 1 : Tail(s)[k] = s[k + 1]
  OBVIOUS
<1>2. ASSUME NEW q PROVE On(s, q) <=> q = Head(s) \/ On(Tail(s), q)
  <2>1. ASSUME On(s, q), q # Head(s) PROVE On(Tail(s), q)
    <3>1. PICK k \in 1 .. Len(s) : s[k] = q
      BY <2>1 DEF On
    <3>2. k - 1 \in 1 .. Len(Tail(s)) /\ Tail(s)[k - 1] = q
      BY <1>1, <2>1, <3>1
    <3>3. QED
      BY <3>2 DEF On
  <2>2. ASSUME On(Tail(s), q) PROVE On(s, q)
    BY <1>1, <2>2 DEF On
  <2>3. On(s, Head(s))
    BY <1>1 DEF On
  <2>4. QED
    BY <2>1, <2>2, <2>3
<1>3. Single(Tail(s))
  <2>1. ASSUME NEW j \in 1 .. Len(Tail(s)), NEW k \in 1 .. Len(Tail(s)),
               Tail(s)[j] = Tail(s)[k]
        PROVE  j = k
    <3>1. j + 1 \in 1 .. Len(s) /\ k + 1 \in 1 .. Len(s) /\ s[j + 1] = s[k + 1]
      BY <1>1, <2>1
    <3>2. j + 1 = k + 1
      BY <3>1 DEF Single
    <3>3. QED
      BY <1>1, <3>2
  <2>2. QED
    BY <2>1 DEF Single
<1>4. ~On(Tail(s), Head(s))
  BY <1>1 DEF Single, On
<1>5. QED
  BY <1>1, <1>2, <1>3, <1>4

(* And one that gets another at its end.                                   *)
LEMMA OnAppend ==
  ASSUME NEW s \in Seq(Slots), NEW e \in Slots
  PROVE  /\ \A q : On(Append(s, e), q) <=> On(s, q) \/ q = e
         /\ Single(s) /\ ~On(s, e) => Single(Append(s, e))
<1>1. /\ Len(s) \in Nat /\ Len(Append(s, e)) = Len(s) + 1
      /\ Append(s, e)[Len(s) + 1] = e /\ \A k \in 1 .. Len(s) : Append(s, e)[k] = s[k]
  OBVIOUS
<1>2. \A k \in 1 .. Len(s) + 1 : k \in 1 .. Len(s) \/ k = Len(s) + 1
  BY <1>1
<1>3. \A q : On(Append(s, e), q) <=> On(s, q) \/ q = e
  BY <1>1, <1>2 DEF On
<1>4. Single(s) /\ ~On(s, e) => Single(Append(s, e))
  BY <1>1, <1>2 DEF On, Single
<1>5. QED
  BY <1>3, <1>4

(* A step that moves no entry.                                             *)
LEMMA SameOwners ==
  ASSUME OwnerInv, input' = input, output' = output,
         \A q \in Slots : Holds(q, NoGraph)' <=> Holds(q, NoGraph),
         \A t \in Threads : InHand(t)' <=> InHand(t),
         \A t \in Threads : InHand(t) =>
           data'[t] = data[t] /\ (pc'[t] = "fill" <=> pc[t] = "fill"),
         pc'[GraphThread] \in GraphSteps
  PROVE  OwnerInv'
<1>1. \A q : Queued(q)' <=> Queued(q)
  BY DEF Queued
<1>2. QED
  BY <1>1 DEF OwnerInv

(* What a step does to the other threads: nothing.                         *)
Alike(t) ==
  /\ \A u \in Threads \ {t} : pc'[u] = pc[u] /\ data'[u] = data[u]
  /\ pc'[GraphThread] \in GraphSteps

(* Their hands stay as they were.                                          *)
LEMMA AlikeInHand ==
  ASSUME NEW t \in Threads, Alike(t)
  PROVE  \A u \in Threads \ {t} : InHand(u)' <=> InHand(u)
  BY DEF Alike, InHand

(* The entry a thread has in hand is put into a queue.                     *)
LEMMA PutIn ==
  ASSUME OwnerInv, NEW t \in Threads, Alike(t), NEW e \in Slots, e = data[t],
         InHand(t), pc[t] # "fill", ~InHand(t)',
         \A q \in Slots : Holds(q, NoGraph)' <=> Holds(q, NoGraph),
         \A q : Queued(q)' <=> Queued(q) \/ q = e,
         Single(input'), Single(output'),
         \A q \in Slots : ~ (On(input', q) /\ On(output', q))
  PROVE  OwnerInv'
<1>1. \A u \in Threads \ {t} : InHand(u)' <=> InHand(u)
  BY AlikeInHand
<1>2. \A u \in Threads : InHand(u)' => ~Queued(data[u])'
  BY <1>1 DEF OwnerInv, Alike
<1>3. \A u, v \in Threads : u # v /\ InHand(u)' /\ InHand(v)' => data'[u] # data'[v]
  BY <1>1 DEF OwnerInv, Alike
<1>4. ASSUME NEW q \in Slots, Holds(q, NoGraph)'
      PROVE  /\ ~Queued(q)'
             /\ \A u \in Threads : InHand(u)' /\ data'[u] = q => pc'[u] = "fill"
  BY <1>1, <1>4 DEF OwnerInv, Alike
<1>5. ASSUME NEW q \in Slots, ~Holds(q, NoGraph)', ~Queued(q)'
      PROVE  \E u \in Threads : InHand(u)' /\ data'[u] = q /\ pc'[u] # "fill"
  <2>1. PICK u \in Threads : InHand(u) /\ data[u] = q /\ pc[u] # "fill"
    BY <1>5 DEF OwnerInv
  <2>2. u # t
    BY <1>5, <2>1
  <2>3. QED
    BY <1>1, <2>1, <2>2 DEF Alike
<1>6. QED
  BY <1>2, <1>3, <1>4, <1>5 DEF OwnerInv, Alike

(* A thread takes an entry that is in a queue, or is free.                 *)
LEMMA TakenOut ==
  ASSUME OwnerInv, NEW t \in Threads, Alike(t), NEW e \in Slots, e = data'[t],
         ~InHand(t), InHand(t)', graph_queue' = graph_queue,
         \A u \in Threads : InHand(u) => data[u] # e,
         pc'[t] = "fill" <=> Holds(e, NoGraph),
         \A q : q # e => (Queued(q)' <=> Queued(q)), ~Queued(e)',
         Single(input'), Single(output'),
         \A q \in Slots : ~ (On(input', q) /\ On(output', q))
  PROVE  OwnerInv'
<1>1. \A u \in Threads \ {t} : InHand(u)' <=> InHand(u)
  BY AlikeInHand
<1>2. \A q : Holds(q, NoGraph)' <=> Holds(q, NoGraph)
  BY DEF Holds
<1>3. \A u \in Threads : InHand(u)' => ~Queued(data[u])'
  BY <1>1 DEF OwnerInv, Alike
<1>4. \A u, v \in Threads : u # v /\ InHand(u)' /\ InHand(v)' => data'[u] # data'[v]
  BY <1>1 DEF OwnerInv, Alike
<1>5. ASSUME NEW q \in Slots, Holds(q, NoGraph)'
      PROVE  /\ ~Queued(q)'
             /\ \A u \in Threads : InHand(u)' /\ data'[u] = q => pc'[u] = "fill"
  BY <1>1, <1>2, <1>5 DEF OwnerInv, Alike
<1>6. ASSUME NEW q \in Slots, ~Holds(q, NoGraph)', ~Queued(q)'
      PROVE  \E u \in Threads : InHand(u)' /\ data'[u] = q /\ pc'[u] # "fill"
  <2>1. CASE q = e
    BY <1>2, <1>6, <2>1
  <2>2. CASE q # e
    <3>1. PICK u \in Threads : InHand(u) /\ data[u] = q /\ pc[u] # "fill"
      BY <1>2, <1>6, <2>2 DEF OwnerInv
    <3>2. QED
      BY <1>1, <3>1 DEF Alike
  <2>3. QED
    BY <2>1, <2>2
<1>7. QED
  BY <1>3, <1>4, <1>5, <1>6 DEF OwnerInv, Alike

(* An entry that holds a graph stays in one place.                         *)
LEMMA OwnerStep ==
  ASSUME OneCaller, IInv, Tables, Next, failures' = 0
  PROVE  OwnerInv'
<1> USE ThreadsAssumption, NoGraphAssumption DEF GraphSteps, Tables, IInv,
       OneExecutionUsesThePool, TypeOK, Threads
<1>1. ASSUME NEW a \in Apps, NEW g \in Graphs, ScheduleLock(a, g) PROVE OwnerInv'
  <2>1. /\ input' = input /\ output' = output
        /\ \A q \in Slots : Holds(q, NoGraph)' <=> Holds(q, NoGraph)
    BY <1>1 DEF ScheduleLock, Holds
  <2>2. \A t \in Threads : InHand(t)' <=> InHand(t)
    BY <1>1 DEF ScheduleLock, Goto, InHand
  <2>3. \A t \in Threads : InHand(t) =>
          data'[t] = data[t] /\ (pc'[t] = "fill" <=> pc[t] = "fill")
    BY <1>1 DEF ScheduleLock, Goto, InHand
  <2>4. pc'[GraphThread] \in GraphSteps
    BY <1>1 DEF OwnerInv, ScheduleLock, Goto
  <2>5. QED
    BY <2>1, <2>2, <2>3, <2>4, SameOwners
<1>2. ASSUME NEW a \in Apps, NEW g \in Graphs, ScheduleRefused(a, g) PROVE OwnerInv'
  <2>1. /\ input' = input /\ output' = output
        /\ \A q \in Slots : Holds(q, NoGraph)' <=> Holds(q, NoGraph)
    BY <1>2 DEF ScheduleRefused, Holds
  <2>2. \A t \in Threads : InHand(t)' <=> InHand(t)
    BY <1>2 DEF ScheduleRefused, Return, Goto, InHand
  <2>3. \A t \in Threads : InHand(t) =>
          data'[t] = data[t] /\ (pc'[t] = "fill" <=> pc[t] = "fill")
    BY <1>2 DEF ScheduleRefused, Return, Goto, InHand
  <2>4. pc'[GraphThread] \in GraphSteps
    BY <1>2 DEF OwnerInv, ScheduleRefused, Return, Goto
  <2>5. QED
    BY <2>1, <2>2, <2>3, <2>4, SameOwners
<1>3. ASSUME NEW a \in Apps, NEW g \in Graphs, WaitFree(a, g) PROVE OwnerInv'
  <2>1. /\ input' = input /\ output' = output
        /\ \A q \in Slots : Holds(q, NoGraph)' <=> Holds(q, NoGraph)
    BY <1>3 DEF WaitFree, Holds
  <2>2. \A t \in Threads : InHand(t)' <=> InHand(t)
    BY <1>3 DEF WaitFree, Goto, InHand
  <2>3. \A t \in Threads : InHand(t) =>
          data'[t] = data[t] /\ (pc'[t] = "fill" <=> pc[t] = "fill")
    BY <1>3 DEF WaitFree, Goto, InHand
  <2>4. pc'[GraphThread] \in GraphSteps
    BY <1>3 DEF OwnerInv, WaitFree, Goto
  <2>5. QED
    BY <2>1, <2>2, <2>3, <2>4, SameOwners
<1>4. ASSUME NEW a \in Apps, NEW g \in Graphs, WaitLocked(a, g) PROVE OwnerInv'
  <2>1. /\ input' = input /\ output' = output
        /\ \A q \in Slots : Holds(q, NoGraph)' <=> Holds(q, NoGraph)
    BY <1>4 DEF WaitLocked, Holds
  <2>2. \A t \in Threads : InHand(t)' <=> InHand(t)
    BY <1>4 DEF WaitLocked, Goto, InHand
  <2>3. \A t \in Threads : InHand(t) =>
          data'[t] = data[t] /\ (pc'[t] = "fill" <=> pc[t] = "fill")
    BY <1>4 DEF WaitLocked, Goto, InHand
  <2>4. pc'[GraphThread] \in GraphSteps
    BY <1>4 DEF OwnerInv, WaitLocked, Goto
  <2>5. QED
    BY <2>1, <2>2, <2>3, <2>4, SameOwners
<1>5. ASSUME NEW a \in Apps, NEW g \in Graphs, CallProcess(a, g) PROVE OwnerInv'
  <2>1. /\ input' = input /\ output' = output
        /\ \A q \in Slots : Holds(q, NoGraph)' <=> Holds(q, NoGraph)
    BY <1>5 DEF CallProcess, Holds
  <2>2. \A t \in Threads : InHand(t)' <=> InHand(t)
    BY <1>5 DEF CallProcess, Goto, InHand
  <2>3. \A t \in Threads : InHand(t) =>
          data'[t] = data[t] /\ (pc'[t] = "fill" <=> pc[t] = "fill")
    BY <1>5 DEF CallProcess, Goto, InHand
  <2>4. pc'[GraphThread] \in GraphSteps
    BY <1>5 DEF OwnerInv, CallProcess, Goto
  <2>5. QED
    BY <2>1, <2>2, <2>3, <2>4, SameOwners
<1>6. ASSUME NEW a \in Apps, ClaimSlot(a) PROVE OwnerInv'
  <2>1. PICK e \in Slots : data' = [data EXCEPT ![a] = e] /\ Holds(e, NoGraph)
    <3>1. {q \in Slots : Holds(q, NoGraph)} # {}
      BY <1>6 DEF ClaimSlot
    <3>2. Lowest({q \in Slots : Holds(q, NoGraph)}) \in {q \in Slots : Holds(q, NoGraph)}
      BY <3>1, LowestIsSlot
    <3>3. QED
      BY <1>6, <3>2 DEF ClaimSlot
  <2>2. /\ input' = input /\ output' = output /\ graph_queue' = graph_queue
        /\ pc' = [pc EXCEPT ![a] = "fill"] /\ pc[a] = "claim"
    BY <1>6 DEF ClaimSlot, Goto
  <2>3. ~InHand(a) /\ InHand(a)' /\ Alike(a)
    BY <2>1, <2>2 DEF InHand, Alike, OwnerInv
  <2>4. ~Queued(e) /\ \A t \in Threads : InHand(t) => data[t] # e
    <3>1. \A t \in Threads : pc[t] # "fill"
      BY <2>2 DEF OneCaller, OwnerInv
    <3>2. QED
      BY <2>1, <3>1 DEF OwnerInv
  <2>5. \A q : Queued(q)' <=> Queued(q)
    BY <2>2 DEF Queued
  <2>6. /\ e = data'[a] /\ (pc'[a] = "fill" <=> Holds(e, NoGraph))
        /\ Single(input') /\ Single(output')
        /\ \A q \in Slots : ~ (On(input', q) /\ On(output', q))
    BY <2>1, <2>2 DEF OwnerInv
  <2>7. QED
    BY <2>2, <2>3, <2>4, <2>5, <2>6, TakenOut
<1>7. ASSUME NEW a \in Apps, NoSlot(a) PROVE OwnerInv'
  <2>1. /\ input' = input /\ output' = output
        /\ \A q \in Slots : Holds(q, NoGraph)' <=> Holds(q, NoGraph)
    BY <1>7 DEF NoSlot, Holds
  <2>2. \A t \in Threads : InHand(t)' <=> InHand(t)
    BY <1>7 DEF NoSlot, Return, Goto, InHand
  <2>3. \A t \in Threads : InHand(t) =>
          data'[t] = data[t] /\ (pc'[t] = "fill" <=> pc[t] = "fill")
    BY <1>7 DEF NoSlot, Return, Goto, InHand
  <2>4. pc'[GraphThread] \in GraphSteps
    BY <1>7 DEF OwnerInv, NoSlot, Return, Goto
  <2>5. QED
    BY <2>1, <2>2, <2>3, <2>4, SameOwners
<1>8. ASSUME NEW a \in Apps, FillSlot(a) PROVE OwnerInv'
  <2>1. PICK e \in Slots : e = data[a]
    BY <1>8 DEF FillSlot, StepInv
  <2>2. /\ input' = input /\ output' = output /\ data' = data /\ pc[a] = "fill"
        /\ graph_queue' = [graph_queue EXCEPT ![e] = [g |-> graph[a], s |-> "VX_SUCCESS"]]
        /\ pc' = [pc EXCEPT ![a] = "writeInput"] /\ graph[a] \in Graphs
    BY <1>8, <2>1 DEF FillSlot, Goto, StepInv
  <2>3. InHand(a) /\ \A t \in Threads : InHand(t)' <=> InHand(t)
    BY <2>2 DEF InHand
  <2>4. \A q \in Slots : Holds(q, NoGraph)' <=> Holds(q, NoGraph) /\ q # e
    BY <2>2 DEF Holds
  <2>5. \A q : Queued(q)' <=> Queued(q)
    BY <2>2 DEF Queued
  <2>6. \A t \in Threads \ {a} : pc'[t] = pc[t] /\ pc'[a] # "fill"
    BY <2>2
  <2>7. ASSUME NEW q \in Slots, Holds(q, NoGraph)'
        PROVE  /\ ~Queued(q)'
               /\ \A u \in Threads : InHand(u)' /\ data'[u] = q => pc'[u] = "fill"
    BY <2>1, <2>2, <2>3, <2>4, <2>5, <2>6, <2>7 DEF OwnerInv
  <2>8. ASSUME NEW q \in Slots, ~Holds(q, NoGraph)', ~Queued(q)'
        PROVE  \E u \in Threads : InHand(u)' /\ data'[u] = q /\ pc'[u] # "fill"
    <3>1. CASE q = e
      BY <2>1, <2>2, <2>3, <3>1
    <3>2. CASE q # e
      <4>1. PICK u \in Threads : InHand(u) /\ data[u] = q /\ pc[u] # "fill"
        BY <2>4, <2>5, <2>8, <3>2 DEF OwnerInv
      <4>2. QED
        BY <2>2, <2>3, <2>6, <4>1
    <3>3. QED
      BY <3>1, <3>2
  <2>9. QED
    BY <2>2, <2>3, <2>5, <2>7, <2>8 DEF OwnerInv
<1>9. ASSUME NEW a \in Apps, WriteInput(a) PROVE OwnerInv'
  <2>1. PICK e \in Slots : e = data[a]
    BY <1>9 DEF WriteInput, StepInv
  <2>2. /\ input' = Append(input, e) /\ output' = output
        /\ \A q \in Slots : Holds(q, NoGraph)' <=> Holds(q, NoGraph)
        /\ pc[a] = "writeInput"
    BY <1>9, <2>1 DEF WriteInput, Holds
  <2>3. InHand(a) /\ ~InHand(a)' /\ Alike(a)
    BY <1>9, <2>2 DEF WriteInput, Return, Goto, InHand, Alike, OwnerInv
  <2>4. ~On(input, e) /\ ~On(output, e)
    BY <2>1, <2>3 DEF OwnerInv, Queued
  <2>5. \A q : On(input', q) <=> On(input, q) \/ q = e
    BY <2>2, OnAppend
  <2>6. \A q : Queued(q)' <=> Queued(q) \/ q = e
    BY <2>2, <2>5 DEF Queued
  <2>7. Single(input') /\ Single(output')
    BY <2>2, <2>4, OnAppend DEF OwnerInv
  <2>8. \A q \in Slots : ~ (On(input', q) /\ On(output', q))
    BY <2>2, <2>4, <2>5 DEF OwnerInv
  <2>9. QED
    BY <2>1, <2>2, <2>3, <2>6, <2>7, <2>8, PutIn
<1>10. ASSUME NEW a \in Apps, ReadOutput(a) PROVE OwnerInv'
  <2>1. PICK e \in Slots : e = Head(output) /\ output # <<>>
    BY <1>10 DEF ReadOutput, TakeInput
  <2>2. /\ output' = Tail(output) /\ input' = input /\ graph_queue' = graph_queue
        /\ pc[a] = "readOutput" /\ data'[a] = e /\ pc'[a] # "fill"
    BY <1>10, <2>1 DEF ReadOutput, Goto
  <2>3. /\ Single(output') /\ ~On(output', e)
        /\ \A q : On(output, q) <=> q = e \/ On(output', q)
    BY <2>1, <2>2, OnTail DEF OwnerInv
  <2>4. Queued(e) /\ ~Queued(e)' /\ \A q : q # e => (Queued(q)' <=> Queued(q))
    BY <2>2, <2>3 DEF Queued, OwnerInv
  <2>5. ~Holds(e, NoGraph) /\ \A t \in Threads : InHand(t) => data[t] # e
    BY <2>4 DEF OwnerInv
  <2>6. ~InHand(a) /\ InHand(a)' /\ Alike(a)
    BY <1>10, <2>1, <2>2 DEF ReadOutput, Goto, InHand, Alike, OwnerInv
  <2>7. /\ Single(input') /\ Single(output')
        /\ \A q \in Slots : ~ (On(input', q) /\ On(output', q))
    BY <2>2, <2>3 DEF OwnerInv
  <2>8. QED
    BY <2>2, <2>4, <2>5, <2>6, <2>7, TakenOut
<1>11. ASSUME NEW a \in Apps, Inspect(a) PROVE OwnerInv'
  <2>1. /\ input' = input /\ output' = output
        /\ \A q \in Slots : Holds(q, NoGraph)' <=> Holds(q, NoGraph)
    BY <1>11 DEF Inspect, Holds
  <2>2. \A t \in Threads : InHand(t)' <=> InHand(t)
    BY <1>11 DEF Inspect, Goto, InHand
  <2>3. \A t \in Threads : InHand(t) =>
          data'[t] = data[t] /\ (pc'[t] = "fill" <=> pc[t] = "fill")
    BY <1>11 DEF Inspect, Goto, InHand
  <2>4. pc'[GraphThread] \in GraphSteps
    BY <1>11 DEF OwnerInv, Inspect, Goto
  <2>5. QED
    BY <2>1, <2>2, <2>3, <2>4, SameOwners
<1>12. ASSUME NEW a \in Apps, ClearSlot(a) PROVE OwnerInv'
  <2>1. PICK e \in Slots : e = data[a] /\ Holds(e, graph[a]) /\ graph[a] \in Graphs
    BY <1>12 DEF ClearSlot, StepInv, EntryInv
  <2>2. {q \in Slots : Holds(q, graph[a])} = {e}
    BY <2>1 DEF EntryInv, Holds
  <2>3. Lowest({q \in Slots : Holds(q, graph[a])}) = e
    BY <2>2, LowestIsSlot
  <2>4. /\ input' = input /\ output' = output /\ data' = data /\ pc[a] = "clear"
        /\ graph_queue' = [graph_queue EXCEPT ![e].g = NoGraph]
        /\ pc' = [pc EXCEPT ![a] = "waitPost"]
    BY <1>12, <2>2, <2>3 DEF ClearSlot, Free, Goto
  <2>5. InHand(a) /\ ~InHand(a)' /\ \A t \in Threads \ {a} : InHand(t)' <=> InHand(t)
    BY <2>4 DEF InHand
  <2>6. \A q \in Slots : Holds(q, NoGraph)' <=> Holds(q, NoGraph) \/ q = e
    BY <2>4 DEF Holds
  <2>7. ~Queued(e) /\ \A t \in Threads \ {a} : InHand(t) => data[t] # e
    BY <2>1, <2>5 DEF OwnerInv
  <2>8. \A q : Queued(q)' <=> Queued(q)
    BY <2>4 DEF Queued
  <2>9. \A t \in Threads \ {a} : pc'[t] = pc[t]
    BY <2>4
  <2>10. ASSUME NEW q \in Slots, Holds(q, NoGraph)'
         PROVE  /\ ~Queued(q)'
                /\ \A u \in Threads : InHand(u)' /\ data'[u] = q => pc'[u] = "fill"
    BY <2>4, <2>5, <2>6, <2>7, <2>8, <2>9, <2>10 DEF OwnerInv
  <2>11. ASSUME NEW q \in Slots, ~Holds(q, NoGraph)', ~Queued(q)'
         PROVE  \E u \in Threads : InHand(u)' /\ data'[u] = q /\ pc'[u] # "fill"
    <3>1. PICK u \in Threads : InHand(u) /\ data[u] = q /\ pc[u] # "fill"
      BY <2>6, <2>8, <2>11 DEF OwnerInv
    <3>2. u # a
      BY <2>1, <2>6, <2>11, <3>1
    <3>3. QED
      BY <2>4, <2>5, <2>9, <3>1, <3>2
  <2>12. \A t \in Threads : InHand(t)' => ~Queued(data[t])'
    BY <2>4, <2>5, <2>8 DEF OwnerInv
  <2>13. \A t, u \in Threads : t # u /\ InHand(t)' /\ InHand(u)' => data'[t] # data'[u]
    <3>1. data' = data /\ \A t \in Threads : InHand(t)' => InHand(t)
      BY <2>4, <2>5
    <3>2. \A t, u \in Threads : t # u /\ InHand(t) /\ InHand(u) => data[t] # data[u]
      BY DEF OwnerInv
    <3>3. QED
      BY <3>1, <3>2, Zenon
  <2>14. pc'[GraphThread] = pc[GraphThread]
    BY <2>9
  <2>15. QED
    BY <2>4, <2>10, <2>11, <2>12, <2>13, <2>14 DEF OwnerInv
<1>13. ASSUME NEW a \in Apps, PutBack(a) PROVE OwnerInv'
  <2>1. PICK e \in Slots : e = data[a]
    BY <1>13 DEF PutBack, StepInv
  <2>2. /\ output' = Append(output, e) /\ input' = input
        /\ \A q \in Slots : Holds(q, NoGraph)' <=> Holds(q, NoGraph)
        /\ pc[a] = "putBack"
    BY <1>13, <2>1 DEF PutBack, PutOutput, Holds
  <2>3. InHand(a) /\ ~InHand(a)' /\ Alike(a)
    BY <1>13, <2>2 DEF PutBack, PutOutput, Goto, InHand, Alike, OwnerInv
  <2>4. ~On(input, e) /\ ~On(output, e)
    BY <2>1, <2>3 DEF OwnerInv, Queued
  <2>5. \A q : On(output', q) <=> On(output, q) \/ q = e
    BY <2>2, OnAppend
  <2>6. \A q : Queued(q)' <=> Queued(q) \/ q = e
    BY <2>2, <2>5 DEF Queued
  <2>7. Single(input') /\ Single(output')
    BY <2>2, <2>4, OnAppend DEF OwnerInv
  <2>8. \A q \in Slots : ~ (On(input', q) /\ On(output', q))
    BY <2>2, <2>4, <2>5 DEF OwnerInv
  <2>9. QED
    BY <2>1, <2>2, <2>3, <2>6, <2>7, <2>8, PutIn
<1>14. ASSUME NEW a \in Apps, WaitPost(a) PROVE OwnerInv'
  <2>1. /\ input' = input /\ output' = output
        /\ \A q \in Slots : Holds(q, NoGraph)' <=> Holds(q, NoGraph)
    BY <1>14 DEF WaitPost, Holds
  <2>2. \A t \in Threads : InHand(t)' <=> InHand(t)
    BY <1>14 DEF WaitPost, Return, Goto, InHand
  <2>3. \A t \in Threads : InHand(t) =>
          data'[t] = data[t] /\ (pc'[t] = "fill" <=> pc[t] = "fill")
    BY <1>14 DEF WaitPost, Return, Goto, InHand
  <2>4. pc'[GraphThread] \in GraphSteps
    BY <1>14 DEF OwnerInv, WaitPost, Return, Goto
  <2>5. QED
    BY <2>1, <2>2, <2>3, <2>4, SameOwners
<1>15. ASSUME NEW a \in Threads, Enter(a) PROVE OwnerInv'
  <2>1. /\ input' = input /\ output' = output
        /\ \A q \in Slots : Holds(q, NoGraph)' <=> Holds(q, NoGraph)
    BY <1>15 DEF Enter, Holds
  <2>2. \A t \in Threads : InHand(t)' <=> InHand(t)
    BY <1>15 DEF Enter, Goto, InHand
  <2>3. \A t \in Threads : InHand(t) =>
          data'[t] = data[t] /\ (pc'[t] = "fill" <=> pc[t] = "fill")
    BY <1>15 DEF Enter, Goto, InHand
  <2>4. pc'[GraphThread] \in GraphSteps
    BY <1>15 DEF OwnerInv, Enter, Goto
  <2>5. QED
    BY <2>1, <2>2, <2>3, <2>4, SameOwners
<1>16. ASSUME NEW a \in Threads, ReadCount(a) PROVE OwnerInv'
  <2>1. /\ input' = input /\ output' = output
        /\ \A q \in Slots : Holds(q, NoGraph)' <=> Holds(q, NoGraph)
    BY <1>16 DEF ReadCount, Holds
  <2>2. \A t \in Threads : InHand(t)' <=> InHand(t)
    BY <1>16 DEF ReadCount, Goto, InHand
  <2>3. \A t \in Threads : InHand(t) =>
          data'[t] = data[t] /\ (pc'[t] = "fill" <=> pc[t] = "fill")
    BY <1>16 DEF ReadCount, Goto, InHand
  <2>4. pc'[GraphThread] \in GraphSteps
    BY <1>16 DEF OwnerInv, ReadCount, Goto
  <2>5. QED
    BY <2>1, <2>2, <2>3, <2>4, SameOwners
<1>17. ASSUME NEW a \in Threads, Execute(a) PROVE OwnerInv'
  <2>1. /\ input' = input /\ output' = output
        /\ \A q \in Slots : Holds(q, NoGraph)' <=> Holds(q, NoGraph)
    BY <1>17 DEF Execute, Holds
  <2>2. \A t \in Threads : InHand(t)' <=> InHand(t)
    BY <1>17 DEF Execute, Goto, InHand
  <2>3. \A t \in Threads : InHand(t) =>
          data'[t] = data[t] /\ (pc'[t] = "fill" <=> pc[t] = "fill")
    BY <1>17 DEF Execute, Goto, InHand
  <2>4. pc'[GraphThread] \in GraphSteps
    BY <1>17 DEF OwnerInv, Execute, Goto
  <2>5. QED
    BY <2>1, <2>2, <2>3, <2>4, SameOwners
<1>18. ASSUME NEW a \in Threads, Leave(a) PROVE OwnerInv'
  <2>1. /\ input' = input /\ output' = output
        /\ \A q \in Slots : Holds(q, NoGraph)' <=> Holds(q, NoGraph)
    BY <1>18 DEF Leave, Holds
  <2>2. \A t \in Threads : InHand(t)' <=> InHand(t)
    BY <1>18 DEF Leave, Return, Goto, InHand
  <2>3. \A t \in Threads : InHand(t) =>
          data'[t] = data[t] /\ (pc'[t] = "fill" <=> pc[t] = "fill")
    BY <1>18 DEF Leave, Return, Goto, InHand
  <2>4. pc'[GraphThread] \in GraphSteps
    BY <1>18 DEF OwnerInv, Leave, Return, Goto
  <2>5. QED
    BY <2>1, <2>2, <2>3, <2>4, SameOwners
<1>19. ASSUME ReadInput PROVE OwnerInv'
  <2>1. PICK e \in Slots : e = Head(input) /\ input # <<>>
    BY <1>19 DEF ReadInput, TakeInput
  <2>2. /\ input' = Tail(input) /\ output' = output /\ graph_queue' = graph_queue
        /\ pc[GraphThread] = "idle" /\ data'[GraphThread] = e /\ pc'[GraphThread] # "fill"
    BY <1>19, <2>1 DEF ReadInput, TakeInput, Goto
  <2>3. /\ Single(input') /\ ~On(input', e)
        /\ \A q : On(input, q) <=> q = e \/ On(input', q)
    BY <2>1, <2>2, OnTail DEF OwnerInv
  <2>4. Queued(e) /\ ~Queued(e)' /\ \A q : q # e => (Queued(q)' <=> Queued(q))
    BY <2>2, <2>3 DEF Queued, OwnerInv
  <2>5. ~Holds(e, NoGraph) /\ \A t \in Threads : InHand(t) => data[t] # e
    BY <2>4 DEF OwnerInv
  <2>6. ~InHand(GraphThread) /\ InHand(GraphThread)' /\ Alike(GraphThread)
    BY <1>19, <2>1, <2>2, <2>5 DEF ReadInput, TakeInput, Goto, InHand, Alike,
       OwnerInv, Holds
  <2>7. /\ Single(input') /\ Single(output')
        /\ \A q \in Slots : ~ (On(input', q) /\ On(output', q))
    BY <2>2, <2>3 DEF OwnerInv
  <2>8. QED
    BY <2>2, <2>4, <2>5, <2>6, <2>7, TakenOut
<1>20. ASSUME WriteOutput PROVE OwnerInv'
  <2>1. PICK e \in Slots : e = data[GraphThread]
    BY <1>20 DEF WriteOutput, StepInv
  <2>2. /\ output' = Append(output, e) /\ input' = input
        /\ \A q \in Slots : Holds(q, NoGraph)' <=> Holds(q, NoGraph)
        /\ pc[GraphThread] = "writeOutput"
    <3>1. graph_queue[e].g = graph[GraphThread]
      BY <1>20, <2>1 DEF WriteOutput, EntryInv, Holds
    <3>2. QED
      BY <1>20, <2>1, <3>1 DEF WriteOutput, PutOutput, StoreResult, Holds
  <2>3. InHand(GraphThread) /\ ~InHand(GraphThread)' /\ Alike(GraphThread)
    BY <1>20, <2>2 DEF WriteOutput, StoreResult, PutOutput, Return, Goto, InHand,
       Alike, OwnerInv
  <2>4. ~On(input, e) /\ ~On(output, e)
    BY <2>1, <2>3 DEF OwnerInv, Queued
  <2>5. \A q : On(output', q) <=> On(output, q) \/ q = e
    BY <2>2, OnAppend
  <2>6. \A q : Queued(q)' <=> Queued(q) \/ q = e
    BY <2>2, <2>5 DEF Queued
  <2>7. Single(input') /\ Single(output')
    BY <2>2, <2>4, OnAppend DEF OwnerInv
  <2>8. \A q \in Slots : ~ (On(input', q) /\ On(output', q))
    BY <2>2, <2>4, <2>5 DEF OwnerInv
  <2>9. QED
    BY <2>1, <2>2, <2>3, <2>6, <2>7, <2>8, PutIn
<1>21. \A a \in Apps : ~AppFails(a) /\ ~WriteOutputFails
  BY DEF AppFails, WriteInputFails, ReadOutputFails, PutBackFails,
     WriteOutputFails, QueueFails
<1>22. GraphThread \in Threads /\ \A a \in Apps : a \in Threads
  BY DEF Threads
<1>23. ~WriteOutputFails
  BY DEF WriteOutputFails, QueueFails
<1>24. QED
  BY <1>1, <1>2, <1>3, <1>4, <1>5, <1>6, <1>7, <1>8, <1>9, <1>10, <1>11, <1>12,
     <1>13, <1>14, <1>15, <1>16, <1>17, <1>18, <1>19, <1>20, <1>21, <1>22, <1>23 DEF
     Next, Call, AppWorks, ProcessStep, GraphThreadWorks

(* A graph that is locked keeps its entry, and its entry the graph.        *)
LEMMA EntryStep ==
  ASSUME OneCaller, IInv, Tables, Next, failures' = 0
  PROVE  EntryInv'
<1> USE ThreadsAssumption, NoGraphAssumption DEF GraphSteps, Tables, IInv,
       OneExecutionUsesThePool, TypeOK, Threads
<1>1. ASSUME NEW a \in Apps, NEW g \in Graphs, ScheduleLock(a, g) PROVE EntryInv'
  BY <1>1 DEF EntryInv, ScheduleLock, Goto, Holds, Locking, Without, OneCaller,
     StepInv
<1>2. ASSUME NEW a \in Apps, NEW g \in Graphs, ScheduleRefused(a, g) PROVE EntryInv'
  BY <1>2 DEF EntryInv, ScheduleRefused, Return, Goto, Holds, Locking, Without,
     OneCaller, StepInv
<1>3. ASSUME NEW a \in Apps, NEW g \in Graphs, WaitFree(a, g) PROVE EntryInv'
  BY <1>3 DEF EntryInv, WaitFree, Goto, Holds, Locking, Without, OneCaller, StepInv
<1>4. ASSUME NEW a \in Apps, NEW g \in Graphs, WaitLocked(a, g) PROVE EntryInv'
  BY <1>4 DEF EntryInv, WaitLocked, Goto, Holds, Locking, Without, OneCaller, StepInv
<1>5. ASSUME NEW a \in Apps, NEW g \in Graphs, CallProcess(a, g) PROVE EntryInv'
  BY <1>5 DEF EntryInv, CallProcess, Goto, Holds, Locking, Without, OneCaller, StepInv
<1>6. ASSUME NEW a \in Apps, ClaimSlot(a) PROVE EntryInv'
  BY <1>6 DEF EntryInv, ClaimSlot, Goto, Holds, Locking, Without, OneCaller, StepInv
<1>7. ASSUME NEW a \in Apps, NoSlot(a) PROVE EntryInv'
  BY <1>7 DEF EntryInv, NoSlot, Return, Goto, Holds, Locking, Without, OneCaller,
     StepInv
<1>8. ASSUME NEW a \in Apps, FillSlot(a) PROVE EntryInv'
  <2>1. PICK e \in Slots : e = data[a]
    BY <1>8 DEF FillSlot, StepInv
  <2>2. pc[a] = "fill" /\ graph[a] \in Graphs /\ \A b \in Apps : b = a
    BY <1>8 DEF FillSlot, StepInv, OneCaller
  <2>3. InHand(a) /\ ~Queued(e) /\ \A t \in Threads \ {a} : InHand(t) => data[t] # e
    BY <2>1, <2>2 DEF OwnerInv, InHand
  <2>4. pc[GraphThread] # "idle" => data[GraphThread] # e /\ data[GraphThread] \in Slots
    BY <2>3 DEF InHand, StepInv
  <2>5. Holds(e, NoGraph)
    BY <2>2, <2>3 DEF OwnerInv, Queued
  <2>6. /\ graph_queue' = [graph_queue EXCEPT ![e] = [g |-> graph[a], s |-> "VX_SUCCESS"]]
        /\ pc' = [pc EXCEPT ![a] = "writeInput"] /\ lock' = lock /\ graph' = graph
        /\ data' = data /\ input' = input /\ output' = output /\ ran' = ran \ {graph[a]}
        /\ status' = status
    BY <1>8, <2>1 DEF FillSlot, Goto
  <2>7. \A q \in Slots \ {e} : graph_queue'[q] = graph_queue[q]
    BY <2>6
  <2>8. graph_queue'[e].g = graph[a] /\ \A q \in Slots : ~Holds(q, graph[a])
    BY <2>2, <2>6 DEF EntryInv, Without
  <2>9. ASSUME NEW q \in Slots, NEW r \in Slots, q # r, graph_queue'[q].g # NoGraph
        PROVE  graph_queue'[r].g # graph_queue'[q].g
    <3>1. graph_queue[q].g # NoGraph => graph_queue[r].g # graph_queue[q].g
      BY <2>9 DEF EntryInv, Holds
    <3>2. CASE q = e
      BY <2>7, <2>8, <2>9, <3>2 DEF Holds
    <3>3. CASE r = e
      BY <2>7, <2>8, <2>9, <3>3 DEF Holds
    <3>4. CASE q # e /\ r # e
      BY <2>7, <2>8, <2>9, <3>1, <3>4
    <3>5. QED
      BY <3>2, <3>3, <3>4
  <2>10. /\ Holds(e, graph[a])'
         /\ \A q \in Slots, g \in Graphs : q # e => (Holds(q, g)' <=> Holds(q, g))
    BY <2>6, <2>7, <2>8 DEF Holds
  <2>11. lock[graph[a]] = 0
    BY <2>2 DEF EntryInv, Locking
  <2>12. /\ \A g \in Graphs : lock'[g] = 1 => \A q \in Slots : ~Holds(q, g)'
         /\ \A g \in Graphs : lock'[g] \in {0, 1}
    BY <2>2, <2>6, <2>10, <2>8, <2>11 DEF EntryInv, Holds
  <2>13. pc'[GraphThread] # "idle" =>
           Holds(data[GraphThread], graph[GraphThread])' /\ graph'[GraphThread] # NoGraph
    BY <2>4, <2>6, <2>10 DEF EntryInv
  <2>14. QED
    BY <2>1, <2>2, <2>6, <2>9, <2>10, <2>11, <2>12, <2>13 DEF EntryInv, Without, Holds
<1>9. ASSUME NEW a \in Apps, WriteInput(a) PROVE EntryInv'
  BY <1>9 DEF EntryInv, WriteInput, Return, Goto, Holds, Locking, Without,
     OneCaller, StepInv
<1>10. ASSUME NEW a \in Apps, ReadOutput(a) PROVE EntryInv'
  BY <1>10 DEF EntryInv, ReadOutput, Goto, Holds, Locking, Without, OneCaller, StepInv
<1>11. ASSUME NEW a \in Apps, Inspect(a) PROVE EntryInv'
  <2>1. \A q, g : Holds(q, g)' <=> Holds(q, g)
    BY <1>11 DEF Inspect, Holds
  <2>2. /\ lock' = lock /\ graph' = graph /\ data' = data /\ graph_queue' = graph_queue
        /\ pc[a] = "inspect"
        /\ pc' \in {[pc EXCEPT ![a] = "clear"], [pc EXCEPT ![a] = "putBack"]}
        /\ pc'[a] = "clear" => Holds(data[a], graph[a])
    BY <1>11 DEF Inspect, ReadMine, Goto
  <2>3. QED
    BY <2>1, <2>2 DEF EntryInv, Locking, Without, OneCaller, Holds
<1>12. ASSUME NEW a \in Apps, ClearSlot(a) PROVE EntryInv'
  <2>1. PICK e \in Slots : e = data[a]
    BY <1>12 DEF ClearSlot, StepInv
  <2>2. pc[a] = "clear" /\ graph[a] \in Graphs /\ \A b \in Apps : b = a
    BY <1>12 DEF ClearSlot, StepInv, OneCaller
  <2>3. InHand(a) /\ ~Queued(e) /\ \A t \in Threads \ {a} : InHand(t) => data[t] # e
    BY <2>1, <2>2 DEF OwnerInv, InHand
  <2>4. pc[GraphThread] # "idle" => data[GraphThread] # e /\ data[GraphThread] \in Slots
    BY <2>3 DEF InHand, StepInv
  <2>5. {q \in Slots : Holds(q, graph[a])} = {e} /\ Holds(e, graph[a])
    <3>1. Holds(e, graph[a])
      BY <2>1, <2>2 DEF EntryInv
    <3>2. QED
      BY <2>2, <3>1 DEF EntryInv, Holds
  <2>6. Lowest({q \in Slots : Holds(q, graph[a])}) = e
    BY <2>5, LowestIsSlot
  <2>7. /\ graph_queue' = [graph_queue EXCEPT ![e].g = NoGraph]
        /\ pc' = [pc EXCEPT ![a] = "waitPost"] /\ lock' = lock /\ graph' = graph
        /\ data' = data /\ input' = input /\ output' = output /\ ran' = ran
        /\ status' = status
    BY <1>12, <2>5, <2>6 DEF ClearSlot, Free, Goto
  <2>8. \A q \in Slots \ {e} : graph_queue'[q] = graph_queue[q]
    BY <2>7
  <2>9. graph_queue'[e].g = NoGraph
    BY <2>7
  <2>10. ASSUME NEW q \in Slots, NEW r \in Slots, q # r, graph_queue'[q].g # NoGraph
        PROVE  graph_queue'[r].g # graph_queue'[q].g
    <3>1. graph_queue[q].g # NoGraph => graph_queue[r].g # graph_queue[q].g
      BY <2>10 DEF EntryInv, Holds
    <3>2. CASE q = e
      BY <2>8, <2>9, <2>10, <3>2 DEF Holds
    <3>3. CASE r = e
      BY <2>8, <2>9, <2>10, <3>3 DEF Holds
    <3>4. CASE q # e /\ r # e
      BY <2>8, <2>9, <2>10, <3>1, <3>4
    <3>5. QED
      BY <3>2, <3>3, <3>4
  <2>11. \A q \in Slots, g \in Graphs : Holds(q, g)' => Holds(q, g) /\ q # e
    BY <2>8, <2>9 DEF Holds
  <2>12. lock[graph[a]] = 0 /\ \A q \in Slots : graph_queue'[q].g # graph[a]
    BY <2>2, <2>5, <2>8, <2>9 DEF EntryInv, Locking, Holds
  <2>13. /\ \A g \in Graphs : lock'[g] = 1 => \A q \in Slots : ~Holds(q, g)'
         /\ \A g \in Graphs : lock'[g] \in {0, 1}
    BY <2>7, <2>11 DEF EntryInv
  <2>14. pc'[GraphThread] # "idle" =>
           Holds(data[GraphThread], graph[GraphThread])' /\ graph'[GraphThread] # NoGraph
    BY <2>4, <2>7, <2>8 DEF EntryInv, Holds
  <2>15. QED
    BY <2>2, <2>7, <2>10, <2>12, <2>13, <2>14 DEF EntryInv, Without, Holds
<1>13. ASSUME NEW a \in Apps, PutBack(a) PROVE EntryInv'
  BY <1>13 DEF EntryInv, PutBack, PutOutput, Goto, Holds, Locking, Without,
     OneCaller, StepInv
<1>14. ASSUME NEW a \in Apps, WaitPost(a) PROVE EntryInv'
  <2>1. \A q, g : Holds(q, g)' <=> Holds(q, g)
    BY <1>14 DEF WaitPost, Holds
  <2>2. PICK g \in Graphs : g = graph[a] /\ lock[g] = 0 /\ \A q \in Slots : ~Holds(q, g)
    BY <1>14 DEF WaitPost, StepInv, EntryInv, Locking, Without
  <2>3. /\ lock' = [lock EXCEPT ![g] = 1] /\ graph_queue' = graph_queue
        /\ \A t \in Threads \ {a} :
             graph'[t] = graph[t] /\ data'[t] = data[t] /\ pc'[t] = pc[t]
        /\ pc'[a] = "idle"
    BY <1>14, <2>2 DEF WaitPost, PostLock, Return, Goto
  <2>4. ASSUME NEW h \in Graphs
        PROVE  lock'[h] \in {0, 1} /\ (lock'[h] = 1 => \A q \in Slots : ~Holds(q, h)')
    BY <2>1, <2>2, <2>3 DEF EntryInv
  <2>5. \A b \in Apps : pc'[b] = "idle"
    BY <2>3 DEF OneCaller
  <2>6. pc'[GraphThread] # "idle" =>
          Holds(data[GraphThread], graph[GraphThread])' /\ graph'[GraphThread] # NoGraph
    BY <2>3 DEF EntryInv, Holds
  <2>7. QED
    BY <2>3, <2>4, <2>5, <2>6 DEF EntryInv, Locking, Without, Holds
<1>15. ASSUME NEW a \in Threads, Enter(a) PROVE EntryInv'
  BY <1>15 DEF EntryInv, Enter, Goto, Holds, Locking, Without, OneCaller, StepInv
<1>16. ASSUME NEW a \in Threads, ReadCount(a) PROVE EntryInv'
  BY <1>16 DEF EntryInv, ReadCount, Goto, Holds, Locking, Without, OneCaller, StepInv
<1>17. ASSUME NEW a \in Threads, Execute(a) PROVE EntryInv'
  BY <1>17 DEF EntryInv, Execute, Goto, Holds, Locking, Without, OneCaller, StepInv
<1>18. ASSUME NEW a \in Threads, Leave(a) PROVE EntryInv'
  BY <1>18 DEF EntryInv, Leave, Return, Goto, Holds, Locking, Without, OneCaller,
     StepInv
<1>19. ASSUME ReadInput PROVE EntryInv'
  <2>1. PICK e \in Slots : e = Head(input) /\ input # <<>>
    BY <1>19 DEF ReadInput, TakeInput
  <2>2. /\ On(input, e) /\ input' = Tail(input)
        /\ \A q : On(input', q) => On(input, q)
    BY <1>19, <2>1, OnTail DEF ReadInput, TakeInput, OwnerInv
  <2>3. graph_queue[e].g # NoGraph
    BY <2>2 DEF OwnerInv, Queued, Holds
  <2>4. /\ graph_queue' = graph_queue /\ lock' = lock /\ output' = output /\ ran' = ran
        /\ status' = status /\ data' = [data EXCEPT ![GraphThread] = e]
        /\ graph' = [graph EXCEPT ![GraphThread] = graph_queue[e].g]
        /\ pc' = [pc EXCEPT ![GraphThread] = "enter"]
    BY <1>19, <2>1, <2>3 DEF ReadInput, Goto
  <2>5. QED
    BY <2>3, <2>4 DEF EntryInv, Locking, Without, Holds
<1>20. ASSUME WriteOutput PROVE EntryInv'
  BY <1>20 DEF EntryInv, WriteOutput, StoreResult, PutOutput, Return, Goto, Holds,
     Locking, Without, OneCaller, StepInv
<1>21. \A a \in Apps : ~AppFails(a) /\ ~WriteOutputFails
  BY DEF AppFails, WriteInputFails, ReadOutputFails, PutBackFails,
     WriteOutputFails, QueueFails
<1>22. GraphThread \in Threads /\ \A a \in Apps : a \in Threads
  BY DEF Threads
<1>23. ~WriteOutputFails
  BY DEF WriteOutputFails, QueueFails
<1>24. QED
  BY <1>1, <1>2, <1>3, <1>4, <1>5, <1>6, <1>7, <1>8, <1>9, <1>10, <1>11, <1>12,
     <1>13, <1>14, <1>15, <1>16, <1>17, <1>18, <1>19, <1>20, <1>21, <1>22, <1>23 DEF
     Next, Call, AppWorks, ProcessStep, GraphThreadWorks

(* An entry is in the input queue before, in the output queue after its run. *)
LEMMA RanStep ==
  ASSUME OneCaller, IInv, Tables, Next, failures' = 0
  PROVE  RanInv'
<1> USE ThreadsAssumption, NoGraphAssumption DEF GraphSteps, Tables, IInv,
       OneExecutionUsesThePool, TypeOK, Threads
<1>1. ASSUME NEW a \in Apps, NEW g \in Graphs, ScheduleLock(a, g) PROVE RanInv'
  BY <1>1 DEF RanInv, ScheduleLock, Goto, HasResult, StepInv, OneCaller
<1>2. ASSUME NEW a \in Apps, NEW g \in Graphs, ScheduleRefused(a, g) PROVE RanInv'
  BY <1>2 DEF RanInv, ScheduleRefused, Return, Goto, HasResult, StepInv, OneCaller
<1>3. ASSUME NEW a \in Apps, NEW g \in Graphs, WaitFree(a, g) PROVE RanInv'
  BY <1>3 DEF RanInv, WaitFree, Goto, HasResult, StepInv, OneCaller
<1>4. ASSUME NEW a \in Apps, NEW g \in Graphs, WaitLocked(a, g) PROVE RanInv'
  BY <1>4 DEF RanInv, WaitLocked, Goto, HasResult, StepInv, OneCaller
<1>5. ASSUME NEW a \in Apps, NEW g \in Graphs, CallProcess(a, g) PROVE RanInv'
  BY <1>5 DEF RanInv, CallProcess, Goto, HasResult, StepInv, OneCaller
<1>6. ASSUME NEW a \in Apps, ClaimSlot(a) PROVE RanInv'
  BY <1>6 DEF RanInv, ClaimSlot, Goto, HasResult, StepInv, OneCaller
<1>7. ASSUME NEW a \in Apps, NoSlot(a) PROVE RanInv'
  BY <1>7 DEF RanInv, NoSlot, Return, Goto, HasResult, StepInv, OneCaller
<1>8. ASSUME NEW a \in Apps, FillSlot(a) PROVE RanInv'
  <2>1. PICK e \in Slots : e = data[a]
    BY <1>8 DEF FillSlot, StepInv
  <2>2. pc[a] = "fill" /\ graph[a] \in Graphs /\ \A b \in Apps : b = a
    BY <1>8 DEF FillSlot, StepInv, OneCaller
  <2>3. InHand(a) /\ ~Queued(e) /\ \A t \in Threads \ {a} : InHand(t) => data[t] # e
    BY <2>1, <2>2 DEF OwnerInv, InHand
  <2>4. pc[GraphThread] # "idle" => data[GraphThread] # e /\ data[GraphThread] \in Slots
    BY <2>3 DEF InHand, StepInv
  <2>5. Holds(e, NoGraph)
    BY <2>2, <2>3 DEF OwnerInv, Queued
  <2>6. /\ graph_queue' = [graph_queue EXCEPT ![e] = [g |-> graph[a], s |-> "VX_SUCCESS"]]
        /\ pc' = [pc EXCEPT ![a] = "writeInput"] /\ lock' = lock /\ graph' = graph
        /\ data' = data /\ input' = input /\ output' = output /\ ran' = ran \ {graph[a]}
        /\ status' = status
    BY <1>8, <2>1 DEF FillSlot, Goto
  <2>7. \A q \in Slots \ {e} : graph_queue'[q] = graph_queue[q]
    BY <2>6
  <2>8. graph_queue'[e].g = graph[a] /\ \A q \in Slots : ~Holds(q, graph[a])
    BY <2>2, <2>6 DEF EntryInv, Without
  <2>9. \A q \in Slots : HasResult(q) /\ q # e => HasResult(q)'
    BY <2>6, <2>7, <2>8 DEF HasResult, Holds
  <2>10. /\ \A q \in Slots : On(input', q) => graph_queue'[q].g \notin ran'
         /\ \A q \in Slots : On(output', q) => HasResult(q)'
    BY <2>3, <2>6, <2>7, <2>9 DEF RanInv, Queued
  <2>11. pc[GraphThread] # "idle" => graph[GraphThread] # graph[a]
    BY <2>4, <2>8 DEF EntryInv
  <2>12. /\ pc'[GraphThread] \in {"enter", "readCount", "execute"} =>
              graph'[GraphThread] \notin ran'
         /\ pc'[GraphThread] \in {"leave", "writeOutput"} =>
              graph'[GraphThread] \in ran' /\ status'[GraphThread] \in Outcomes
    BY <2>2, <2>6, <2>11 DEF RanInv
  <2>13. QED
    BY <2>2, <2>6, <2>10, <2>12 DEF RanInv
<1>9. ASSUME NEW a \in Apps, WriteInput(a) PROVE RanInv'
  <2>1. PICK e \in Slots : e = data[a]
    BY <1>9 DEF WriteInput, StepInv
  <2>2. /\ pc[a] = "writeInput" /\ pc'[a] = "idle" /\ input' = Append(input, e)
        /\ \A t \in Threads \ {a} :
             pc'[t] = pc[t] /\ graph'[t] = graph[t] /\ status'[t] = status[t]
        /\ graph_queue' = graph_queue /\ output' = output /\ ran' = ran
    BY <1>9, <2>1 DEF WriteInput, Return, Goto
  <2>3. graph_queue[e].g \notin ran /\ \A b \in Apps : b = a
    BY <2>1, <2>2 DEF RanInv, EntryInv, Holds, OneCaller
  <2>4. \A q : On(input', q) <=> On(input, q) \/ q = e
    BY <2>2, OnAppend
  <2>5. QED
    BY <2>2, <2>3, <2>4 DEF RanInv, HasResult
<1>10. ASSUME NEW a \in Apps, ReadOutput(a) PROVE RanInv'
  <2>1. PICK e \in Slots : e = Head(output) /\ output # <<>>
    BY <1>10 DEF ReadOutput
  <2>2. /\ output' = Tail(output) /\ On(output, e)
        /\ \A q : On(output', q) => On(output, q)
    BY <1>10, <2>1, OnTail DEF ReadOutput, OwnerInv
  <2>3. HasResult(e) /\ \A b \in Apps : b = a
    BY <1>10, <2>2 DEF RanInv, OneCaller
  <2>4. /\ graph_queue' = graph_queue /\ ran' = ran /\ input' = input /\ graph' = graph
        /\ status' = status /\ data' = [data EXCEPT ![a] = e]
        /\ pc' = [pc EXCEPT ![a] = "inspect"]
    BY <1>10, <2>1 DEF ReadOutput, Goto
  <2>5. \A q : HasResult(q)' <=> HasResult(q)
    BY <2>4 DEF HasResult
  <2>6. data'[a] = e /\ pc'[a] = "inspect"
    BY <2>4
  <2>7. QED
    BY <2>2, <2>3, <2>4, <2>5, <2>6 DEF RanInv
<1>11. ASSUME NEW a \in Apps, Inspect(a) PROVE RanInv'
  BY <1>11 DEF RanInv, Inspect, Goto, HasResult, StepInv, OneCaller
<1>12. ASSUME NEW a \in Apps, ClearSlot(a) PROVE RanInv'
  <2>1. PICK e \in Slots : e = data[a]
    BY <1>12 DEF ClearSlot, StepInv
  <2>2. pc[a] = "clear" /\ graph[a] \in Graphs /\ \A b \in Apps : b = a
    BY <1>12 DEF ClearSlot, StepInv, OneCaller
  <2>3. InHand(a) /\ ~Queued(e) /\ \A t \in Threads \ {a} : InHand(t) => data[t] # e
    BY <2>1, <2>2 DEF OwnerInv, InHand
  <2>4. pc[GraphThread] # "idle" => data[GraphThread] # e /\ data[GraphThread] \in Slots
    BY <2>3 DEF InHand, StepInv
  <2>5. {q \in Slots : Holds(q, graph[a])} = {e} /\ Holds(e, graph[a])
    <3>1. Holds(e, graph[a])
      BY <2>1, <2>2 DEF EntryInv
    <3>2. QED
      BY <2>2, <3>1 DEF EntryInv, Holds
  <2>6. Lowest({q \in Slots : Holds(q, graph[a])}) = e
    BY <2>5, LowestIsSlot
  <2>7. /\ graph_queue' = [graph_queue EXCEPT ![e].g = NoGraph]
        /\ pc' = [pc EXCEPT ![a] = "waitPost"] /\ lock' = lock /\ graph' = graph
        /\ data' = data /\ input' = input /\ output' = output /\ ran' = ran
        /\ status' = status
    BY <1>12, <2>5, <2>6 DEF ClearSlot, Free, Goto
  <2>8. \A q \in Slots \ {e} : graph_queue'[q] = graph_queue[q]
    BY <2>7
  <2>9. graph_queue'[e].g = NoGraph
    BY <2>7
  <2>10. \A q \in Slots : HasResult(q) /\ q # e => HasResult(q)'
    BY <2>7, <2>8 DEF HasResult
  <2>11. /\ \A q \in Slots : On(input', q) => graph_queue'[q].g \notin ran'
         /\ \A q \in Slots : On(output', q) => HasResult(q)'
    BY <2>3, <2>7, <2>8, <2>10 DEF RanInv, Queued
  <2>12. QED
    BY <2>2, <2>7, <2>11 DEF RanInv
<1>13. ASSUME NEW a \in Apps, PutBack(a) PROVE RanInv'
  <2>1. PICK e \in Slots : e = data[a]
    BY <1>13 DEF PutBack, StepInv
  <2>2. /\ pc[a] = "putBack" /\ pc' = [pc EXCEPT ![a] = "readOutput"] /\ graph' = graph
        /\ output' = Append(output, e) /\ input' = input /\ status' = status
        /\ graph_queue' = graph_queue /\ data' = data /\ ran' = ran
    BY <1>13, <2>1 DEF PutBack, PutOutput, Goto
  <2>3. HasResult(e) /\ \A b \in Apps : b = a
    BY <1>13, <2>1, <2>2 DEF RanInv, OneCaller
  <2>4. \A q : On(output', q) <=> On(output, q) \/ q = e
    BY <2>2, OnAppend
  <2>5. \A q : HasResult(q)' <=> HasResult(q)
    BY <2>2 DEF HasResult
  <2>6. QED
    BY <2>2, <2>3, <2>4, <2>5 DEF RanInv
<1>14. ASSUME NEW a \in Apps, WaitPost(a) PROVE RanInv'
  BY <1>14 DEF RanInv, WaitPost, Return, Goto, HasResult, StepInv, OneCaller
<1>15. ASSUME NEW a \in Threads, Enter(a) PROVE RanInv'
  BY <1>15 DEF RanInv, Enter, Goto, HasResult, StepInv, OneCaller
<1>16. ASSUME NEW a \in Threads, ReadCount(a) PROVE RanInv'
  BY <1>16 DEF RanInv, ReadCount, Goto, HasResult, StepInv, OneCaller
<1>17. ASSUME NEW a \in Threads, Execute(a) PROVE RanInv'
  <2>1. CASE a # GraphThread
    BY <1>17, <2>1 DEF RanInv, Execute, Goto, HasResult
  <2>2. CASE a = GraphThread
    <3>1. /\ pc[GraphThread] = "execute" /\ pc' = [pc EXCEPT ![GraphThread] = "leave"]
          /\ ran' = ran \cup {graph[GraphThread]} /\ status'[GraphThread] \in Outcomes
          /\ \A b \in Apps : status'[b] = status[b]
          /\ graph_queue' = graph_queue /\ input' = input /\ output' = output
          /\ data' = data /\ graph' = graph
      BY <1>17, <2>2 DEF Execute, Goto
    <3>2. PICK e \in Slots : /\ e = data[GraphThread]
                             /\ graph_queue[e].g = graph[GraphThread]
                             /\ graph[GraphThread] # NoGraph
      BY <3>1 DEF EntryInv, StepInv, Holds
    <3>3. InHand(GraphThread) /\ ~Queued(e)
      BY <3>1, <3>2 DEF OwnerInv, InHand
    <3>4. \A q \in Slots \ {e} : graph_queue[q].g # graph[GraphThread]
      BY <3>2 DEF EntryInv, Holds
    <3>5. ASSUME NEW b \in Apps, pc[b] = "writeInput" PROVE graph[b] \notin ran'
      <4>1. data[b] \in Slots /\ InHand(b) /\ graph_queue[data[b]].g = graph[b]
        BY <3>5 DEF EntryInv, Holds, InHand, StepInv
      <4>2. data[b] # e
        BY <3>2, <3>3, <4>1 DEF OwnerInv
      <4>3. QED
        BY <3>1, <3>4, <3>5, <4>1, <4>2 DEF RanInv
    <3>6. \A q \in Slots : On(input, q) => graph_queue[q].g \notin ran'
      BY <3>1, <3>3, <3>4 DEF RanInv, Queued
    <3>7. QED
      BY <3>1, <3>5, <3>6 DEF RanInv, HasResult
  <2>3. QED
    BY <2>1, <2>2
<1>18. ASSUME NEW a \in Threads, Leave(a) PROVE RanInv'
  BY <1>18 DEF RanInv, Leave, Return, Goto, HasResult, StepInv, OneCaller
<1>19. ASSUME ReadInput PROVE RanInv'
  <2>1. PICK e \in Slots : e = Head(input) /\ input # <<>>
    BY <1>19 DEF ReadInput, TakeInput
  <2>2. /\ On(input, e) /\ input' = Tail(input)
        /\ \A q : On(input', q) => On(input, q)
    BY <1>19, <2>1, OnTail DEF ReadInput, TakeInput, OwnerInv
  <2>3. graph_queue[e].g # NoGraph
    BY <2>2 DEF OwnerInv, Queued, Holds
  <2>4. /\ graph_queue' = graph_queue /\ lock' = lock /\ output' = output /\ ran' = ran
        /\ status' = status /\ data' = [data EXCEPT ![GraphThread] = e]
        /\ graph' = [graph EXCEPT ![GraphThread] = graph_queue[e].g]
        /\ pc' = [pc EXCEPT ![GraphThread] = "enter"]
    BY <1>19, <2>1, <2>3 DEF ReadInput, Goto
  <2>5. graph_queue[e].g \notin ran
    BY <2>2 DEF RanInv
  <2>6. QED
    BY <2>2, <2>4, <2>5 DEF RanInv, HasResult
<1>20. ASSUME WriteOutput PROVE RanInv'
  <2>1. PICK e \in Slots : e = data[GraphThread] /\ graph_queue[e].g = graph[GraphThread]
    BY <1>20 DEF WriteOutput, StepInv, EntryInv, Holds
  <2>2. /\ pc[GraphThread] = "writeOutput" /\ pc'[GraphThread] = "idle"
        /\ \A b \in Apps : /\ pc'[b] = pc[b] /\ graph'[b] = graph[b] /\ data'[b] = data[b]
                           /\ status'[b] = status[b]
        /\ graph_queue' = [graph_queue EXCEPT
             ![e] = [g |-> graph[GraphThread], s |-> status[GraphThread]]]
        /\ output' = Append(output, e) /\ input' = input /\ ran' = ran
    BY <1>20, <2>1 DEF WriteOutput, StoreResult, PutOutput, Return, Goto
  <2>3. InHand(GraphThread) /\ ~Queued(e)
    BY <2>1, <2>2 DEF OwnerInv, InHand
  <2>4. \A q \in Slots \ {e} : graph_queue'[q] = graph_queue[q]
    BY <2>2
  <2>5. HasResult(e)' /\ \A q \in Slots : HasResult(q) => HasResult(q)'
    BY <2>2, <2>4 DEF RanInv, HasResult
  <2>6. \A q : On(output', q) <=> On(output, q) \/ q = e
    BY <2>2, OnAppend
  <2>7. \A b \in Apps : pc[b] \in {"inspect", "putBack", "clear"} => data[b] \in Slots
    BY DEF StepInv
  <2>8. QED
    BY <2>2, <2>3, <2>4, <2>5, <2>6, <2>7 DEF RanInv, Queued
<1>21. \A a \in Apps : ~AppFails(a) /\ ~WriteOutputFails
  BY DEF AppFails, WriteInputFails, ReadOutputFails, PutBackFails,
     WriteOutputFails, QueueFails
<1>22. GraphThread \in Threads /\ \A a \in Apps : a \in Threads
  BY DEF Threads
<1>23. ~WriteOutputFails
  BY DEF WriteOutputFails, QueueFails
<1>24. QED
  BY <1>1, <1>2, <1>3, <1>4, <1>5, <1>6, <1>7, <1>8, <1>9, <1>10, <1>11, <1>12,
     <1>13, <1>14, <1>15, <1>16, <1>17, <1>18, <1>19, <1>20, <1>21, <1>22, <1>23 DEF
     Next, Call, AppWorks, ProcessStep, GraphThreadWorks

(* While every graph can have an entry, a thread that looks for a free one *)
(* finds it: its own graph has none.                                       *)
LEMMA TableNotFull ==
  ASSUME EnoughEntries, IInv, Tables, NEW a \in Apps, pc[a] = "claim"
  PROVE  \E q \in Slots : Holds(q, NoGraph)
<1> SUFFICES ASSUME \A q \in Slots : ~Holds(q, NoGraph) PROVE FALSE
  OBVIOUS
<1> DEFINE f == [q \in Slots |-> graph_queue[q].g]
           T == Graphs \ {graph[a]}
<1>1. graph[a] \in Graphs /\ \A q \in Slots : graph_queue[q].g \in T
  BY DEF Tables, IInv, StepInv, EntryInv, Without, Holds, OneExecutionUsesThePool,
     TypeOK, Threads
<1>2. \A q, r \in Slots : q # r => f[q] # f[r]
  BY DEF Tables, EntryInv, Holds
<1>3. /\ IsFiniteSet(T) /\ Cardinality(T) = Cardinality(Graphs) - 1
      /\ Cardinality(Graphs) \in Nat
  BY <1>1, FS_RemoveElement, FS_CardinalityType DEF EnoughEntries
<1>4. IsFiniteSet(Slots) /\ Cardinality(Slots) = NumSlots
  BY FS_Interval, SlotsAssumption DEF Slots
<1>5. f \in [Slots -> T] /\ Cardinality(T) < Cardinality(Slots)
  BY <1>1, <1>3, <1>4, SlotsAssumption DEF EnoughEntries
<1> HIDE DEF f, T
<1>6. \E q, r \in Slots : q # r /\ f[q] = f[r]
  BY <1>3, <1>4, <1>5, FS_PigeonHole
<1>7. QED
  BY <1>2, <1>6

(* A graph that is locked gets its entry and keeps it.                     *)
LEMMA LockedStep ==
  ASSUME OneCaller, EnoughEntries, IInv, Tables, LockedInv, Next, failures' = 0
  PROVE  LockedInv'
<1> USE ThreadsAssumption, NoGraphAssumption DEF GraphSteps, Tables, IInv,
       OneExecutionUsesThePool, TypeOK, Threads
<1>1. ASSUME NEW a \in Apps, NEW g \in Graphs, ScheduleLock(a, g) PROVE LockedInv'
  BY <1>1 DEF LockedInv, ScheduleLock, Goto, Holds, Without, OneCaller, StepInv
<1>2. ASSUME NEW a \in Apps, NEW g \in Graphs, ScheduleRefused(a, g) PROVE LockedInv'
  BY <1>2 DEF LockedInv, ScheduleRefused, Return, Goto, Holds, Without, OneCaller,
     StepInv
<1>3. ASSUME NEW a \in Apps, NEW g \in Graphs, WaitFree(a, g) PROVE LockedInv'
  BY <1>3 DEF LockedInv, WaitFree, Goto, Holds, Without, OneCaller, StepInv
<1>4. ASSUME NEW a \in Apps, NEW g \in Graphs, WaitLocked(a, g) PROVE LockedInv'
  BY <1>4 DEF LockedInv, WaitLocked, Goto, Holds, Without, OneCaller, StepInv
<1>5. ASSUME NEW a \in Apps, NEW g \in Graphs, CallProcess(a, g) PROVE LockedInv'
  BY <1>5 DEF LockedInv, CallProcess, Goto, Holds, Without, OneCaller, StepInv
<1>6. ASSUME NEW a \in Apps, ClaimSlot(a) PROVE LockedInv'
  BY <1>6 DEF LockedInv, ClaimSlot, Goto, Holds, Without, OneCaller, StepInv
<1>7. ASSUME NEW a \in Apps, NoSlot(a) PROVE LockedInv'
  BY <1>7, TableNotFull DEF NoSlot
<1>8. ASSUME NEW a \in Apps, FillSlot(a) PROVE LockedInv'
  <2>1. PICK e \in Slots : e = data[a]
    BY <1>8 DEF FillSlot, StepInv
  <2>2. pc[a] = "fill" /\ graph[a] \in Graphs /\ \A b \in Apps : b = a
    BY <1>8 DEF FillSlot, StepInv, OneCaller
  <2>3. InHand(a) /\ ~Queued(e) /\ \A t \in Threads \ {a} : InHand(t) => data[t] # e
    BY <2>1, <2>2 DEF OwnerInv, InHand
  <2>4. pc[GraphThread] # "idle" => data[GraphThread] # e /\ data[GraphThread] \in Slots
    BY <2>3 DEF InHand, StepInv
  <2>5. Holds(e, NoGraph)
    BY <2>2, <2>3 DEF OwnerInv, Queued
  <2>6. /\ graph_queue' = [graph_queue EXCEPT ![e] = [g |-> graph[a], s |-> "VX_SUCCESS"]]
        /\ pc' = [pc EXCEPT ![a] = "writeInput"] /\ lock' = lock /\ graph' = graph
        /\ data' = data /\ input' = input /\ output' = output /\ ran' = ran \ {graph[a]}
        /\ status' = status
    BY <1>8, <2>1 DEF FillSlot, Goto
  <2>7. \A q \in Slots \ {e} : graph_queue'[q] = graph_queue[q]
    BY <2>6
  <2>8. graph_queue'[e].g = graph[a] /\ \A q \in Slots : ~Holds(q, graph[a])
    BY <2>2, <2>6 DEF EntryInv, Without
  <2>9. QED
    BY <2>2, <2>5, <2>6, <2>7, <2>8 DEF LockedInv, Holds, Without
<1>9. ASSUME NEW a \in Apps, WriteInput(a) PROVE LockedInv'
  BY <1>9 DEF LockedInv, WriteInput, Return, Goto, Holds, Without, OneCaller, StepInv
<1>10. ASSUME NEW a \in Apps, ReadOutput(a) PROVE LockedInv'
  BY <1>10 DEF LockedInv, ReadOutput, Goto, Holds, Without, OneCaller, StepInv
<1>11. ASSUME NEW a \in Apps, Inspect(a) PROVE LockedInv'
  BY <1>11 DEF LockedInv, Inspect, Goto, Holds, Without, OneCaller, StepInv
<1>12. ASSUME NEW a \in Apps, ClearSlot(a) PROVE LockedInv'
  <2>1. PICK e \in Slots : e = data[a]
    BY <1>12 DEF ClearSlot, StepInv
  <2>2. pc[a] = "clear" /\ graph[a] \in Graphs /\ \A b \in Apps : b = a
    BY <1>12 DEF ClearSlot, StepInv, OneCaller
  <2>3. InHand(a) /\ ~Queued(e) /\ \A t \in Threads \ {a} : InHand(t) => data[t] # e
    BY <2>1, <2>2 DEF OwnerInv, InHand
  <2>4. pc[GraphThread] # "idle" => data[GraphThread] # e /\ data[GraphThread] \in Slots
    BY <2>3 DEF InHand, StepInv
  <2>5. {q \in Slots : Holds(q, graph[a])} = {e} /\ Holds(e, graph[a])
    <3>1. Holds(e, graph[a])
      BY <2>1, <2>2 DEF EntryInv
    <3>2. QED
      BY <2>2, <3>1 DEF EntryInv, Holds
  <2>6. Lowest({q \in Slots : Holds(q, graph[a])}) = e
    BY <2>5, LowestIsSlot
  <2>7. /\ graph_queue' = [graph_queue EXCEPT ![e].g = NoGraph]
        /\ pc' = [pc EXCEPT ![a] = "waitPost"] /\ lock' = lock /\ graph' = graph
        /\ data' = data /\ input' = input /\ output' = output /\ ran' = ran
        /\ status' = status
    BY <1>12, <2>5, <2>6 DEF ClearSlot, Free, Goto
  <2>8. \A q \in Slots \ {e} : graph_queue'[q] = graph_queue[q]
    BY <2>7
  <2>9. graph_queue'[e].g = NoGraph
    BY <2>7
  <2>10. QED
    BY <2>2, <2>5, <2>7, <2>8 DEF LockedInv, Holds, Without
<1>13. ASSUME NEW a \in Apps, PutBack(a) PROVE LockedInv'
  BY <1>13 DEF LockedInv, PutBack, PutOutput, Goto, Holds, Without, OneCaller, StepInv
<1>14. ASSUME NEW a \in Apps, WaitPost(a) PROVE LockedInv'
  <2>1. PICK g \in Graphs : g = graph[a] /\ lock[g] = 0
    BY <1>14 DEF WaitPost, StepInv, EntryInv, Locking
  <2>2. /\ lock' = [lock EXCEPT ![g] = 1] /\ graph_queue' = graph_queue
        /\ \A b \in Apps : b = a
    BY <1>14, <2>1 DEF WaitPost, PostLock, OneCaller
  <2>3. QED
    BY <2>1, <2>2 DEF LockedInv, Holds, Without
<1>15. ASSUME NEW a \in Threads, Enter(a) PROVE LockedInv'
  BY <1>15 DEF LockedInv, Enter, Goto, Holds, Without, OneCaller, StepInv
<1>16. ASSUME NEW a \in Threads, ReadCount(a) PROVE LockedInv'
  BY <1>16 DEF LockedInv, ReadCount, Goto, Holds, Without, OneCaller, StepInv
<1>17. ASSUME NEW a \in Threads, Execute(a) PROVE LockedInv'
  BY <1>17 DEF LockedInv, Execute, Goto, Holds, Without, OneCaller, StepInv
<1>18. ASSUME NEW a \in Threads, Leave(a) PROVE LockedInv'
  BY <1>18 DEF LockedInv, Leave, Return, Goto, Holds, Without, OneCaller, StepInv
<1>19. ASSUME ReadInput PROVE LockedInv'
  BY <1>19 DEF LockedInv, ReadInput, TakeInput, Goto, Holds, Without, OneCaller,
     StepInv
<1>20. ASSUME WriteOutput PROVE LockedInv'
  <2>1. PICK e \in Slots : e = data[GraphThread] /\ graph_queue[e].g = graph[GraphThread]
    BY <1>20 DEF WriteOutput, StepInv, EntryInv, Holds
  <2>2. /\ \A b \in Apps : pc'[b] = pc[b] /\ graph'[b] = graph[b]
        /\ \A q \in Slots : graph_queue'[q].g = graph_queue[q].g
        /\ lock' = lock
    BY <1>20, <2>1 DEF WriteOutput, StoreResult, Return, Goto
  <2>3. QED
    BY <2>2 DEF LockedInv, Holds
<1>21. \A a \in Apps : ~AppFails(a) /\ ~WriteOutputFails
  BY DEF AppFails, WriteInputFails, ReadOutputFails, PutBackFails,
     WriteOutputFails, QueueFails
<1>22. GraphThread \in Threads /\ \A a \in Apps : a \in Threads
  BY DEF Threads
<1>23. ~WriteOutputFails
  BY DEF WriteOutputFails, QueueFails
<1>24. QED
  BY <1>1, <1>2, <1>3, <1>4, <1>5, <1>6, <1>7, <1>8, <1>9, <1>10, <1>11, <1>12,
     <1>13, <1>14, <1>15, <1>16, <1>17, <1>18, <1>19, <1>20, <1>21, <1>22, <1>23 DEF
     Next, Call, AppWorks, ProcessStep, GraphThreadWorks

(* Failures are not forgotten.                                             *)
LEMMA FailuresStay ==
  ASSUME IInv, [Next]_vars, failures' = 0
  PROVE  failures = 0
<1> USE DEF IInv, OneExecutionUsesThePool, TypeOK
<1>1. ASSUME NEW a \in Apps, NEW g \in Graphs, Call(a, g) PROVE failures = 0
  BY <1>1 DEF Call, ScheduleLock, ScheduleRefused, WaitFree, WaitLocked, CallProcess
<1>2. ASSUME NEW a \in Apps, AppWorks(a) PROVE failures = 0
  BY <1>2 DEF AppWorks, ClaimSlot, NoSlot, FillSlot, WriteInput, ReadOutput,
     Inspect, ClearSlot, PutBack, WaitPost
<1>3. ASSUME NEW t, ProcessStep(t) PROVE failures = 0
  BY <1>3 DEF ProcessStep, Enter, ReadCount, Execute, Leave
<1>4. CASE ReadInput \/ WriteOutput
  BY <1>4 DEF ReadInput, WriteOutput
<1>5. ~WriteOutputFails /\ \A a \in Apps : ~AppFails(a)
  BY DEF WriteOutputFails, AppFails, WriteInputFails, ReadOutputFails, PutBackFails,
     QueueFails
<1>6. CASE UNCHANGED vars
  BY <1>6 DEF vars
<1>7. QED
  BY <1>1, <1>2, <1>3, <1>4, <1>5, <1>6 DEF Next, GraphThreadWorks

(* At first every entry is free and no graph is locked.                    *)
LEMMA InitTables == Init => Tables /\ LockedInv
<1> SUFFICES ASSUME Init PROVE Tables /\ LockedInv
  OBVIOUS
<1> USE NoGraphAssumption, ThreadsAssumption DEF Init, Holds
<1>1. \A q : ~On(input, q) /\ ~On(output, q) /\ ~Queued(q)
  BY DEF On, Queued
<1>2. \A t \in Threads : ~InHand(t) /\ pc[t] = "idle"
  BY DEF InHand
<1>3. GraphThread \in Threads /\ \A a \in Apps : a \in Threads
  BY DEF Threads
<1>4. OwnerInv
  BY <1>1, <1>2, <1>3 DEF OwnerInv, Single, GraphSteps
<1>5. EntryInv
  BY <1>2, <1>3 DEF EntryInv, Without, Locking
<1>6. RanInv
  BY <1>1, <1>2, <1>3 DEF RanInv
<1>7. LockedInv
  BY DEF LockedInv
<1>8. QED
  BY <1>4, <1>5, <1>6, <1>7 DEF Tables

TableInv == failures = 0 => Tables
MatchInv == failures = 0 => LockedInv

(* Every step keeps the tables in step, until a queue call fails.          *)
LEMMA TablesKept ==
  ASSUME OneCaller, IInv, TableInv, [Next]_vars
  PROVE  TableInv'
<1> SUFFICES ASSUME failures' = 0 PROVE Tables'
  BY DEF TableInv
<1>1. Tables
  BY FailuresStay DEF TableInv
<1>2. CASE Next
  BY <1>1, <1>2, OwnerStep, EntryStep, RanStep DEF Tables
<1>3. CASE UNCHANGED vars
  BY <1>1, <1>3
  DEF vars, Tables, OwnerInv, EntryInv, RanInv, On, Single, Queued, InHand, Holds,
      HasResult
<1>4. QED
  BY <1>2, <1>3

(* As long as no queue call failed, one caller keeps entries, locks and    *)
(* results in step with the graph thread (vxScheduleGraph, vxWaitGraph,    *)
(* vxWorkerGraph), for any number of graphs and entries.                   *)
THEOREM EntriesInStep ==
  ASSUME OneCaller
  PROVE  Spec => [](IInv /\ TableInv)
<1>1. Init => IInv /\ TableInv
  BY InitInv, InitTables DEF TableInv
<1>2. (IInv /\ TableInv) /\ [Next]_vars => (IInv /\ TableInv)'
  BY StepInvariant, TablesKept
<1>3. QED
  BY <1>1, <1>2, PTL DEF Spec

(* The size of a set of at most one.                                       *)
LEMMA OneOrNone ==
  ASSUME NEW S, \A x, y \in S : x = y
  PROVE  Cardinality(S) = IF S = {} THEN 0 ELSE 1
<1>1. CASE S = {}
  BY <1>1, FS_EmptySet
<1>2. CASE S # {}
  <2>1. PICK x \in S : TRUE
    BY <1>2
  <2>2. S = {x}
    BY <2>1
  <2>3. QED
    BY <1>2, <2>2, FS_Singleton
<1>3. QED
  BY <1>1, <1>2

(* A pointer to an entry of graph_queue is in one queue or one thread's    *)
(* hands, and nowhere once the entry is free: vxScheduleGraph never takes  *)
(* an entry that is still on its way (vxScheduleGraph, vxWaitGraph,        *)
(* vxWorkerGraph).                                                         *)
THEOREM EntriesHaveOneOwner ==
  ASSUME OneCaller
  PROVE  Spec => []EntryHasOneOwner
<1>1. IInv /\ TableInv => EntryHasOneOwner
  <2> SUFFICES ASSUME IInv, Tables, NEW q \in Slots
               PROVE  /\ Occurrences(q) <= 1
                      /\ ~Holds(q, NoGraph) => Occurrences(q) = 1
    BY DEF TableInv, EntryHasOneOwner
  <2> DEFINE I == {k \in 1 .. Len(input) : input[k] = q}
             O == {k \in 1 .. Len(output) : output[k] = q}
  <2>1. /\ \A j, k \in I : j = k
        /\ \A j, k \in O : j = k
        /\ I # {} <=> On(input, q)
        /\ O # {} <=> On(output, q)
    BY DEF Tables, OwnerInv, Single, On
  <2>2. Carried(q) = {t \in Threads : InHand(t) /\ data[t] = q}
    BY ThreadsAssumption DEF Carried, InHand, Threads
  <2>3. \A t, u \in Carried(q) : t = u
    BY <2>2 DEF Tables, OwnerInv
  <2>4. /\ Cardinality(I) = IF On(input, q) THEN 1 ELSE 0
        /\ Cardinality(O) = IF On(output, q) THEN 1 ELSE 0
        /\ Cardinality(Carried(q)) = IF Carried(q) = {} THEN 0 ELSE 1
    BY <2>1, <2>3, OneOrNone, Zenon
  <2>5. /\ ~ (On(input, q) /\ On(output, q))
        /\ Carried(q) # {} => ~On(input, q) /\ ~On(output, q)
        /\ ~Holds(q, NoGraph) => On(input, q) \/ On(output, q) \/ Carried(q) # {}
    BY <2>2 DEF Tables, OwnerInv, Queued
  <2>6. Occurrences(q) = Cardinality(I) + Cardinality(O) + Cardinality(Carried(q))
    BY DEF Occurrences
  <2>7. QED
    BY <2>4, <2>5, <2>6
<1>2. QED
  BY <1>1, EntriesInStep, PTL

(* vxWaitGraph takes for its graph a result of an execution later than the *)
(* vxScheduleGraph it waits for.                                           *)
THEOREM WaitersGetTheirResult ==
  ASSUME OneCaller
  PROVE  Spec => []WaitGetsItsOwnResult
<1>1. IInv /\ TableInv => WaitGetsItsOwnResult
  BY DEF TableInv, Tables, EntryInv, RanInv, HasResult, Holds, WaitGetsItsOwnResult
<1>2. QED
  BY <1>1, EntriesInStep, PTL

(* A graph that was scheduled once is executed once by the graph thread.   *)
THEOREM RunsOnce ==
  ASSUME OneCaller
  PROVE  Spec => ScheduledRunsOnce
<1>1. TableInv =>
        [failures = 0 /\ pc[GraphThread] = "execute" /\ pc'[GraphThread] # "execute"
           => graph[GraphThread] \notin ran]_vars
  BY DEF TableInv, Tables, RanInv
<1>2. QED
  BY <1>1, EntriesInStep, PTL DEF ScheduledRunsOnce

(* If every graph can have an entry, the entries between two calls are     *)
(* those of the graphs that are locked: none is lost or left behind.       *)
THEOREM LocksMatchEntries ==
  ASSUME OneCaller, EnoughEntries
  PROVE  Spec => []EntriesMatchLocks
<1>1. Init => MatchInv
  BY InitTables DEF MatchInv
<1>2. IInv /\ TableInv /\ MatchInv /\ [Next]_vars => MatchInv'
  <2> SUFFICES ASSUME IInv, TableInv, MatchInv, [Next]_vars, failures' = 0
               PROVE  LockedInv'
    BY DEF MatchInv
  <2>1. Tables /\ LockedInv
    BY FailuresStay DEF TableInv, MatchInv
  <2>2. CASE Next
    BY <2>1, <2>2, LockedStep
  <2>3. CASE UNCHANGED vars
    BY <2>1, <2>3 DEF vars, LockedInv, Holds
  <2>4. QED
    BY <2>2, <2>3
<1>3. IInv /\ TableInv /\ MatchInv => EntriesMatchLocks
  <2> SUFFICES ASSUME IInv, Tables, LockedInv, \A a \in Apps : pc[a] = "idle",
                      NEW g \in Graphs
               PROVE  Cardinality({q \in Slots : Holds(q, g)}) = 1 - lock[g]
    BY DEF TableInv, MatchInv, EntriesMatchLocks
  <2>1. \A q, r \in {s \in Slots : Holds(s, g)} : q = r
    BY NoGraphAssumption DEF Tables, EntryInv, Holds
  <2>2. {q \in Slots : Holds(q, g)} = {} <=> lock[g] = 1
    BY DEF Tables, EntryInv, LockedInv, Without
  <2>3. lock[g] \in {0, 1}
    BY DEF Tables, EntryInv
  <2>4. Cardinality({q \in Slots : Holds(q, g)}) =
          IF {q \in Slots : Holds(q, g)} = {} THEN 0 ELSE 1
    BY <2>1, OneOrNone, Zenon
  <2>5. QED
    BY <2>2, <2>3, <2>4
<1>4. QED
  BY <1>1, <1>2, <1>3, EntriesInStep, PTL DEF Spec

=============================================================================
