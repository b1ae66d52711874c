-------------------------- MODULE OsalQueue_proofs --------------------------
(***************************************************************************)
(* The safety properties of OsalQueue, for every depth of the ring, every  *)
(* set of threads in any mix of roles, and with or without spurious        *)
(* wakeups.  IInv of OsalQueue is the inductive invariant; one lemma per   *)
(* conjunct says that every step preserves it.                             *)
(*                                                                         *)
(* And OsalQueue implements BoundedFifo: the step that stores a pointer    *)
(* appends it to what the ring holds, the step that takes one takes its    *)
(* head, a pop closes the buffer, and every other step leaves it alone.    *)
(***************************************************************************)
EXTENDS OsalQueue, SequenceTheorems, TLAPS

(* Moving an index of the ring one place on. *)
LEMMA NextIndex ==
  ASSUME NEW x \in Slots
  PROVE  /\ NextSlot(x) = IF x = Depth - 1 THEN 0 ELSE x + 1
         /\ NextSlot(x) \in Slots
  BY DepthAssumption DEF Slots, NextSlot

(* What a writer does to the ring: it fills slot e and moves end_index on. *)
LEMMA StoreEffect ==
  ASSUME TypeOK, NEW t \in Threads, WriteStore(t)
  PROVE  \E e \in Slots :
           /\ ~Full
           /\ e = IF Empty THEN start_index ELSE end_index
           /\ data' = [data EXCEPT ![e] = arg[t]]
           /\ end_index' = IF e = Depth - 1 THEN 0 ELSE e + 1
           /\ end_index' \in Slots
           /\ start_index' = start_index
<1> DEFINE e == WriteSlot
<1>1. e \in Slots
  BY DEF TypeOK, Empty, WriteSlot
<1>2. data' = [data EXCEPT ![e] = arg[t]] /\ end_index' = NextSlot(e)
  BY DEF WriteStore
<1>3. start_index' = start_index /\ ~Full
  BY DEF WriteStore
<1> HIDE DEF e
<1>4. end_index' \in Slots /\ end_index' = IF e = Depth - 1 THEN 0 ELSE e + 1
  BY <1>1, <1>2, NextIndex
<1>5. QED
  BY <1>1, <1>2, <1>3, <1>4 DEF e, WriteSlot

(* Whom a writer that has stored its pointer signals. *)
LEMMA StoreSignal ==
  ASSUME NEW t \in Threads, WriteStore(t)
  PROVE  \/ ~Full' /\ SetEvent("write", t, "signalReaders")
         \/ Full' /\ Goto(t, "signalReaders") /\ set' = set
<1>1. start_index' = start_index
  BY DEF WriteStore
<1>2. IF end_index' # start_index
      THEN SetEvent("write", t, "signalReaders")
      ELSE Goto(t, "signalReaders") /\ UNCHANGED set
  BY DEF WriteStore
<1>3. QED
  BY <1>1, <1>2 DEF Full

(* What a reader does to the ring: it clears the first slot, moves         *)
(* start_index on, and marks a ring it has emptied.                        *)
LEMMA TakeEffect ==
  ASSUME TypeOK, NEW t \in Threads, ReadTake(t)
  PROVE  /\ ~Empty
         /\ data' = [data EXCEPT ![start_index] = NULL]
         /\ start_index' = IF start_index = Depth - 1 THEN 0 ELSE start_index + 1
         /\ start_index' \in Slots
         /\ end_index' = IF start_index' = end_index THEN -1 ELSE end_index
<1>1. start_index \in Slots
  BY DEF TypeOK
<1>2. start_index' = NextSlot(start_index)
  BY DEF ReadTake
<1>3. start_index' \in Slots /\ start_index' = IF start_index = Depth - 1 THEN 0 ELSE start_index + 1
  BY <1>1, <1>2, NextIndex
<1>4. QED
  BY <1>3 DEF ReadTake

(* Steps keep the types. *)
LEMMA TypeStep ==
  ASSUME TypeOK, OpInv, [Next]_vars
  PROVE  TypeOK'
<1>1. CASE UNCHANGED vars
  BY <1>1 DEF vars, TypeOK, ring
<1>2. ASSUME Next PROVE TypeOK'
  <2>1. PICK t \in Threads : Call(t) \/ SpuriousWakeup(t) \/ SemWait(t) \/ Advance(t)
    BY <1>2 DEF Next
  <2>2. CASE \E v \in Values : CallWrite(t, v)
    BY <2>2 DEF CallWrite, TypeOK, OpInv, Steps, ring, Threads, Goto
  <2>3. CASE CallRead(t)
    BY <2>3 DEF CallRead, TypeOK, OpInv, Steps, ring, Threads, Goto
  <2>4. CASE CallPop(t)
    BY <2>4 DEF CallPop, TypeOK, OpInv, Steps, ring, Threads, Goto
  <2>5. CASE WaitEvent(t)
    BY <2>5 DEF WaitEvent, TypeOK, OpInv, Steps, ring, Threads, Goto
  <2>6. CASE SpuriousWakeup(t)
    BY <2>6 DEF SpuriousWakeup, TypeOK, OpInv, Steps, ring, Threads, Goto
  <2>7. CASE WakeUp(t)
    BY <2>7 DEF WakeUp, TypeOK, OpInv, Steps, ring, Threads, Goto
  <2>8. CASE SemWait(t)
    BY <2>8 DEF SemWait, TypeOK, OpInv, Steps, ring, Threads, Goto
  <2>9. CASE SemPost(t)
    BY <2>9 DEF SemPost, TypeOK, OpInv, Steps, ring, Threads, Goto
  <2>10. CASE Check(t)
    BY <2>10 DEF Check, TypeOK, OpInv, Steps, ring, Threads, Goto
  <2>11. CASE EnterPopped(t)
    BY <2>11 DEF EnterPopped, TypeOK, OpInv, Steps, ring, Threads, Goto
  <2>12. CASE WriteReset(t)
    BY <2>12 DEF WriteReset, TypeOK, OpInv, Steps, ring, Threads, Goto, ResetEvent
  <2>13. CASE WriteStore(t)
    <3>1. data' \in [Slots -> Values \cup {NULL}] /\ end_index' \in Slots
      BY <2>13, StoreEffect DEF TypeOK
    <3>2. set' \in [{"read", "write"} -> BOOLEAN] /\ pc' \in [Threads -> Steps]
      <4>1. CASE SetEvent("write", t, "signalReaders")
        BY <4>1 DEF TypeOK, Steps, SetEvent, Broadcast
      <4>2. CASE Goto(t, "signalReaders") /\ set' = set
        BY <4>2 DEF TypeOK, Steps, Goto
      <4>3. QED
        BY <2>13, <4>1, <4>2, StoreSignal
    <3>3. QED
      BY <2>13, <3>1, <3>2 DEF WriteStore, TypeOK
  <2>14. CASE WriteFull(t)
    BY <2>14 DEF WriteFull, TypeOK, OpInv, Steps, ring, Threads, Goto
  <2>15. CASE ReadTake(t)
    BY <2>15, NextIndex DEF ReadTake, TypeOK, OpInv, Steps, ring, Threads, Goto, ResetEvent
  <2>16. CASE ReadEmpty(t)
    BY <2>16 DEF ReadEmpty, TypeOK, OpInv, Steps, ring, Threads, Goto
  <2>17. CASE PopSet(t)
    BY <2>17 DEF PopSet, TypeOK, OpInv, Steps, ring, Threads, Goto
  <2>18. CASE SignalReaders(t)
    BY <2>18 DEF SignalReaders, TypeOK, OpInv, Steps, ring, Threads, SetEvent, Broadcast
  <2>19. CASE SignalWriters(t)
    BY <2>19 DEF SignalWriters, TypeOK, OpInv, Steps, ring, Threads, SetEvent, Broadcast
  <2>20. QED
    BY <2>1, <2>2, <2>3, <2>4, <2>5, <2>6, <2>7, <2>8, <2>9, <2>10, <2>11,
       <2>12, <2>13, <2>14, <2>15, <2>16, <2>17, <2>18, <2>19 DEF Call, Advance
<1>3. QED
  BY <1>1, <1>2

(* Steps keep the semaphore with one thread. *)
LEMMA LockStep ==
  ASSUME TypeOK, OpInv, LockInv, [Next]_vars
  PROVE  LockInv'
<1>1. CASE UNCHANGED vars
  BY <1>1 DEF vars, LockInv
<1>2. ASSUME Next PROVE LockInv'
  <2>1. PICK t \in Threads : Call(t) \/ SpuriousWakeup(t) \/ SemWait(t) \/ Advance(t)
    BY <1>2 DEF Next
  <2>2. CASE \E v \in Values : CallWrite(t, v)
    BY <2>2 DEF CallWrite, LockInv, OpInv, TypeOK, Holding, Goto
  <2>3. CASE CallRead(t)
    BY <2>3 DEF CallRead, LockInv, OpInv, TypeOK, Holding, Goto
  <2>4. CASE CallPop(t)
    BY <2>4 DEF CallPop, LockInv, OpInv, TypeOK, Holding, Goto
  <2>5. CASE WaitEvent(t)
    BY <2>5 DEF WaitEvent, LockInv, OpInv, TypeOK, Holding, Goto
  <2>6. CASE SpuriousWakeup(t)
    BY <2>6 DEF SpuriousWakeup, LockInv, OpInv, TypeOK, Holding, Goto
  <2>7. CASE WakeUp(t)
    BY <2>7 DEF WakeUp, LockInv, OpInv, TypeOK, Holding, Goto
  <2>8. CASE SemWait(t)
    BY <2>8, NoneAssumption DEF SemWait, LockInv, OpInv, TypeOK, Holding, Steps, Goto
  <2>9. CASE SemPost(t)
    BY <2>9, NoneAssumption DEF SemPost, LockInv, OpInv, TypeOK, Holding, Steps, Goto
  <2>10. CASE Check(t)
    BY <2>10 DEF Check, LockInv, OpInv, TypeOK, Holding, Goto
  <2>11. CASE EnterPopped(t)
    BY <2>11 DEF EnterPopped, LockInv, OpInv, TypeOK, Holding, Goto
  <2>12. CASE WriteReset(t)
    BY <2>12 DEF WriteReset, LockInv, OpInv, TypeOK, Holding, Goto, ResetEvent
  <2>13. CASE WriteStore(t)
    BY <2>13 DEF WriteStore, LockInv, OpInv, TypeOK, Holding, Goto, SetEvent, Broadcast
  <2>14. CASE WriteFull(t)
    BY <2>14 DEF WriteFull, LockInv, OpInv, TypeOK, Holding, Goto
  <2>15. CASE ReadTake(t)
    BY <2>15 DEF ReadTake, LockInv, OpInv, TypeOK, Holding, Goto, ResetEvent
  <2>16. CASE ReadEmpty(t)
    BY <2>16 DEF ReadEmpty, LockInv, OpInv, TypeOK, Holding, Goto
  <2>17. CASE PopSet(t)
    BY <2>17 DEF PopSet, LockInv, OpInv, TypeOK, Holding, Goto
  <2>18. CASE SignalReaders(t)
    BY <2>18 DEF SignalReaders, LockInv, OpInv, TypeOK, Holding, SetEvent, Broadcast
  <2>19. CASE SignalWriters(t)
    BY <2>19 DEF SignalWriters, LockInv, OpInv, TypeOK, Holding, SetEvent, Broadcast
  <2>20. QED
    BY <2>1, <2>2, <2>3, <2>4, <2>5, <2>6, <2>7, <2>8, <2>9, <2>10, <2>11,
       <2>12, <2>13, <2>14, <2>15, <2>16, <2>17, <2>18, <2>19 DEF Call, Advance
<1>3. QED
  BY <1>1, <1>2

(* Steps keep what a thread knows inside the semaphore. *)
LEMMA OpStep ==
  ASSUME TypeOK, OpInv, LockInv, [Next]_vars
  PROVE  OpInv'
<1>1. CASE UNCHANGED vars
  BY <1>1 DEF vars, OpInv, Empty, Full
<1>2. ASSUME Next PROVE OpInv'
  <2>1. PICK t \in Threads : Call(t) \/ SpuriousWakeup(t) \/ SemWait(t) \/ Advance(t)
    BY <1>2 DEF Next
  <2>2. CASE \E v \in Values : CallWrite(t, v)
    BY <2>2 DEF CallWrite, OpInv, LockInv, TypeOK, Holding, Empty, Full, ring, Goto
  <2>3. CASE CallRead(t)
    BY <2>3 DEF CallRead, OpInv, LockInv, TypeOK, Holding, Empty, Full, ring, Goto
  <2>4. CASE CallPop(t)
    BY <2>4 DEF CallPop, OpInv, LockInv, TypeOK, Holding, Empty, Full, ring, Goto
  <2>5. CASE WaitEvent(t)
    BY <2>5 DEF WaitEvent, OpInv, LockInv, TypeOK, Holding, Empty, Full, ring, Goto
  <2>6. CASE SpuriousWakeup(t)
    BY <2>6 DEF SpuriousWakeup, OpInv, LockInv, TypeOK, Holding, Empty, Full, ring, Goto
  <2>7. CASE WakeUp(t)
    BY <2>7 DEF WakeUp, OpInv, LockInv, TypeOK, Holding, Empty, Full, ring, Goto
  <2>8. CASE SemWait(t)
    BY <2>8 DEF SemWait, OpInv, LockInv, TypeOK, Holding, Empty, Full, ring, Goto
  <2>9. CASE SemPost(t)
    BY <2>9 DEF SemPost, OpInv, LockInv, TypeOK, Holding, Empty, Full, ring, Goto
  <2>10. CASE Check(t)
    BY <2>10 DEF Check, OpInv, LockInv, TypeOK, Holding, Empty, Full, ring, Goto
  <2>11. CASE EnterPopped(t)
    BY <2>11 DEF EnterPopped, OpInv, LockInv, TypeOK, Holding, Empty, Full, ring, Goto
  <2>12. CASE WriteReset(t)
    BY <2>12 DEF WriteReset, OpInv, LockInv, TypeOK, Holding, Empty, Full, ring, Goto, ResetEvent
  <2>13. CASE WriteStore(t)
    <3>1. ~Empty'
      BY <2>13, StoreEffect DEF Empty, Slots
    <3>2. \A s \in Threads \ {t} : pc[s] \notin Holding
      BY <2>13 DEF WriteStore, LockInv, Holding
    <3>3. UNCHANGED <<popped, op, arg>>
      BY <2>13 DEF WriteStore
    <3>4. op[t] = "write" /\ t \in Writers /\ arg[t] \in Values
      BY <2>13 DEF WriteStore, OpInv
    <3>5. CASE SetEvent("write", t, "signalReaders")
      BY <3>1, <3>2, <3>3, <3>4, <3>5 DEF OpInv, TypeOK, Holding, SetEvent, Broadcast
    <3>6. CASE Goto(t, "signalReaders") /\ set' = set
      BY <3>1, <3>2, <3>3, <3>4, <3>6 DEF OpInv, TypeOK, Holding, Goto
    <3>7. QED
      BY <2>13, <3>5, <3>6, StoreSignal
  <2>14. CASE WriteFull(t)
    BY <2>14 DEF WriteFull, OpInv, LockInv, TypeOK, Holding, Steps, Slots, Empty, Full, ring, Goto
  <2>15. CASE ReadTake(t)
    BY <2>15, TakeEffect DEF ReadTake, OpInv, LockInv, TypeOK, Holding, Steps, Slots, Empty, Full, ring, Goto, ResetEvent
  <2>16. CASE ReadEmpty(t)
    BY <2>16 DEF ReadEmpty, OpInv, LockInv, TypeOK, Holding, Steps, Slots, Empty, Full, ring, Goto
  <2>17. CASE PopSet(t)
    BY <2>17 DEF PopSet, OpInv, LockInv, TypeOK, Holding, Empty, Full, ring, Goto
  <2>18. CASE SignalReaders(t)
    BY <2>18 DEF SignalReaders, OpInv, LockInv, TypeOK, Holding, Empty, Full, ring, SetEvent, Broadcast
  <2>19. CASE SignalWriters(t)
    BY <2>19 DEF SignalWriters, OpInv, LockInv, TypeOK, Holding, Empty, Full, ring, SetEvent, Broadcast
  <2>20. QED
    BY <2>1, <2>2, <2>3, <2>4, <2>5, <2>6, <2>7, <2>8, <2>9, <2>10, <2>11,
       <2>12, <2>13, <2>14, <2>15, <2>16, <2>17, <2>18, <2>19 DEF Call, Advance
<1>3. QED
  BY <1>1, <1>2

(* Steps keep the flags right. *)
LEMMA EventStep ==
  ASSUME TypeOK, OpInv, LockInv, EventInv, [Next]_vars
  PROVE  EventInv'
<1>1. CASE UNCHANGED vars
  BY <1>1 DEF vars, EventInv, Empty, Full
<1>2. ASSUME Next PROVE EventInv'
  <2>1. PICK t \in Threads : Call(t) \/ SpuriousWakeup(t) \/ SemWait(t) \/ Advance(t)
    BY <1>2 DEF Next
  <2>2. CASE \E v \in Values : CallWrite(t, v)
    BY <2>2 DEF CallWrite, EventInv, OpInv, LockInv, TypeOK, Empty, Full, ring, Goto
  <2>3. CASE CallRead(t)
    BY <2>3 DEF CallRead, EventInv, OpInv, LockInv, TypeOK, Empty, Full, ring, Goto
  <2>4. CASE CallPop(t)
    BY <2>4 DEF CallPop, EventInv, OpInv, LockInv, TypeOK, Empty, Full, ring, Goto
  <2>5. CASE WaitEvent(t)
    BY <2>5 DEF WaitEvent, EventInv, OpInv, LockInv, TypeOK, Empty, Full, ring, Goto
  <2>6. CASE SpuriousWakeup(t)
    BY <2>6 DEF SpuriousWakeup, EventInv, OpInv, LockInv, TypeOK, Empty, Full, ring, Goto
  <2>7. CASE WakeUp(t)
    BY <2>7 DEF WakeUp, EventInv, OpInv, LockInv, TypeOK, Empty, Full, ring, Goto
  <2>8. CASE SemWait(t)
    BY <2>8 DEF SemWait, EventInv, OpInv, LockInv, TypeOK, Empty, Full, ring, Goto
  <2>9. CASE SemPost(t)
    BY <2>9 DEF SemPost, EventInv, OpInv, LockInv, TypeOK, Empty, Full, ring, Goto
  <2>10. CASE Check(t)
    BY <2>10 DEF Check, EventInv, OpInv, LockInv, TypeOK, Empty, Full, ring, Goto
  <2>11. CASE EnterPopped(t)
    BY <2>11 DEF EnterPopped, EventInv, OpInv, LockInv, TypeOK, Empty, Full, ring, Goto
  <2>12. CASE WriteReset(t)
    BY <2>12 DEF WriteReset, EventInv, OpInv, LockInv, TypeOK, Empty, Full, ring, Goto, ResetEvent
  <2>13. CASE WriteStore(t)
    <3>1. ~Empty'
      BY <2>13, StoreEffect DEF Empty, Slots
    <3>2. ~popped /\ ~set["write"] /\ popped' = popped
      BY <2>13 DEF WriteStore, OpInv
    <3>3. pc'[t] = "signalReaders" /\ set'["read"] = set["read"]
      BY <2>13, StoreSignal DEF TypeOK, Goto, SetEvent, Broadcast
    <3>4. IF Full' THEN ~set'["write"] ELSE set'["write"]
      BY <2>13, <3>2, StoreSignal DEF TypeOK, SetEvent, Broadcast
    <3>5. QED
      BY <3>1, <3>2, <3>3, <3>4 DEF EventInv
  <2>14. CASE WriteFull(t)
    BY <2>14 DEF WriteFull, EventInv, OpInv, LockInv, TypeOK, Empty, Full, ring, Goto
  <2>15. CASE ReadTake(t)
    BY <2>15, TakeEffect DEF ReadTake, EventInv, OpInv, LockInv, TypeOK, Holding, Steps, Slots, Empty, Full, ring, Goto, ResetEvent
  <2>16. CASE ReadEmpty(t)
    BY <2>16 DEF ReadEmpty, EventInv, OpInv, LockInv, TypeOK, Empty, Full, ring, Goto
  <2>17. CASE PopSet(t)
    BY <2>17 DEF PopSet, EventInv, OpInv, LockInv, TypeOK, Empty, Full, ring, Goto
  <2>18. CASE SignalReaders(t)
    BY <2>18 DEF SignalReaders, EventInv, OpInv, LockInv, TypeOK, Empty, Full, ring, SetEvent, Broadcast
  <2>19. CASE SignalWriters(t)
    BY <2>19 DEF SignalWriters, EventInv, OpInv, LockInv, TypeOK, Empty, Full, ring, SetEvent, Broadcast
  <2>20. QED
    BY <2>1, <2>2, <2>3, <2>4, <2>5, <2>6, <2>7, <2>8, <2>9, <2>10, <2>11,
       <2>12, <2>13, <2>14, <2>15, <2>16, <2>17, <2>18, <2>19 DEF Call, Advance
<1>3. QED
  BY <1>1, <1>2

(* Steps leave nobody asleep beside an event that is set. *)
LEMMA SleepStep ==
  ASSUME TypeOK, OpInv, SleepInv, [Next]_vars
  PROVE  SleepInv'
<1>1. CASE UNCHANGED vars
  BY <1>1 DEF vars, SleepInv, EventIsSet
<1>2. ASSUME Next PROVE SleepInv'
  <2>1. PICK t \in Threads : Call(t) \/ SpuriousWakeup(t) \/ SemWait(t) \/ Advance(t)
    BY <1>2 DEF Next
  <2>2. CASE \E v \in Values : CallWrite(t, v)
    BY <2>2 DEF CallWrite, SleepInv, EventIsSet, OpInv, TypeOK, Goto
  <2>3. CASE CallRead(t)
    BY <2>3 DEF CallRead, SleepInv, EventIsSet, OpInv, TypeOK, Goto
  <2>4. CASE CallPop(t)
    BY <2>4 DEF CallPop, SleepInv, EventIsSet, OpInv, TypeOK, Goto
  <2>5. CASE WaitEvent(t)
    BY <2>5 DEF WaitEvent, SleepInv, EventIsSet, OpInv, TypeOK, Goto
  <2>6. CASE SpuriousWakeup(t)
    BY <2>6 DEF SpuriousWakeup, SleepInv, EventIsSet, OpInv, TypeOK, Goto
  <2>7. CASE WakeUp(t)
    BY <2>7 DEF WakeUp, SleepInv, EventIsSet, OpInv, TypeOK, Goto
  <2>8. CASE SemWait(t)
    BY <2>8 DEF SemWait, SleepInv, EventIsSet, OpInv, TypeOK, Goto
  <2>9. CASE SemPost(t)
    BY <2>9 DEF SemPost, SleepInv, EventIsSet, OpInv, TypeOK, Goto
  <2>10. CASE Check(t)
    BY <2>10 DEF Check, SleepInv, EventIsSet, OpInv, TypeOK, Goto
  <2>11. CASE EnterPopped(t)
    BY <2>11 DEF EnterPopped, SleepInv, EventIsSet, OpInv, TypeOK, Goto
  <2>12. CASE WriteReset(t)
    BY <2>12 DEF WriteReset, SleepInv, EventIsSet, OpInv, TypeOK, Goto, ResetEvent
  <2>13. CASE WriteStore(t)
    BY <2>13 DEF WriteStore, SleepInv, EventIsSet, OpInv, TypeOK, Goto, SetEvent, Broadcast
  <2>14. CASE WriteFull(t)
    BY <2>14 DEF WriteFull, SleepInv, EventIsSet, OpInv, TypeOK, Goto
  <2>15. CASE ReadTake(t)
    BY <2>15 DEF ReadTake, SleepInv, EventIsSet, OpInv, TypeOK, Goto, ResetEvent
  <2>16. CASE ReadEmpty(t)
    BY <2>16 DEF ReadEmpty, SleepInv, EventIsSet, OpInv, TypeOK, Goto
  <2>17. CASE PopSet(t)
    BY <2>17 DEF PopSet, SleepInv, EventIsSet, OpInv, TypeOK, Goto
  <2>18. CASE SignalReaders(t)
    BY <2>18 DEF SignalReaders, SleepInv, EventIsSet, OpInv, TypeOK, SetEvent, Broadcast
  <2>19. CASE SignalWriters(t)
    BY <2>19 DEF SignalWriters, SleepInv, EventIsSet, OpInv, TypeOK, SetEvent, Broadcast
  <2>20. QED
    BY <2>1, <2>2, <2>3, <2>4, <2>5, <2>6, <2>7, <2>8, <2>9, <2>10, <2>11,
       <2>12, <2>13, <2>14, <2>15, <2>16, <2>17, <2>18, <2>19 DEF Call, Advance
<1>3. QED
  BY <1>1, <1>2

(* Steps keep the pointers between the indices. *)
LEMMA RingStep ==
  ASSUME TypeOK, OpInv, RingShape, [Next]_vars
  PROVE  RingShape'
<1>1. CASE UNCHANGED vars
  BY <1>1 DEF vars, RingShape, Occupied, Empty
<1>2. ASSUME Next PROVE RingShape'
  <2>1. PICK t \in Threads : Call(t) \/ SpuriousWakeup(t) \/ SemWait(t) \/ Advance(t)
    BY <1>2 DEF Next
  <2>2. CASE \E v \in Values : CallWrite(t, v)
    BY <2>2 DEF CallWrite, RingShape, Occupied, Empty, Full, TypeOK, Slots, ring
  <2>3. CASE CallRead(t)
    BY <2>3 DEF CallRead, RingShape, Occupied, Empty, Full, TypeOK, Slots, ring
  <2>4. CASE CallPop(t)
    BY <2>4 DEF CallPop, RingShape, Occupied, Empty, Full, TypeOK, Slots, ring
  <2>5. CASE WaitEvent(t)
    BY <2>5 DEF WaitEvent, RingShape, Occupied, Empty, Full, TypeOK, Slots, ring
  <2>6. CASE SpuriousWakeup(t)
    BY <2>6 DEF SpuriousWakeup, RingShape, Occupied, Empty, Full, TypeOK, Slots, ring
  <2>7. CASE WakeUp(t)
    BY <2>7 DEF WakeUp, RingShape, Occupied, Empty, Full, TypeOK, Slots, ring
  <2>8. CASE SemWait(t)
    BY <2>8 DEF SemWait, RingShape, Occupied, Empty, Full, TypeOK, Slots, ring
  <2>9. CASE SemPost(t)
    BY <2>9 DEF SemPost, RingShape, Occupied, Empty, Full, TypeOK, Slots, ring
  <2>10. CASE Check(t)
    BY <2>10 DEF Check, RingShape, Occupied, Empty, Full, TypeOK, Slots, ring
  <2>11. CASE EnterPopped(t)
    BY <2>11 DEF EnterPopped, RingShape, Occupied, Empty, Full, TypeOK, Slots, ring
  <2>12. CASE WriteReset(t)
    BY <2>12 DEF WriteReset, RingShape, Occupied, Empty, Full, TypeOK, Slots, ring
  <2>13. CASE WriteStore(t)
    <3>1. PICK e \in Slots :
            /\ ~Full
            /\ e = IF Empty THEN start_index ELSE end_index
            /\ data' = [data EXCEPT ![e] = arg[t]]
            /\ end_index' = IF e = Depth - 1 THEN 0 ELSE e + 1
            /\ end_index' \in Slots
            /\ start_index' = start_index
      BY <2>13, StoreEffect
    <3>2. arg[t] # NULL
      BY <2>13, NullAssumption DEF WriteStore, OpInv
    <3>3. data'[e] # NULL /\ \A k \in Slots \ {e} : data'[k] = data[k]
      BY <3>1, <3>2 DEF TypeOK
    <3>4. start_index \in Slots /\ end_index \in Slots \cup {-1}
      BY DEF TypeOK
    <3>5. Occupied(e)' /\ \A k \in Slots \ {e} : Occupied(k)' <=> Occupied(k)
      BY <3>1, <3>4, DepthAssumption DEF Occupied, Empty, Full, Slots
    <3>6. QED
      BY <3>1, <3>3, <3>5 DEF RingShape
  <2>14. CASE WriteFull(t)
    BY <2>14 DEF WriteFull, RingShape, Occupied, Empty, Full, TypeOK, Slots, ring
  <2>15. CASE ReadTake(t)
    <3>1. /\ ~Empty
          /\ data' = [data EXCEPT ![start_index] = NULL]
          /\ start_index' = IF start_index = Depth - 1 THEN 0 ELSE start_index + 1
          /\ start_index' \in Slots
          /\ end_index' = IF start_index' = end_index THEN -1 ELSE end_index
      BY <2>15, TakeEffect
    <3>2. PICK first \in Slots : first = start_index
      BY DEF TypeOK
    <3>3. end_index \in Slots \cup {-1}
      BY DEF TypeOK
    <3>4. data'[first] = NULL /\ \A k \in Slots \ {first} : data'[k] = data[k]
      BY <3>1, <3>2 DEF TypeOK
    <3>5. ~Occupied(first)' /\ \A k \in Slots \ {first} : Occupied(k)' <=> Occupied(k)
      BY <3>1, <3>2, <3>3, DepthAssumption DEF Occupied, Empty, Slots
    <3>6. QED
      BY <3>4, <3>5 DEF RingShape
  <2>16. CASE ReadEmpty(t)
    BY <2>16 DEF ReadEmpty, RingShape, Occupied, Empty, Full, TypeOK, Slots, ring
  <2>17. CASE PopSet(t)
    BY <2>17 DEF PopSet, RingShape, Occupied, Empty, Full, TypeOK, Slots, ring
  <2>18. CASE SignalReaders(t)
    BY <2>18 DEF SignalReaders, RingShape, Occupied, Empty, Full, TypeOK, Slots, ring
  <2>19. CASE SignalWriters(t)
    BY <2>19 DEF SignalWriters, RingShape, Occupied, Empty, Full, TypeOK, Slots, ring
  <2>20. QED
    BY <2>1, <2>2, <2>3, <2>4, <2>5, <2>6, <2>7, <2>8, <2>9, <2>10, <2>11,
       <2>12, <2>13, <2>14, <2>15, <2>16, <2>17, <2>18, <2>19 DEF Call, Advance
<1>3. QED
  BY <1>1, <1>2

(* The initial state of ownInitQueue satisfies the invariant. *)
LEMMA InitIInv == Init => IInv
<1> SUFFICES ASSUME Init PROVE IInv
  OBVIOUS
<1>1. 0 \in Slots
  BY DepthAssumption DEF Slots
<1>2. TypeOK
  BY <1>1 DEF Init, TypeOK, Steps, Threads
<1>3. LockInv /\ OpInv /\ SleepInv
  BY NoneAssumption DEF Init, LockInv, OpInv, SleepInv, Holding, EventIsSet
<1>4. EventInv
  <2>1. ~set["read"] /\ set["write"] /\ ~popped /\ Empty
    BY DEF Init, Empty
  <2>2. ~Full
    BY DEF Init, Full
  <2>3. QED
    BY <2>1, <2>2 DEF EventInv
<1>5. RingShape
  BY DEF Init, RingShape, Occupied, Empty
<1>6. QED
  BY <1>2, <1>3, <1>4, <1>5 DEF IInv

(* Every step preserves the invariant. *)
LEMMA NextIInv == IInv /\ [Next]_vars => IInv'
  BY TypeStep, LockStep, OpStep, EventStep, SleepStep, RingStep DEF IInv

(* The inductive invariant holds in every state the queue can reach. *)
THEOREM Invariant == Spec => []IInv
  BY InitIInv, NextIInv, PTL DEF Spec

(* The fields of vx_queue_t and the threads' variables keep their types. *)
THEOREM TypeCorrect == Spec => []TypeOK
<1>1. IInv => TypeOK
  BY DEF IInv
<1>2. QED
  BY <1>1, Invariant, PTL

(* Exactly the slots from start_index to end_index hold a pointer, for     *)
(* every depth of the ring.                                                *)
THEOREM RingIsSound == Spec => []RingShape
<1>1. IInv => RingShape
  BY DEF IInv
<1>2. QED
  BY <1>1, Invariant, PTL

(* With the semaphore free no thread is inside the queue, so that nobody   *)
(* has the flags still to put right.                                       *)
LEMMA FreeMeansNobodyInside ==
  ASSUME IInv, lock = None
  PROVE  \A t \in Threads : pc[t] \notin Holding
  BY NoneAssumption DEF IInv, LockInv

(* The two flags tell a waiting thread the truth about the queue.          *)
THEOREM EventsAreTrue == Spec => []EventsTellTheState
<1>1. IInv => EventsTellTheState
  BY FreeMeansNobodyInside DEF IInv, EventInv, EventsTellTheState, Holding
<1>2. QED
  BY <1>1, Invariant, PTL

(* No thread sleeps beside what it waits for: no wakeup is lost, however   *)
(* many threads read, write and pop.                                       *)
THEOREM WakeupsAreNotLost == Spec => []NoLostWakeup
<1>1. IInv => NoLostWakeup
  <2> SUFFICES ASSUME IInv, lock = None, NEW t \in Threads, pc[t] = "asleep"
               PROVE  /\ ~popped
                      /\ op[t] = "read" => Empty
                      /\ op[t] = "write" => Full
    BY DEF NoLostWakeup
  <2>1. EventsTellTheState
    BY FreeMeansNobodyInside DEF IInv, EventInv, EventsTellTheState, Holding
  <2>2. op[t] \in {"read", "write"} /\ ~set[op[t]]
    BY DEF IInv, OpInv, SleepInv, EventIsSet
  <2>3. QED
    BY <2>1, <2>2 DEF EventsTellTheState
<1>2. QED
  BY <1>1, Invariant, PTL

(* A thread that was broadcast still finds its event set when it has the   *)
(* mutex again.  Only another user of the same kind can have lowered it.   *)
WokenInv == \A t \in Threads : pc[t] = "woken" => EventIsSet(t)


(* With one writer, one reader and no spurious wakeup, steps keep WokenInv. *)
LEMMA WokenStep ==
  ASSUME \A s, t \in Writers : s = t, \A s, t \in Readers : s = t, ~Spurious,
         TypeOK, OpInv, WokenInv, [Next]_vars
  PROVE  WokenInv'
<1>1. CASE UNCHANGED vars
  BY <1>1 DEF vars, WokenInv, EventIsSet
<1>2. ASSUME Next PROVE WokenInv'
  <2>1. PICK t \in Threads : Call(t) \/ SpuriousWakeup(t) \/ SemWait(t) \/ Advance(t)
    BY <1>2 DEF Next
  <2>2. CASE \E v \in Values : CallWrite(t, v)
    BY <2>2 DEF CallWrite, WokenInv, EventIsSet, OpInv, TypeOK, Goto
  <2>3. CASE CallRead(t)
    BY <2>3 DEF CallRead, WokenInv, EventIsSet, OpInv, TypeOK, Goto
  <2>4. CASE CallPop(t)
    BY <2>4 DEF CallPop, WokenInv, EventIsSet, OpInv, TypeOK, Goto
  <2>5. CASE WaitEvent(t)
    BY <2>5 DEF WaitEvent, WokenInv, EventIsSet, OpInv, TypeOK, Goto
  <2>6. CASE SpuriousWakeup(t)
    BY <2>6 DEF SpuriousWakeup, WokenInv, EventIsSet, OpInv, TypeOK, Goto
  <2>7. CASE WakeUp(t)
    BY <2>7 DEF WakeUp, WokenInv, EventIsSet, OpInv, TypeOK, Goto
  <2>8. CASE SemWait(t)
    BY <2>8 DEF SemWait, WokenInv, EventIsSet, OpInv, TypeOK, Goto
  <2>9. CASE SemPost(t)
    BY <2>9 DEF SemPost, WokenInv, EventIsSet, OpInv, TypeOK, Goto
  <2>10. CASE Check(t)
    BY <2>10 DEF Check, WokenInv, EventIsSet, OpInv, TypeOK, Goto
  <2>11. CASE EnterPopped(t)
    BY <2>11 DEF EnterPopped, WokenInv, EventIsSet, OpInv, TypeOK, Goto
  <2>12. CASE WriteReset(t)
    BY <2>12 DEF WriteReset, WokenInv, EventIsSet, OpInv, TypeOK, Goto, ResetEvent
  <2>13. CASE WriteStore(t)
    BY <2>13 DEF WriteStore, WokenInv, EventIsSet, OpInv, TypeOK, Goto, SetEvent, Broadcast
  <2>14. CASE WriteFull(t)
    BY <2>14 DEF WriteFull, WokenInv, EventIsSet, OpInv, TypeOK, Goto
  <2>15. CASE ReadTake(t)
    BY <2>15 DEF ReadTake, WokenInv, EventIsSet, OpInv, TypeOK, Goto, ResetEvent
  <2>16. CASE ReadEmpty(t)
    BY <2>16 DEF ReadEmpty, WokenInv, EventIsSet, OpInv, TypeOK, Goto
  <2>17. CASE PopSet(t)
    BY <2>17 DEF PopSet, WokenInv, EventIsSet, OpInv, TypeOK, Goto
  <2>18. CASE SignalReaders(t)
    BY <2>18 DEF SignalReaders, WokenInv, EventIsSet, OpInv, TypeOK, SetEvent, Broadcast
  <2>19. CASE SignalWriters(t)
    BY <2>19 DEF SignalWriters, WokenInv, EventIsSet, OpInv, TypeOK, SetEvent, Broadcast
  <2>20. QED
    BY <2>1, <2>2, <2>3, <2>4, <2>5, <2>6, <2>7, <2>8, <2>9, <2>10, <2>11,
       <2>12, <2>13, <2>14, <2>15, <2>16, <2>17, <2>18, <2>19 DEF Call, Advance
<1>3. QED
  BY <1>1, <1>2

(* A step that ends a call with false is taken in a popped queue. *)
LEMMA FailingStep ==
  ASSUME TypeOK, OpInv, WokenInv, [Next]_vars
  PROVE  \A s \in Threads :
           pc[s] # "idle" /\ pc'[s] = "idle" /\ op[s] # "pop" /\ ~ret[s] => popped
<1> SUFFICES ASSUME NEW s \in Threads, pc[s] # "idle", pc'[s] = "idle",
                    op[s] # "pop", ~ret[s], Next
             PROVE  popped
  BY DEF vars
<1>1. PICK t \in Threads : Call(t) \/ SpuriousWakeup(t) \/ SemWait(t) \/ Advance(t)
  BY DEF Next
<1>2. CASE Check(t)
  BY <1>2 DEF Check, Goto, TypeOK
<1>3. CASE WakeUp(t)
  BY <1>3 DEF WakeUp, WokenInv, Goto, TypeOK
<1>4. CASE SemPost(t)
  BY <1>4 DEF SemPost, Goto, TypeOK
<1>5. CASE \/ \E v \in Values : CallWrite(t, v)
           \/ CallRead(t) \/ CallPop(t) \/ WaitEvent(t) \/ SpuriousWakeup(t)
           \/ SemWait(t) \/ EnterPopped(t)
  BY <1>5 DEF CallWrite, CallRead, CallPop, WaitEvent, SpuriousWakeup, SemWait, EnterPopped, 
              Goto, TypeOK
<1>6. CASE WriteReset(t) \/ WriteFull(t) \/ ReadTake(t) \/ ReadEmpty(t) \/ PopSet(t)
  BY <1>6 DEF WriteReset, WriteFull, ReadTake, ReadEmpty, PopSet, Goto, TypeOK
<1>7. CASE WriteStore(t)
  BY <1>7, StoreSignal DEF Goto, SetEvent, Broadcast, TypeOK
<1>8. CASE SignalReaders(t) \/ SignalWriters(t)
  BY <1>8 DEF SignalReaders, SignalWriters, SetEvent, Broadcast, TypeOK
<1>9. QED
  BY <1>1, <1>2, <1>3, <1>4, <1>5, <1>6, <1>7, <1>8 DEF Call, Advance

(* In a queue with one writer and one reader, on a system whose condition  *)
(* waits do not end by themselves, ownReadQueue and ownWriteQueue return   *)
(* false only once the queue is popped: a worker of the thread pool does   *)
(* not leave its loop before ownDestroyThreadpool.                         *)
THEOREM SingleUsersFailOnlyWhenPopped ==
  ASSUME \A s, t \in Writers : s = t, \A s, t \in Readers : s = t, ~Spurious
  PROVE  Spec => FailsOnlyWhenPopped
<1>1. Init => WokenInv
  BY DEF Init, WokenInv
<1>2. IInv /\ WokenInv /\ [Next]_vars => WokenInv'
  BY WokenStep DEF IInv
<1>3. IInv /\ WokenInv /\ [Next]_vars =>
        [\A t \in Threads :
           pc[t] # "idle" /\ pc'[t] = "idle" /\ op[t] # "pop" /\ ~ret[t] => popped]_vars
  BY FailingStep DEF IInv
<1>4. QED
  BY <1>1, <1>2, <1>3, Invariant, PTL DEF Spec, FailsOnlyWhenPopped

-----------------------------------------------------------------------------
(* The buffer the ring implements. *)

(* What a slot of the ring may hold.                                      *)
Pointers == Values \cup {NULL}

(* How many pointers lie between the indices s and e of a ring.            *)
Count(s, e) == IF e = -1 THEN 0 ELSE IF s < e THEN e - s ELSE e - s + Depth

(* The slot of the k-th of them, going round the ring at most once.       *)
Place(s, k) == IF s + k - 1 < Depth THEN s + k - 1 ELSE s + k - 1 - Depth

(* Contents, of any array and indices.                                    *)
Listed(d, s, e) ==
  IF e = -1 THEN <<>>
  ELSE LET n == IF s < e THEN e - s ELSE e - s + Depth
       IN [k \in 1 .. n |-> d[(s + k - 1) % Depth]]

(* An index that is one round too far at most.                             *)
LEMMA WrapOnce ==
  ASSUME NEW x \in Nat, x < 2 * Depth
  PROVE  x % Depth = IF x < Depth THEN x ELSE x - Depth
  BY DepthAssumption

(* The list has as many pointers as lie between the indices, slot by slot. *)
LEMMA Listing ==
  ASSUME NEW d \in [Slots -> Pointers], NEW s \in Slots, NEW e \in Slots \cup {-1}
  PROVE  /\ Listed(d, s, e) \in Seq(Pointers)
         /\ Len(Listed(d, s, e)) = Count(s, e)
         /\ Count(s, e) \in 0 .. Depth
         /\ \A k \in 1 .. Count(s, e) :
              Place(s, k) \in Slots /\ Listed(d, s, e)[k] = d[Place(s, k)]
<1>1. Count(s, e) \in 0 .. Depth
  BY DepthAssumption DEF Count, Slots
<1>2. ASSUME NEW k \in 1 .. Count(s, e)
      PROVE  (s + k - 1) % Depth = Place(s, k) /\ Place(s, k) \in Slots
  <2> DEFINE x == s + k - 1
  <2>1. x \in Nat /\ x < 2 * Depth /\ Place(s, k) = IF x < Depth THEN x ELSE x - Depth
    BY <1>1, DepthAssumption DEF Slots, Place
  <2> HIDE DEF x
  <2>2. x % Depth = Place(s, k)
    BY <2>1, WrapOnce
  <2>3. Place(s, k) \in Slots
    BY <2>1, DepthAssumption DEF Slots
  <2>4. QED
    BY <2>2, <2>3 DEF x
<1>3. CASE e = -1
  BY <1>1, <1>3, EmptySeq DEF Listed, Count
<1>4. CASE e # -1
  <2>1. Listed(d, s, e) = [k \in 1 .. Count(s, e) |-> d[(s + k - 1) % Depth]]
    BY <1>4 DEF Listed, Count
  <2>2. \A k \in 1 .. Count(s, e) : d[(s + k - 1) % Depth] \in Pointers
    BY <1>2
  <2>3. QED
    BY <1>1, <1>2, <2>1, <2>2
<1>5. QED
  BY <1>3, <1>4

(* What the ring holds before a step ...                                   *)
LEMMA ContentsShape ==
  ASSUME TypeOK
  PROVE  LET c == Count(start_index, end_index) IN
         /\ Contents \in Seq(Pointers) /\ Len(Contents) = c
         /\ \A k \in 1 .. c :
              Place(start_index, k) \in Slots /\ Contents[k] = data[Place(start_index, k)]
<1>1. Contents = Listed(data, start_index, end_index)
  BY DEF Contents, Listed, Empty
<1>2. data \in [Slots -> Pointers] /\ start_index \in Slots /\ end_index \in Slots \cup {-1}
  BY DEF TypeOK, Pointers
<1>3. QED
  BY <1>1, <1>2, Listing, Zenon

(* ... and after it.                                                       *)
LEMMA NextContentsShape ==
  ASSUME TypeOK'
  PROVE  LET c == Count(start_index', end_index') IN
         /\ Contents' \in Seq(Pointers) /\ Len(Contents') = c
         /\ \A k \in 1 .. c :
              Place(start_index', k) \in Slots /\ Contents'[k] = data'[Place(start_index', k)]
<1>1. Contents' = Listed(data', start_index', end_index')
  BY DEF Contents, Listed, Empty
<1>2. data' \in [Slots -> Pointers] /\ start_index' \in Slots /\ end_index' \in Slots \cup {-1}
  BY DEF TypeOK, Pointers
<1>3. QED
  BY <1>1, <1>2, Listing, Zenon

(* ownWriteQueue appends its pointer to an open buffer that has room.      *)
LEMMA PutStep ==
  ASSUME IInv, IInv', NEW t \in Threads, WriteStore(t)
  PROVE  arg[t] \in Values /\ Fifo!Put(arg[t])
<1> DEFINE c == Count(start_index, end_index)
<1>1. PICK e \in Slots :
        /\ ~Full
        /\ e = IF Empty THEN start_index ELSE end_index
        /\ data' = [data EXCEPT ![e] = arg[t]]
        /\ end_index' = IF e = Depth - 1 THEN 0 ELSE e + 1
        /\ end_index' \in Slots
        /\ start_index' = start_index
  BY StoreEffect DEF IInv
<1>2. /\ data \in [Slots -> Pointers] /\ start_index \in Slots /\ end_index \in Slots \cup {-1}
      /\ data' \in [Slots -> Pointers]
  BY DEF IInv, TypeOK, Pointers
<1>3. arg[t] \in Values /\ ~popped
  BY DEF WriteStore, IInv, OpInv
<1>4. /\ c < Depth /\ Count(start_index', end_index') = c + 1
      /\ Place(start_index, c + 1) = e
      /\ \A k \in 1 .. c : Place(start_index, k) # e
  BY <1>1, <1>2, DepthAssumption DEF Count, Place, Slots, Empty, Full
<1>5. Contents \in Seq(Pointers) /\ Len(Contents) = c
  BY ContentsShape DEF IInv
<1>6. Contents' \in Seq(Pointers) /\ Len(Contents') = c + 1
  BY <1>4, NextContentsShape DEF IInv
<1>7. ASSUME NEW k \in 1 .. c + 1 PROVE Contents'[k] = IF k = c + 1 THEN arg[t] ELSE Contents[k]
  <2>1. Contents'[k] = data'[Place(start_index, k)] /\ Place(start_index, k) \in Slots
    BY <1>1, <1>4, NextContentsShape DEF IInv
  <2>2. k # c + 1 => Contents[k] = data[Place(start_index, k)] /\ k \in 1 .. c
    BY ContentsShape DEF IInv
  <2>3. QED
    BY <1>1, <1>2, <1>4, <2>1, <2>2
<1>8. Contents' = Append(Contents, arg[t])
  <2>1. /\ Append(Contents, arg[t]) \in Seq(Pointers) /\ Len(Append(Contents, arg[t])) = c + 1
        /\ \A k \in 1 .. c + 1 :
             Append(Contents, arg[t])[k] = IF k = c + 1 THEN arg[t] ELSE Contents[k]
    BY <1>3, <1>5 DEF Pointers
  <2>2. QED
    BY <1>6, <1>7, <2>1, SeqEqual
<1>9. QED
  BY <1>3, <1>4, <1>5, <1>8 DEF WriteStore, Fifo!Put

(* ownReadQueue takes the oldest pointer, and empties the ring if it is    *)
(* the last one.                                                           *)
LEMMA TakeStep ==
  ASSUME IInv, IInv', NEW t \in Threads, ReadTake(t)
  PROVE  t \in Readers /\ Fifo!Take(t)
<1> DEFINE c == Count(start_index, end_index)
<1>1. /\ data \in [Slots -> Pointers] /\ start_index \in Slots /\ end_index \in Slots
      /\ data' \in [Slots -> Pointers] /\ start_index' \in Slots /\ end_index' \in Slots \cup {-1}
  BY DEF IInv, TypeOK, Pointers, ReadTake, Empty
<1>2. /\ data' = [data EXCEPT ![start_index] = NULL]
      /\ start_index' = IF start_index = Depth - 1 THEN 0 ELSE start_index + 1
      /\ end_index' = IF start_index' = end_index THEN -1 ELSE end_index
      /\ got' = [got EXCEPT ![t] = data[start_index]]
      /\ ~popped /\ UNCHANGED popped
  BY <1>1, NextIndex DEF ReadTake
<1>3. t \in Readers
  BY DEF ReadTake, IInv, OpInv
<1>4. /\ c \in 1 .. Depth /\ Count(start_index', end_index') = c - 1
      /\ Place(start_index, 1) = start_index
      /\ \A k \in 1 .. c - 1 : /\ Place(start_index', k) = Place(start_index, k + 1)
                               /\ Place(start_index', k) # start_index
  BY <1>1, <1>2, DepthAssumption DEF Count, Place, Slots
<1>5. Contents \in Seq(Pointers) /\ Len(Contents) = c /\ Contents # <<>>
  <2>1. Contents \in Seq(Pointers) /\ Len(Contents) = c
    BY ContentsShape DEF IInv
  <2>2. QED
    BY <1>4, <2>1, EmptySeq
<1>6. Contents' \in Seq(Pointers) /\ Len(Contents') = c - 1
  BY <1>4, NextContentsShape DEF IInv
<1>7. Head(Contents) = data[start_index]
  <2>1. Contents[1] = data[start_index]
    BY <1>4, ContentsShape DEF IInv
  <2>2. QED
    BY <1>5, <2>1
<1>8. ASSUME NEW k \in 1 .. c - 1 PROVE Contents'[k] = Contents[k + 1]
  <2>1. Contents'[k] = data'[Place(start_index', k)] /\ Place(start_index', k) \in Slots
    BY <1>4, NextContentsShape DEF IInv
  <2>2. k + 1 \in 1 .. c
    BY <1>4
  <2>3. Contents[k + 1] = data[Place(start_index, k + 1)]
    BY <2>2, ContentsShape DEF IInv
  <2>4. QED
    BY <1>1, <1>2, <1>4, <2>1, <2>3
<1>9. Contents' = Tail(Contents)
  <2>1. /\ Tail(Contents) \in Seq(Pointers) /\ Len(Tail(Contents)) = c - 1
        /\ \A k \in 1 .. c - 1 : Tail(Contents)[k] = Contents[k + 1]
    BY <1>5, HeadTailProperties
  <2>2. QED
    BY <1>6, <1>8, <2>1, SeqEqual
<1>10. QED
  BY <1>2, <1>3, <1>5, <1>7, <1>9 DEF Fifo!Take

(* ownInitQueue makes an empty, open buffer.                               *)
LEMMA FifoInit == Init => Fifo!Init
  BY DEF Init, Fifo!Init, Contents, Empty

(* Every step of a thread is a step of the buffer or changes nothing of it.*)
LEMMA FifoStep == IInv /\ IInv' /\ [Next]_vars => [Fifo!Next]_(Fifo!vars)
<1> SUFFICES ASSUME IInv, IInv', [Next]_vars PROVE [Fifo!Next]_(Fifo!vars)
  OBVIOUS
<1>1. ASSUME UNCHANGED <<ring, popped, got>> PROVE UNCHANGED Fifo!vars
  BY <1>1 DEF ring, Contents, Empty, Fifo!vars
<1>2. CASE UNCHANGED vars
  BY <1>1, <1>2 DEF vars, ring
<1>3. ASSUME NEW t \in Threads, Call(t) \/ SpuriousWakeup(t) \/ SemWait(t) \/ Advance(t)
      PROVE  [Fifo!Next]_(Fifo!vars)
  <2>1. CASE WriteStore(t)
    BY <2>1, PutStep DEF Fifo!Next
  <2>2. CASE ReadTake(t)
    BY <2>2, TakeStep DEF Fifo!Next
  <2>3. CASE PopSet(t)
    BY <2>3 DEF PopSet, ring, Contents, Empty, Fifo!Next, Fifo!Close
  <2>4. CASE Call(t)
    BY <1>1, <2>4 DEF Call, CallWrite, CallRead, CallPop
  <2>5. CASE \/ SpuriousWakeup(t) \/ SemWait(t) \/ WaitEvent(t)
             \/ WakeUp(t) \/ SemPost(t) \/ Check(t)
    BY <1>1, <2>5 DEF SpuriousWakeup, SemWait, WaitEvent, WakeUp, SemPost, Check
  <2>6. CASE EnterPopped(t) \/ WriteReset(t) \/ WriteFull(t) \/ ReadEmpty(t)
    BY <1>1, <2>6 DEF EnterPopped, WriteReset, WriteFull, ReadEmpty
  <2>7. CASE SignalReaders(t) \/ SignalWriters(t)
    BY <1>1, <2>7 DEF SignalReaders, SignalWriters
  <2>8. QED
    BY <1>3, <2>1, <2>2, <2>3, <2>4, <2>5, <2>6, <2>7 DEF Advance
<1>4. QED
  BY <1>2, <1>3 DEF Next

(* Each pointer written is delivered once, in order, to one reader, until  *)
(* the queue is popped, and never after: vx_queue_t is a bounded first-in  *)
(* first-out buffer, whatever threads do with it.                          *)
THEOREM QueueIsFifo == Spec => ImplementsFifo
<1>1. Spec => []IInv
  BY Invariant
<1>2. Init => Fifo!Init
  BY FifoInit
<1>3. IInv /\ IInv' /\ [Next]_vars => [Fifo!Next]_(Fifo!vars)
  BY FifoStep
<1>4. QED
  BY <1>1, <1>2, <1>3, PTL DEF Spec, ImplementsFifo, Fifo!Spec
=============================================================================
