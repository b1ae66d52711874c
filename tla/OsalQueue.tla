------------------------------ MODULE OsalQueue ------------------------------
(***************************************************************************)
(* vx_queue_t and vx_event_t of sample/framework/vx_osal.c (POSIX build).  *)
(*                                                                         *)
(* A ring of Depth pointers, a binary semaphore that protects it, and two  *)
(* manual-reset events built from a mutex and a condition variable.        *)
(* The events are tested OUTSIDE the semaphore, so a thread may act on an  *)
(* answer that is stale by the time it holds the semaphore.                *)
(*                                                                         *)
(* One step is what one critical section of an event, or the semaphore,    *)
(* makes indivisible.  What a thread does to the ring while it holds the   *)
(* semaphore is joined to the event operation next to it: no other thread  *)
(* reads the ring without the semaphore.                                   *)
(***************************************************************************)
EXTENDS Integers, Sequences

CONSTANTS
  Depth,    (* VX_INT_MAX_QUEUE_DEPTH                                      *)
  Writers,  (* threads that call ownWriteQueue                             *)
  Readers,  (* threads that call ownReadQueue; a thread may be in both     *)
            (* sets, as vxWaitGraph is for the output queue                *)
  Poppers,  (* threads that call ownPopQueue                               *)
  Values,   (* the pointers written                                        *)
  NULL,     (* a NULL pointer                                              *)
  None,     (* the semaphore is free                                       *)
  Spurious  (* TRUE: pthread_cond_wait may return with no broadcast, as    *)
            (* POSIX allows                                                *)

Threads == Writers \cup Readers \cup Poppers

ASSUME DepthAssumption == Depth \in Nat \ {0}
ASSUME NullAssumption == NULL \notin Values
ASSUME NoneAssumption == None \notin Threads
ASSUME SpuriousAssumption == Spurious \in BOOLEAN

VARIABLES
  data, start_index, end_index, popped,  (* the fields of vx_queue_t       *)
  lock,    (* the holder of q->lock, or None                               *)
  set,     (* the flag of readEvent ("read") and of writeEvent ("write")   *)
  pc,      (* where each thread is, see Steps                              *)
  op,      (* the call it is in                                            *)
  arg,     (* the pointer an ownWriteQueue call has to write               *)
  got,     (* what ownReadQueue stored through its out-parameter           *)
  ret      (* wrote / red: the value the call returns                      *)

ring == <<data, start_index, end_index>>
vars == <<data, start_index, end_index, popped, lock, set, pc, op, arg, got, ret>>

Slots == 0 .. Depth - 1

Steps == {"idle",           (* not in a call                               *)
          "wait",           (* about to enter ownWaitEvent                 *)
          "asleep",         (* inside pthread_cond_wait                    *)
          "woken",          (* broadcast, has to take the mutex again      *)
          "lock",           (* the wait returned true; ownSemWait          *)
          "enter",          (* holds the semaphore, about to test popped   *)
          "store",          (* a writer that has reset writeEvent          *)
          "signalReaders",  (* about to set readEvent                      *)
          "signalWriters",  (* about to set writeEvent                     *)
          "unlock",         (* about to post the semaphore                 *)
          "check"}          (* about to test popped || wrote               *)

Empty == end_index = -1
Full == end_index = start_index

(* The pointers in the ring, oldest first. *)
Contents ==
  IF Empty THEN <<>>
  ELSE LET n == IF start_index < end_index THEN end_index - start_index
                ELSE end_index - start_index + Depth
       IN [k \in 1 .. n |-> data[(start_index + k - 1) % Depth]]

(* ownInitQueue *)
Init ==
  /\ data = [i \in Slots |-> NULL]
  /\ start_index = 0
  /\ end_index = -1
  /\ popped = FALSE
  /\ lock = None
  /\ set = [e \in {"read", "write"} |-> e = "write"]
  /\ pc = [t \in Threads |-> "idle"]
  /\ op = [t \in Threads |-> "none"]
  /\ arg = [t \in Threads |-> NULL]
  /\ got = [r \in Readers |-> NULL]
  /\ ret = [t \in Threads |-> FALSE]

Goto(t, step) == pc' = [pc EXCEPT ![t] = step]

(* The operators whose names have a suffix are deviations: defects the     *)
(* code does not have.  In the place of the operator a deviation is named  *)
(* after it has to violate a property.                                     *)

(* pthread_cond_broadcast; a pthread_cond_signal wakes at most one. *)
Broadcast_One(e) ==
  LET asleep == {s \in Threads : pc[s] = "asleep" /\ op[s] = e}
  IN IF asleep = {} THEN {} ELSE {CHOOSE s \in asleep : TRUE}
Broadcast(e) == {s \in Threads : pc[s] = "asleep" /\ op[s] = e}

(* ownSetEvent(e) by t: the flag goes up and every sleeper is broadcast. *)
SetEvent(e, t, step) ==
  /\ set' = [set EXCEPT ![e] = TRUE]
  /\ pc' = [s \in Threads |->
              IF s = t THEN step ELSE IF s \in Broadcast(e) THEN "woken" ELSE pc[s]]

(* ownResetEvent(e) *)
ResetEvent_Forgets(e) == UNCHANGED set
ResetEvent(e) == set' = [set EXCEPT ![e] = FALSE]

(* The event a call waits for has its flag up. *)
EventIsSet(t) == set[op[t]]

(* Where a writer stores: an empty ring restarts at start_index. *)
WriteSlot_Zero == IF Empty THEN 0 ELSE end_index
WriteSlot == IF Empty THEN start_index ELSE end_index

NextSlot(i) == (i + 1) % Depth

-----------------------------------------------------------------------------
(* The calls. *)

CallWrite(t, v) ==
  /\ t \in Writers
  /\ pc[t] = "idle"
  /\ Goto(t, "wait")
  /\ op' = [op EXCEPT ![t] = "write"]
  /\ arg' = [arg EXCEPT ![t] = v]
  /\ ret' = [ret EXCEPT ![t] = FALSE]
  /\ UNCHANGED <<ring, popped, lock, set, got>>

CallRead(t) ==
  /\ t \in Readers
  /\ pc[t] = "idle"
  /\ Goto(t, "wait")
  /\ op' = [op EXCEPT ![t] = "read"]
  /\ ret' = [ret EXCEPT ![t] = FALSE]
  /\ UNCHANGED <<ring, popped, lock, set, arg, got>>

CallPop(t) ==
  /\ t \in Poppers
  /\ pc[t] = "idle"
  /\ ~popped
  /\ Goto(t, "lock")
  /\ op' = [op EXCEPT ![t] = "pop"]
  /\ UNCHANGED <<ring, popped, lock, set, arg, got, ret>>

(* The wait is a poll, as if the timeout were zero. *)
WaitEvent_Polls(t) ==
  /\ pc[t] = "wait"
  /\ Goto(t, IF EventIsSet(t) THEN "lock" ELSE "idle")
  /\ UNCHANGED <<ring, popped, lock, set, op, arg, got, ret>>

(* ownWaitEvent with VX_INT_FOREVER on a manual-reset event: one test of   *)
(* the flag, then at most one pthread_cond_wait.                           *)
WaitEvent(t) ==
  /\ pc[t] = "wait"
  /\ Goto(t, IF EventIsSet(t) THEN "lock" ELSE "asleep")
  /\ UNCHANGED <<ring, popped, lock, set, op, arg, got, ret>>

SpuriousWakeup(t) ==
  /\ Spurious
  /\ pc[t] = "asleep"
  /\ Goto(t, "woken")
  /\ UNCHANGED <<ring, popped, lock, set, op, arg, got, ret>>

(* ownWaitEventInternal after the condition wait: the answer is the flag   *)
(* as it is now.  When it is down the while loop of the caller ends and    *)
(* the call returns false.                                                 *)
WakeUp(t) ==
  /\ pc[t] = "woken"
  /\ Goto(t, IF EventIsSet(t) THEN "lock" ELSE "idle")
  /\ UNCHANGED <<ring, popped, lock, set, op, arg, got, ret>>

SemWait(t) ==
  /\ pc[t] = "lock"
  /\ lock = None
  /\ lock' = t
  /\ Goto(t, "enter")
  /\ UNCHANGED <<ring, popped, set, op, arg, got, ret>>

SemPost(t) ==
  /\ pc[t] = "unlock"
  /\ lock' = None
  /\ Goto(t, IF op[t] = "pop" THEN "idle" ELSE "check")
  /\ UNCHANGED <<ring, popped, set, op, arg, got, ret>>

(* The test after the semaphore is posted; q->popped is read unprotected. *)
Check(t) ==
  /\ pc[t] = "check"
  /\ Goto(t, IF popped \/ ret[t] THEN "idle" ELSE "wait")
  /\ UNCHANGED <<ring, popped, lock, set, op, arg, got, ret>>

-----------------------------------------------------------------------------
(* Inside the semaphore. *)

EnterPopped(t) ==
  /\ pc[t] = "enter"
  /\ op[t] # "pop"
  /\ popped
  /\ Goto(t, "unlock")
  /\ UNCHANGED <<ring, popped, lock, set, op, arg, got, ret>>

(* A writer first makes the other writers block. *)
WriteReset(t) ==
  /\ pc[t] = "enter"
  /\ op[t] = "write"
  /\ ~popped
  /\ ResetEvent("write")
  /\ Goto(t, "store")
  /\ UNCHANGED <<ring, popped, lock, op, arg, got, ret>>

(* The other writers are let in again unless the ring is now full. *)
WriteStore(t) ==
  /\ pc[t] = "store"
  /\ ~Full
  /\ data' = [data EXCEPT ![WriteSlot] = arg[t]]
  /\ end_index' = NextSlot(WriteSlot)
  /\ ret' = [ret EXCEPT ![t] = TRUE]
  /\ IF end_index' # start_index
     THEN SetEvent("write", t, "signalReaders")
     ELSE Goto(t, "signalReaders") /\ UNCHANGED set
  /\ UNCHANGED <<start_index, popped, lock, op, arg, got>>

(* Another writer filled the ring between the wait and the semaphore. *)
WriteFull(t) ==
  /\ pc[t] = "store"
  /\ Full
  /\ Goto(t, "signalReaders")
  /\ UNCHANGED <<ring, popped, lock, set, op, arg, got, ret>>

(* A reader takes the oldest pointer; one that empties the ring lowers     *)
(* readEvent.                                                              *)
ReadTake(t) ==
  /\ pc[t] = "enter"
  /\ op[t] = "read"
  /\ ~popped
  /\ ~Empty
  /\ got' = [got EXCEPT ![t] = data[start_index]]
  /\ data' = [data EXCEPT ![start_index] = NULL]
  /\ start_index' = NextSlot(start_index)
  /\ ret' = [ret EXCEPT ![t] = TRUE]
  /\ IF start_index' = end_index
     THEN ResetEvent("read") /\ end_index' = -1
     ELSE UNCHANGED <<set, end_index>>
  /\ Goto(t, "signalWriters")
  /\ UNCHANGED <<popped, lock, op, arg>>

(* Another reader emptied the ring between the wait and the semaphore. *)
ReadEmpty(t) ==
  /\ pc[t] = "enter"
  /\ op[t] = "read"
  /\ ~popped
  /\ Empty
  /\ Goto(t, "signalWriters")
  /\ UNCHANGED <<ring, popped, lock, set, op, arg, got, ret>>

(* ownPopQueue *)
PopSet(t) ==
  /\ pc[t] = "enter"
  /\ op[t] = "pop"
  /\ popped' = TRUE
  /\ Goto(t, "signalReaders")
  /\ UNCHANGED <<ring, lock, set, op, arg, got, ret>>

(* ownPopQueue sets only readEvent. *)
SignalReaders_Only(t) ==
  /\ pc[t] = "signalReaders"
  /\ SetEvent("read", t, "unlock")
  /\ UNCHANGED <<ring, popped, lock, op, arg, got, ret>>

(* A writer, which leaves a ring that is not empty, and the popper set     *)
(* readEvent; the popper goes on with writeEvent.                          *)
SignalReaders(t) ==
  /\ pc[t] = "signalReaders"
  /\ SetEvent("read", t, IF op[t] = "pop" THEN "signalWriters" ELSE "unlock")
  /\ UNCHANGED <<ring, popped, lock, op, arg, got, ret>>

SignalWriters_Forgets(t) ==
  /\ pc[t] = "signalWriters"
  /\ Goto(t, "unlock")
  /\ UNCHANGED <<ring, popped, lock, set, op, arg, got, ret>>

SignalWriters(t) ==
  /\ pc[t] = "signalWriters"
  /\ SetEvent("write", t, "unlock")
  /\ UNCHANGED <<ring, popped, lock, op, arg, got, ret>>

-----------------------------------------------------------------------------
(* A step of a call that is not waiting for the semaphore. *)
Advance(t) ==
  \/ WaitEvent(t)
  \/ WakeUp(t)
  \/ SemPost(t)
  \/ Check(t)
  \/ EnterPopped(t)
  \/ WriteReset(t)
  \/ WriteStore(t)
  \/ WriteFull(t)
  \/ ReadTake(t)
  \/ ReadEmpty(t)
  \/ PopSet(t)
  \/ SignalReaders(t)
  \/ SignalWriters(t)

Call(t) ==
  \/ \E v \in Values : CallWrite(t, v)
  \/ CallRead(t)
  \/ CallPop(t)

Next == \E t \in Threads : Call(t) \/ SpuriousWakeup(t) \/ SemWait(t) \/ Advance(t)

Spec == Init /\ [][Next]_vars

(* A thread inside a call is scheduled (weak fairness); one that finds the *)
(* semaphore free again and again gets it (strong fairness), which is what *)
(* sem_wait gives on every scheduler without priorities.  Nobody is        *)
(* assumed to call: between two reads vxWorkerThreadpool takes pool->sem   *)
(* and vxWorkerGraph writes to another queue, and both may block there.    *)
Fairness ==
  \A t \in Threads :
    /\ WF_vars(Advance(t))
    /\ SF_vars(SemWait(t))

FairSpec == Spec /\ Fairness

-----------------------------------------------------------------------------
(* Properties. *)

(* Every variable has the type the C declarations give it. *)
TypeOK ==
  /\ data \in [Slots -> Values \cup {NULL}]
  /\ start_index \in Slots
  /\ end_index \in Slots \cup {-1}
  /\ popped \in BOOLEAN
  /\ lock \in Threads \cup {None}
  /\ set \in [{"read", "write"} -> BOOLEAN]
  /\ pc \in [Threads -> Steps]
  /\ op \in [Threads -> {"none", "read", "write", "pop"}]
  /\ arg \in [Threads -> Values \cup {NULL}]
  /\ got \in [Readers -> Values \cup {NULL}]
  /\ ret \in [Threads -> BOOLEAN]

(* The steps between ownSemWait(&q->lock) and ownSemPost(&q->lock). *)
Holding == {"enter", "store", "signalReaders", "signalWriters", "unlock"}

(* Slot i lies between start_index and end_index, going round the ring. *)
Occupied(i) ==
  /\ ~Empty
  /\ IF start_index < end_index
     THEN start_index <= i /\ i < end_index
     ELSE start_index <= i \/ i < end_index

(* The indices and the pointers agree after any series of writes and reads *)
(* that wraps round: exactly the slots from start_index to end_index hold  *)
(* a pointer, so that no read returns NULL and no write overwrites one     *)
(* that was not read.                                                      *)
RingShape == \A i \in Slots : data[i] # NULL <=> Occupied(i)

(* While nobody holds the semaphore the two flags say what a caller that   *)
(* waits for them needs to know: readEvent is up exactly when there is     *)
(* something to read or the queue was popped, writeEvent exactly when      *)
(* there is room or the queue was popped.                                  *)
EventsTellTheState ==
  lock = None =>
    /\ set["read"] <=> popped \/ ~Empty
    /\ set["write"] <=> popped \/ ~Full

(* No wakeup is lost: with the semaphore free, no reader sleeps beside a   *)
(* pointer it could read, no writer beside a free slot, and nobody in a    *)
(* popped queue.                                                           *)
NoLostWakeup ==
  lock = None =>
    \A t \in Threads :
      pc[t] = "asleep" =>
        /\ ~popped
        /\ op[t] = "read" => Empty
        /\ op[t] = "write" => Full

(* The queue is a bounded first-in first-out buffer, whatever its users    *)
(* do: each pointer written is delivered once, in order, to one reader,    *)
(* until the queue is popped, and never after.                             *)
Fifo == INSTANCE BoundedFifo WITH fifo <- Contents, closed <- popped
ImplementsFifo == Fifo!Spec

(* ownReadQueue and ownWriteQueue return false only from a popped queue.   *)
(* The worker loop (vxWorkerThreadpool) ends on the first false, so this   *)
(* is what keeps a worker alive; it needs a queue with one reader and one  *)
(* writer.                                                                 *)
FailsOnlyWhenPopped ==
  [][\A t \in Threads :
       pc[t] # "idle" /\ pc'[t] = "idle" /\ op[t] # "pop" /\ ~ret[t] => popped]_vars

(* The ring is full and nobody is in ownReadQueue to make room. *)
Deserted ==
  /\ Full
  /\ ~popped
  /\ \A r \in Readers : pc[r] = "idle" \/ op[r] # "read"

(* With one writer and one reader ownWriteQueue blocks for ever in one     *)
(* case only: the ring stays full, the queue is not popped and the reader  *)
(* never reads again, like a worker that waits for the pool->sem which its *)
(* issuer holds.  A writer whose ring has room, gets room from the reader, *)
(* or is popped, returns.                                                  *)
WriteReturns ==
  ~<>[]Deserted =>
    \A t \in Threads : pc[t] # "idle" /\ op[t] = "write" ~> pc[t] = "idle"

(* ownPopQueue releases every thread blocked in the queue: what            *)
(* ownDestroyThreadpool relies on before it joins a worker.                *)
PopReleases ==
  \A t \in Threads : popped /\ pc[t] # "idle" ~> pc[t] = "idle"
-----------------------------------------------------------------------------
(* The inductive invariant behind the safety properties: what each step    *)
(* knows while it holds the semaphore.                                     *)

(* Exactly the thread between ownSemWait and ownSemPost holds q->lock. *)
LockInv == \A t \in Threads : pc[t] \in Holding <=> lock = t

(* A thread is at a step of the call it is in, and the steps inside the    *)
(* semaphore keep what the tests before them established.                  *)
OpInv ==
  \A t \in Threads :
    /\ pc[t] \in {"wait", "asleep", "woken", "check"} => op[t] \in {"read", "write"}
    /\ pc[t] # "idle" => op[t] # "none"
    /\ pc[t] # "idle" /\ op[t] = "write" => t \in Writers /\ arg[t] \in Values
    /\ pc[t] # "idle" /\ op[t] = "read" => t \in Readers
    /\ pc[t] = "store" => op[t] = "write" /\ ~popped /\ ~set["write"]
    /\ pc[t] = "signalReaders" => op[t] \in {"write", "pop"} /\ (popped \/ ~Empty)
    /\ pc[t] = "signalWriters" => op[t] \in {"read", "pop"} /\ (popped \/ ~Full)
    /\ pc[t] \in {"signalReaders", "signalWriters", "unlock"} /\ op[t] = "pop" => popped

(* The flags are right, or the thread that will put them right holds the   *)
(* semaphore.                                                              *)
EventInv ==
  /\ set["read"] => popped \/ ~Empty
  /\ set["write"] => popped \/ ~Full
  /\ popped \/ ~Empty =>
       set["read"] \/ \E t \in Threads : pc[t] = "signalReaders"
  /\ popped \/ ~Full =>
       \/ set["write"]
       \/ \E t \in Threads : \/ pc[t] \in {"store", "signalWriters"}
                             \/ pc[t] = "signalReaders" /\ op[t] = "pop"

(* A sleeper's event is down: ownSetEvent wakes everybody. *)
SleepInv == \A t \in Threads : pc[t] = "asleep" => ~EventIsSet(t)

IInv == TypeOK /\ LockInv /\ OpInv /\ EventInv /\ SleepInv /\ RingShape
=============================================================================
