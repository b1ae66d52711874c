# Verification of the OpenVX sample framework

TLA+ models of the OpenVX 1.1 sample implementation (`src/openvx_sample-1.1`), checked with TLC,
and proofs checked with TLAPS. The subject is the framework's own core: how graphs are built,
verified, scheduled and executed, and the queues, events and thread pool underneath. Pixel
kernels, file formats, tools and bindings are left aside.

Paths below are relative to `src/openvx_sample-1.1/`; `fw/` is `sample/framework/`.

## 1. Inventory

| Part | State it keeps | Operations | Talks to |
|---|---|---|---|
| Events and queues, `fw/vx_osal.c` | event flag, mutex, condition variable; ring of 32 pointers, two indices, `popped`, a semaphore and two events | `ownSetEvent`, `ownResetEvent`, `ownWaitEvent`, `ownWriteQueue`, `ownReadQueue`, `ownPopQueue` | used by the thread pool and the graph thread |
| Thread pool, `fw/vx_osal.c` | per worker a queue and a thread; `numCurrentItems`, `nextWorkerIndex`, the `completed` event, a semaphore | `ownCreateThreadpool`, `ownIssueThreadpool`, `ownCompleteThreadpool`, `ownDestroyThreadpool`, `vxWorkerThreadpool` | issued to by `vxExecuteGraph`; work items lie on its stack |
| Graph scheduling, `fw/vx_graph.c`, `fw/vx_context.c` | `graph->lock`; the static table `graph_queue[10]`; input and output queue; the re-entrancy count | `vxScheduleGraph`, `vxWaitGraph`, `vxProcessGraph`, thread `vxWorkerGraph` | queues; `vxExecuteGraph` |
| Graphs and nodes, `fw/vx_graph.c`, `fw/vx_node.c`, `fw/vx_parameter.c` | `graph->nodes`, `heads`, `verified`, `reverify`, `state`; `visited`, `executed` of each node | `vxCreateGenericNode`, `vxRemoveNode`, `vxSetParameterByIndex`, `vxVerifyGraph`, `vxExecuteGraph`, `ownFindNextNodes` | targets, thread pool, references |
| Targets, `sample/targets/*` | priority, table of kernels | `vxTargetProcess`, `vxTargetVerify` | runs a kernel, sets `executed`, node callbacks |
| References, `fw/vx_reference.c` | internal and external counts under `ref->lock`; the table `reftable` of the context | `ownIncrementReference`, `ownReleaseReferenceInt`, `vxRetainReference` | every object |
| Context, `fw/vx_context.c` | the single context, its counts, targets, tables of accessors and memory maps, the graph thread | `vxCreateContext`, `vxReleaseContext`, `ownMemoryMap`, `ownFindAccessor` | everything |
| Delays, `fw/vx_delay.c` | a ring of slots and its index; associations with node parameters | `vxAgeDelay`, `ownAddAssociationToDelay`, `vxRegisterAutoAging` | nodes; ageing after an execution |
| Data objects (images, arrays, pyramids, ...), `fw/vx_memory.c` | attributes, memory planes | create, map, copy, release | memory maps, references |
| Kernels, `fw/vx_kernel.c`, `sample/targets/c_model/vx_interface.c` | `target->kernels`, three counters of kernels, the table of loaded modules | `vxAddUserKernel`, `vxFinalizeKernel`, `vxRemoveKernel`, `vxGetKernelByName`, `vxLoadKernels`, `vxUnloadKernels` | targets, nodes, references, loaded libraries |
| Meta formats, logs, XML | a log callback | validation, input and output | context |

What is hard, and what correctness of each part means:

- **Queue.** The events are waited for *outside* the queue's semaphore, so each decision is made on
  stale knowledge. The two indices overload full and empty. Right means: the ring never confuses
  full and empty, no wake-up is lost, the events tell the truth whenever nobody is inside, a pop
  releases everybody, and the whole is a FIFO buffer.
- **Thread pool.** A counter incremented by the issuer and decremented by workers decides when a
  batch is complete; the batch lives on the issuer's stack. Right means: `completed` is never set
  while work is left, results are collected after the work, nothing survives its batch, and
  issuing, completing and destroying return.
- **Scheduling.** Four things (lock, table entry, place in a queue, the waiter) belong together and
  are changed one by one by several threads. Right means: an entry has one owner, a waiter gets its
  own graph's result, a schedule is executed once, a locked graph is a scheduled one.
- **Graph.** Verification decides statically that a list of nodes can be executed; execution then
  discovers the order dynamically, batch by batch. Right means: a verified graph has no cycle and
  one writer for each object, also through regions that share memory; each node runs exactly once,
  after its producers, and never beside a node it shares written data with; the call returns.
- **Verified flags.** `verified` and `reverify` stand for "the parameters passed the checks" and "the
  kernels are initialised, deinitialise them first". Nine places write them, one of them in another thread
  without the graph's lock. Right means: a graph runs with checked parameters and initialised kernels, and a
  kernel is initialised once, except after the events the properties name.
- **References.** Two counts, each changed under the object's lock, and a destruction outside it that
  releases other objects. Right means: counts are the holders, the table is complete, nothing refers to a
  destroyed object, everything is freed once by the end of the context.
- **Context.** One instance, created and released by anybody, with a thread of its own. Right means: a reference
  is to a live context, the thread ends before what it uses is freed, calls return.
- **Delays.** Associations are filed under positions that ageing moves. Right means: each is found again, once,
  and a parameter stays as many steps behind as it was set.
- **Memory maps.** A table of entries that are reused, buffers copied in parts. Right means: a map is an entry of its
  own, a read is of one write, a mapped object lives.
- **Kernels.** Entries of a static array that are used again as soon as they are not enabled. Right means: the counters
  agree with the entries, a kernel is found by its name and its enumeration, whoever has a kernel goes on having that one, and its code is loaded.

`PROJECT.json` lists every component with its status and every hazard with its source line.

## 2. Modules

| Module | Models | State and actions |
|---|---|---|
| `BoundedFifo` | what a queue promises | a sequence and a flag; `Put`, `Take`, `Close` |
| `OsalQueue` | `vx_queue_t`, `vx_event_t` | the C fields by name; one action for each part of a call that the semaphore or the event's mutex makes indivisible |
| `OsalQueue_proofs` | proofs about `OsalQueue`, and that it implements `BoundedFifo` | - |
| `ThreadPool` | the pool and its user in `vxExecuteGraph` | queues as FIFOs (what `OsalQueue` shows of queues with one writer and one reader); worker, issuer and releaser steps |
| `ThreadPool_proofs` | proofs about `ThreadPool` | - |
| `GraphSchedule` | scheduling, waiting, processing, the graph thread | lock, table, two FIFO queues, the count; one action for each critical section |
| `GraphSchedule_proofs` | proofs about `GraphSchedule` | - |
| `GraphExecute` | building, verifying and executing one graph | nodes as sequences of parameters `[dir, ref, optional]`; one action for each API call, then one for each node started, finished and batch decided |
| `GraphExecute_proofs` | proofs about `GraphExecute` | - |
| `GraphLifecycle` | `verified` and `reverify` of one graph | the flags, the table of references, one parameter and one count of initialisations per node; an action per API call, per phase of `vxVerifyGraph` with its failures, per step of `ownWroteToReference` |
| `GraphLifecycle_proofs` | proofs about `GraphLifecycle` | - |
| `References` | both counts of every object, the table, destructors | who holds what is a relation; a call is a list of things to do, one for each section under a lock, which destructors put more in front of |
| `References_proofs` | proofs about `References` | - |
| `Delay` | a delay of pyramids and those of its levels | index, the associations per slot (head and chain), internal counts; an action per API call |
| `MemoryMaps` | the table of maps, images and arrays | entries, buffers and contents in two parts, plane locks, references; an action per step of map, unmap and copy |
| `MemoryMaps_proofs` | proofs about `MemoryMaps` | - |
| `ContextLifecycle` | `vxCreateContext`, `vxReleaseContext`, the end of `vxWorkerGraph` | the semaphore, the singleton, the processor; an action per statement of the release |
| `ContextLifecycle_proofs` | proofs about `ContextLifecycle` | - |
| `Kernels` | the table of kernels of a target, its users and the modules that publish into it | an entry's fields by name, the counters, who refers to which entry; an action per API call |
| `MC...` | instances for TLC | constants, symmetry, a catalog of nodes |

How they compose: `OsalQueue` implements `BoundedFifo` (refinement mapping: the ring's contents, read
from `start_index`, and `popped`). `ThreadPool`, `GraphSchedule` and `ContextLifecycle` use FIFO queues in its place.
`ThreadPool` relies on `FailsOnlyWhenPopped` for one writer and one reader, which is proved; the
writers of a worker's queue exclude each other by `pool->sem`. The queues of the graph thread have
several users, so in `GraphSchedule` their calls may fail: up to `MaxFailures` do. `GraphExecute` sees a batch as a
set of nodes that are started in any order and run together, which is what `ThreadPool` shows of a
batch: each item runs once and is finished when the batch is collected. `GraphLifecycle` takes verification
and execution as the phases `GraphExecute` details, and adds what surrounds them: when a verification happens at
all. `References` abstracts the other modules' objects to counts; `Delay` and `MemoryMaps` keep the part of them that
their own protocol changes.

### Abstractions worth knowing

- *OsalQueue.* What a thread does to the ring while it holds the semaphore is joined to the event
  operation next to it, as nobody else reads the ring then. Each event operation is a step, because
  the events are used without the semaphore. `Spurious` lets a condition wait end by itself.
  `ownPopQueue` may be called by any thread at any time. Timeouts are `VX_INT_FOREVER`, as in every use.
- *ThreadPool.* `numCurrentItems` is only changed under `pool->sem`. The context may be released in
  the middle of a batch. The pool is freed at the end of the release; an issuer still inside would
  then use freed memory, which is left out (`PoolExists`).
- *GraphSchedule.* All graphs are verified. The application may schedule, process and wait in any
  order, which includes waiting for a graph that was never scheduled: that call blocks, which is why
  its run does not check for deadlock. `MaxLock` bounds how often a lock is posted without having
  been taken. What a queue call that fails leaves behind (an entry nobody owns, a result nobody reads) stays: the history
  `failures` counts them, and the properties about entries hold until the first.
- *GraphExecute.* The lists of node indices are bags: order inside a list does not matter, repetition
  does. `Overlaps` is the relation `vxCheckWriteDependency` computes from regions of images, pyramids
  and object arrays. What kernels and targets think of a node (types, formats, support) is one
  Boolean of the environment, so that verification may fail anywhere. The walk from the heads is a
  function of the depth, with the same cut-off as the code's `depth > numNodes`. The sorting is a function of the turn of
  its loop; it names a reference by the place where the code meets it first, which gives objects and relations the
  order of their numbers in the code. The flags `visited`
  and `executed` are reset when a call ends rather than when the next begins: nothing reads them
  between. One thread at a time calls the API of a graph: nothing in the code keeps a second one from changing or
  processing it meanwhile (see the hazards). With `Rebinds` a parameter of a verified graph is set too, and with
  `DeinitFails` a deinitializer may fail; the run leaves both out (section 3, known disagreements). Batches fit the thread pool.
- *GraphLifecycle.* A node has one parameter, an input. What the checks say of an object is one Boolean of its contents,
  `good`, which a write flips. The application is one thread, the writer another. The code does not promise what
  its flags say after some events, and four histories record them: `trusted` is lost when `vxSetGraphParameterByIndex`
  marks a graph verified that was not, or a deinitializer fails; `unchecked` when, since the verification
  began, a parameter was set, an object was written that is not `extracted` or while the graph is behind a hole of the
  table, a write overlapped a call, or `verified` was set without the checks; `forgotten` when `reverify` was lost: by a
  second modification, a failing initializer, or a contamination that overlaps a verification; `fresh` has
  the nodes that were never verified. The properties say that there are no other ways.
- *References.* Every object has one type (`KindsAssumption`). An entry of a call's list that counts a parameter names the node it is for, as the
  arguments of the call do. An object is a name used once; that an address may be used again by `malloc` is left out, and so is
  undefined behaviour: a thread uses what it has a reference to (`Has`), a node together with its graph, and
  one thread at a time a node whose parameter is being replaced (`Exclusive`). `vxReleaseContext` is called when every other call has
  returned. While the context collects, an object array may outlive its items: `NothingDangles` names
  that exception, which the code has.
- *Delay.* A node has one parameter. Ageing is one step, as nothing else may touch the delay meanwhile; it is
  called by the application or at the end of an execution. Elements are not counted themselves.
- *MemoryMaps.* Memory was allocated before an object is shared. A map or a copy moves two parts one after the other;
  contents are the parity of the number of writes. The table is never full (as many entries as threads): a full one is a
  hazard without a property. A failing lock or `malloc` is left out.
- *ContextLifecycle.* Built without `OPENVX_USE_SMP`. `Disciplined` says that one thread creates the context first and
  releases it last. Without it the code's unlocked first test, and the semaphore that is destroyed before `single_context` is
  cleared, let two threads meet in ways that end in undefined behaviour.
- *Kernels.* One target, one thread (the functions take no lock; two threads that load one module are left out), name and
  enumeration in one value, the signature a Boolean (`described`): it is inherited when an entry is used again. A module
  does what `examples/vx_xyz_module.c` does. Three situations end in undefined behaviour and are left out: a full table,
  whose `NULL` `addkernel` dereferences; counting on an entry whose lock was destroyed; and moving a node whose kernel was
  removed. Four histories name what the code does not keep apart: `dirty` entries, used again or removed beneath a holder;
  kernels registered `again` under a name that is there; registrations `overwritten` before they were finalised; and kernels
  finalised `twice`.

## 3. Runs

| Run | Instance | Shows |
|---|---|---|
| `queue_shared` | 2 writers, 2 readers (one thread is both), a thread that pops; 2 slots, 2 values, spurious wake-ups | the inductive invariant (types and the shape of the ring included), `EventsTellTheState`, `NoLostWakeup`, and the refinement `ImplementsFifo` |
| `queue_single` | 1 writer, 1 reader, 1 popper, fair | calls fail only when popped; a write returns unless the ring stays full with no reader in it; a pop releases |
| `pool` | 2 workers with queues of 2, batches of up to 3, fair | the counter, the event and the results agree; batches and release return |
| `schedule` | 1 application thread, the graph thread, 2 graphs, 2 entries, a queue call that may fail, fair | ownership of entries, right results, waits return, as long as no queue call has failed; at most one execution uses the thread pool |
| `graph_execute` | up to 3 nodes from a catalog of 9, 5 objects of which two are regions of a third, serial and SMP, fair | verification and execution, see section 1 |
| `graph_lifecycle` | 2 nodes, of a user kernel and a built-in one; 2 data objects, one of which the application keeps; 1 other object for holes; 2 threads | `LifecycleInv`, `RunsChecked`, `InitializedOnce` |
| `references` | 2 threads with 1 reference each to an object, up to 4 objects out of a graph, a node, an image, a region, an array and its item; a table of 4 | `TableIsComplete`, `CountsMatchHolders`, `NothingDangles`, `CollectedAtTheEnd` |
| `delay_two_slots` | 2 slots, 2 levels, 3 nodes | `AssociationsAreCounted`, `ParametersFollowTheDelay` |
| `delay_three_slots` | 3 slots | *violation* of `AssociationsAreFound` |
| `memory_maps` | 2 threads, an image, an image on the application's memory, an array, 2 entries | `MapsAreEntries`, `ReadsAreWhole`, `MappedObjectsLive` |
| `kernels` | 3 entries, of which the target has the first; 2 user kernels, one of them published by a module; 1 reference of the application at a time, 1 node | `TableAddsUp`, `KernelsAreServed` |
| `context` | 3 threads, 2 graphs, 2 contexts one after the other, fair | `ReferencesAreLive`, `ThreadEndsFirst`, `CallsReturn` |

**Bounds.** Two slots make the ring full, empty, half full and wrapped in every position; more slots add
no new relation between the indices, and the proofs hold for any depth. Two threads of each kind
are what races need. In the pool a batch of three over two workers makes
one worker get two items and wraps `nextWorkerIndex`; a worker and its queue hold three. Two graphs
are needed to have another graph's result put back. Three nodes are needed for a join, for a chain
whose end has another early input, and for a cycle beside a runnable node; the catalog contains them,
with a region read by one node while the whole image is read by another. In the graph lifecycle a hole needs one object that
comes before the graph, and a kernel that stays initialised next to one that does not needs two nodes. In `references` four objects
make a graph with a node and its parameter and the parent of that, so a release cascades through four destructors while another thread releases or
retains. A delay needs three nodes to have a chain behind an emptied head, and two slots are the most for which the ring's
arithmetic is right. Two contexts show what one leaves behind for the next.
Three entries of kernels leave a hole in front of a kernel when the second is removed; with two kernels one can be
registered twice, by the application and by the module, or hide the other. Two slips let an entry be overwritten and
finalised twice in one behaviour; `RefWidth = 3` lets the count of loads wrap. With two references of the application the
first eight million states hold no violation either, but it does not end in time. `MaxNodes`, `MaxBatch`, `MaxLock`, `MaxFailures`, `MaxHandles`,
`MaxObjects`, `MaxContexts`, `MaxSlips`, `RefWidth`, `Handles` and `Nodes` are the bounds on behaviour; objects, threads and values are compared only.

**Deadlock** is checked where some thread can always go on (`queue_shared`, `queue_single`,
`graph_execute`, `graph_lifecycle`, `kernels`, both delays). It is off where the system stops: a released pool, a context that
is gone, objects that were all released, and an application that waits for something that never comes.

**Fairness.** Threads are operating system threads that keep running, so each thread that is inside a call takes its
next step (weak fairness); kernels return. Taking a contended lock gets strong fairness: `SemWait` on the queue's
semaphore in `OsalQueue`, the pool's semaphore in `WorkerFinish` and `IssueLock`. POSIX does not promise that a
waiter is not overtaken for ever, but the code gives the lock up after a few instructions, and liveness under
permanent overtaking is not what it is meant to provide. Applications are never assumed to call. Nor is the reader of
a queue assumed to read again: between two reads `vxWorkerThreadpool` runs its item and takes `pool->sem`
(`fw/vx_osal.c:394`), which `ownIssueThreadpool` holds while it is blocked in `ownWriteQueue`, and `vxWorkerGraph`
processes a graph and writes to the output queue, which may be full. `WriteReturns` therefore has a condition: unless
from some moment on the ring stays full, not popped and without a reader in `ownReadQueue` (`Deserted`), every write
returns. Without the condition it is false: two writes fill the ring, nobody reads, the third never returns. A full
worker queue while its issuer holds `pool->sem` is such a case (the second disagreement below); `BatchReturns` of
`ThreadPool` is about the pool as a whole. `PopReleases` has no condition. `GraphSchedule` and `GraphExecute` need weak
fairness only. In `ContextLifecycle` a call that has `context_lock`, and the graph thread, go on (weak fairness; kernels
return); waiting for `context_lock` gets strong fairness, as the other contended locks do. `GraphLifecycle`, `References`, `Delay`,
`Kernels` and `MemoryMaps` state no fairness: their properties are safety.

**Mutants.** Modules hold a few *deviations*: operators named after another one with a suffix (`Broadcast_One`,
`NoneLeft_OneEarly`, `Ready_FirstInput`), each a defect the code does not have: a signal instead of a broadcast, an
event set one item early, an input that is not waited for. For each property of a passing run one of them, put in the
place of its operator, makes TLC report that property. They are not part of any specification.

**Finding.** The violation is a disagreement between the code and its own messages and API documentation, which
`PROJECT.json` quotes: with three slots or more an association with a delay is not found after ageing.

**Known disagreements without a run.** Six more were found with these modules, by settings of their constants that the
runs avoid. They are recorded as notes of the hazards:

- a write to a queue with two writers can fail without a pop (`OsalQueue`, `Writers = {a, b}`, one reader, no pop: `FailsOnlyWhenPopped`);
- a batch that overflows the workers' queues never returns, although the comments at `fw/vx_osal.c:466` say it does not
  wait (`ThreadPool`, `Depth = 1`, `MaxBatch = 5`: `BatchReturns`);
- a full table of scheduled graphs leaves the refused graph's lock taken for good (`GraphSchedule`, `NumSlots = 1` with two graphs:
  `EntriesMatchLocks`);
- two threads that schedule two graphs may claim one entry (`GraphSchedule`, two `Apps`: `EntryHasOneOwner`);
- a parameter set on a verified graph can make a node be skipped with success reported (`GraphExecute`, `Rebinds = TRUE`,
  `Smp = FALSE`: `EveryNodeRunsOnce`);
- a failing deinitializer verifies the graph unchecked (`GraphExecute`, `DeinitFails = TRUE`: `VerifiedIsRunnable`).

A seventh needs no setting: `vxRemoveKernel` succeeds while the application or a node still refers to the kernel, where
`include/VX/vx_api.h:879` says `VX_FAILURE`. `RemoveKernel` has no such guard, and `dirty` records what follows.
Nor does an eighth: `vxTopologicalSort` promises "current order maintained between independent nodes" (`fw/vx_graph.c:589`), but it queues
the successors of an object that was output with the one related last first. Of `A` (writes `x`), `B` (reads `x`, writes `y`) and `D` (reads `x`, writes
another image), added in this order, `TopologicalSort` makes `A`, `D`, `B`. Execution does not depend on it.

The histories of `GraphLifecycle` and the exception in `NothingDangles` record further ones in the properties themselves.

## 4. Proofs

`OsalQueue_proofs` proves, for every number of writers, readers and slots:

- `Invariant`: `Spec => []IInv`. `IInv` is `TypeOK` and five facts: who holds the lock (`LockInv`), what each
  thread knows at its step (`OpInv`), that an event not matching the state has a thread under way to set it
  (`EventInv`), that sleepers sleep on cleared events (`SleepInv`), and the ring (`RingShape`). Each is needed:
  the ring is only preserved under mutual exclusion, and the events only tell the truth *outside* the
  critical section, so inside it the thread that owes the signal has to be named. TLC checks `IInv` first (`queue_shared`).
- `TypeCorrect`, `RingIsSound`, `EventsAreTrue`, `WakeupsAreNotLost`: the safety properties of the run, from it.
- `SingleUsersFailOnlyWhenPopped`: with at most one writer and one reader and no spurious wake-ups,
  the action property `FailsOnlyWhenPopped`. It needs a second invariant (`WokenInv`): the event of a thread
  that was woken stays set, as only the thread itself would reset it. With two writers the property is false.

Assumptions: those named in `OsalQueue` (a positive depth, `NULL` is no value, `None` no thread).

The same module proves `QueueIsFifo`: `Spec => ImplementsFifo`, for the same parameters. `Contents` reads the ring from
`start_index` on and wraps at most once (`Listing`), so the step that stores a pointer appends it to the buffer, the step
that takes one takes its head, a pop closes it, and every other step leaves it alone. `IInv` is needed for the ring's
shape and because only the thread with the lock changes the ring.

`ThreadPool_proofs` proves, for every number of workers, depth of their queues and size of a batch:

- `PoolIsCounted` and, from it, `EventMeansDone`. `numCurrentItems` is a cardinality of places: those of the queues, the workers that
  have an item, the issuer that has counted its item and not yet written it. Each step moves one item from a place to the next, so the inductive
  part is who changes the counter and when: only under `pool->sem` (`LockInv`), the issuer at the right place of its batch (`LocalsInv`), no queue
  longer than its buffer (`WorkersInv`). That the event may be set is `completed => numCurrentItems = 0`.
- `CollectedIsFinished`: what the issuer collects is done, and between two batches nobody has an item of its stack. Assumption:
  no wait for the event ends by itself (`~Spurious`); with `Spurious` the property is false, which is a hazard of the
  list. `BatchInv` follows each item that was issued: in a queue, with a worker, or done. When the counter is 0 the first two are impossible.
  A refused item is left out of the batch only while the pool is being released.

`GraphSchedule_proofs` proves two groups of facts.

- `OnePoolUser`: `Spec => []OneExecutionUsesThePool`, for every number of application threads, graphs, entries and failing queue
  calls. The property is types, the count, and the exclusion. Inductively: the count is the
  number of threads between the two sections of `vxProcessGraph` (a finite set that a thread joins or leaves), so a thread that reads it while another
  one executes alone reads at least two. `StepInv` adds what a thread knows of its graph and its entry, which the
  types need. The run has one application thread and the graph thread; two application threads are out of TLC's reach, not of the theorem's.
- `EntriesInStep`, and from it `EntriesHaveOneOwner`, `WaitersGetTheirResult` and the action property `RunsOnce`, for every number of
  graphs and entries, until the first queue call fails. `OwnerInv` says where an entry is (free, in one thread's hands, at one
  place of one queue), `EntryInv` how entries, locks and callers fit (no two entries of one graph; whoever is inside a call has the lock of its graph),
  `RanInv` that an entry on its way back carries a result of an execution after its last schedule. None is inductive alone: that an entry goes back to
  the right graph needs that the graph has no second one, which needs that only a caller with the lock makes one.
  Assumption: `OneCaller`, at most one application thread. With two the property is false: an entry is claimed under the global lock and
  filled without it, so two callers may claim the same one (section 3).
- `LocksMatchEntries`, with the further assumption `EnoughEntries`, at least as many entries as graphs: a call that finds the table full returns with the
  lock taken.

Assumptions of the module: a positive number of entries and depth, finitely many application threads, none of them the graph thread.

`MemoryMaps_proofs` proves, for every number of threads, images and arrays:

- `MapsInStep`: `Spec => []IInv`, and from it `EntriesFollowMaps`, `ReadsComeWhole` and `MappedStayLive`, the three properties of the run. `TableInv`
  says of single entries, maps and buffers what `MapsAreEntries` says of the table; that a free entry is
  found is the pigeonhole (`SlotIsFree`). `LockInv` allows half a write only to the thread with the plane's lock; `FillInv` says that a reader between its two parts agrees
  with contents that nobody may change meanwhile. `CountInv` is the counting: the thread's own reference covers the object until
  the map is filled, the map's from then on, so the last reference is given up by nobody who leaves a mapper behind (`LastReference`).

Assumptions: finitely many threads, `Null` is none of the names, and `EnoughSlots`: the table has an entry for each thread (the bound
`MemoryMaps` states; a full table is a hazard without a property).

`ContextLifecycle_proofs` proves, for every number of threads, graphs and contexts one after the other:

- `Bracketed`: `Spec => []IInv`, and from it `ReferencesStayLive` and `ThreadStops`. `BracketInv` says that the thread `Main` has a context exactly as long
  as there is one; then the count of users cannot reach 0 at another thread (`LastIsMain`: two users are counted there), so only `Main` gets into the
  code that stops the thread and frees. `LockInv` makes the semaphore a lock, which it is only between
  its initialisation and its destruction; `ThreadInv` orders the end of the graph thread before the end of its queues.

Assumptions: finitely many threads, and `Disciplined`, the bracket. Without the bracket the properties are false (see *ContextLifecycle* in section 2).

`GraphLifecycle_proofs` proves, for every number of nodes, user kernels, data objects and other references:

- `Invariant`: `Spec => []LifecycleInv`. What `verified` and `reverify` promise is stated together with what makes it
  inductive: `verified` is false from the first step of `vxVerifyGraph` to the last (so that the other thread's copy
  `reverify = verified` is harmless in between), nodes that are not in the graph have no initialised kernel, and
  the two readings of the flags, *initialised if a flag is set* (while `trusted`) and *not initialised if none is*
  (unless `forgotten`).
- `RunsAreChecked` and `KernelsInitialisedOnce`, from it.

Assumptions: user nodes are nodes, kept objects are data objects, and objects of different kinds differ and are finitely many.

`GraphExecute_proofs` proves, for any objects and overlaps of their memory, any catalog of nodes and any number of nodes in the
graph:

- `SortsGraphs`, of `SortIsTopological`, without further assumptions. `SortInv` follows the turns of the sorting: an output object has its
  predecessors in front of it, the objects without a predecessor left are those output or queued, each once, and a turn outputs one unless the queue is empty.
  That all are output if the graph has no cycle (`NothingIsLeft`): among the nodes left there would be one that no other feeds, and the objects
  it waits for are references that only nodes already output write. `SortPermutes`: picking the nodes from a complete output is a permutation, so none is lost or repeated; after a cycle
  the list is as it was.
- `ExecutionInStep`: `Spec => []IInv`. `VerifyInv` says what `verified` stands for. That a graph that passes is acyclic (`RunnableIsAcyclic`) takes the depth
  and the marks together: the sets of nodes from which the walk fails at depth *k* only fall, so one of the first *n + 1* equals its successor, and
  a set that does is what no walk of any depth leaves; a cycle would lie in it, and since every node is marked, a head leads to it. The scan for a second writer, bounded by the wrong node's number of
  parameters, is symmetric in the two nodes and misses nothing (`ScanFindsWriters`). `BatchInv` accounts for the lists of `vxExecuteGraph`: each
  node is to be taken, running, executed or none of these; those of the batch have all their producers behind them, and a node
  that waits although a producer has run is in `left`. An empty batch then means that everything was executed (`NothingWaits`), since in an acyclic graph a
  waiting node would lead back to one that does not wait.
- `VerifiedGraphsRun`, `ProducersRunFirst`, `NoRace` and `NodesRunOnce`, the safety properties of the run, from it.

Assumption of all but the first: `Settled`, no parameter of a verified graph is set and no deinitializer fails. TLC refutes the properties without
either (section 3). Assumptions of the module: no reference is `NoRef`, memory is shared in both directions, catalog and flags have their types.
The prover has no induction over a recursive definition; `Recursion` and `UpTo` derive what is needed, for functions of a number up to a bound, from the
least number that fails.

`References_proofs` proves, for every number of threads, of objects of each type and of references of a thread, and any size of the table:

- `ReferencesInvariant`: `Spec => []IInv`, and from it `TheTableIsComplete`, `TheCountsMatchTheHolders`, `NoReferenceDangles` and
  `EverythingIsCollected`, the four properties of the run.
- The counting is in `CountInv`: a count is the references the application has (`Hands`), the objects that refer to this one (`Holders`)
  and the entries of the calls' lists that are about to change it (`Often`). A step moves one unit from one to another: a handle that is given up becomes an entry,
  an entry that is done a smaller count, and a destructor turns all that its object holds into entries at once (`CountMoves`). It stays true for internal
  counts while the context collects its objects; external ones are then no longer the application's.
- An object is destroyed outside its lock, so the entry `take out` has to be the last reference to it. `LastIsUnused` says so: when both counts are zero the
  equations leave no handle, no holder and no entry that decrements. An entry that increments is the exception the equations do not see,
  as it stands for a reference that `holds` has already. `Reason` says why each entry is on its list: the thread of an increment has the node and the
  parameter, so the parameter's external count is not zero; and one node's parameter is counted by one thread at a time (`OnceInv`).
- A graph gives up its nodes one by one while other threads go on: `Shape` says that the rest of the destructor is behind each of them, and
  `HoldsInv` that the graph of a node that is unlinked is the one being destroyed.
- At the end of the collection (`EndOfTable`) every external count is zero. An object that were left would be held internally by one that is left too: a parameter by a node,
  a node by a graph, which nothing holds; an image by a region, and no region is a part of itself, however long the chain (`PartsInv`).

TLC finds no state of the run's instance that breaks this `IInv`. The instance has one region, one array and one reference of a thread to an object; chains
of regions and several references are the theorem's.

Assumptions: those of the module, positive bounds, finitely many objects and threads, `Null` no object, and one type for every object.

Only model-checked: liveness and fairness (`WriteReturns`, `PopReleases`, `BatchReturns`, `ReleaseReturns`, `WaitReturns`, `CallsReturn`, `ExecutionEnds`), which are out of the
prover's reach, and the invariants of `Delay` and `Kernels`, which have no proof yet: those of `Delay` are true for one or two slots only (section 3), and
are checked with two slots and three nodes, those of `Kernels` in a table of three entries.

## 5. Plan

Theorems, in order: `TableAddsUp` of `Kernels`; `AssociationsAreCounted` of `Delay`, for two slots.

Models: regions of images whose handles are swapped (`fw/vx_image.c:978`); allocation that unrolls (`ownAllocateMemory`); two
executions of one graph, scheduled and processed at once; the release of a context during an SMP execution; a graph's list of delays to age.

## 6. Not modelled

Kernels' arithmetic, image formats and borders, XML and dot, the OpenCL and OpenMP targets, VXU, SIFT, tools, bindings,
examples and tests: no shared state beyond the API above. `openvx_sample-1.0.1` and `seq_impl` are an earlier
copy and a client. Windows' events and semaphores: the POSIX build is modelled. The use of an object after its
destruction is undefined behaviour of the C code: the models stop at the property that says it does not happen.

By lines this is most of the repository: headers of declarations, two full copies of the framework (1.0.1 and
1.1), XML import and export, tables of types and formats, and code that computes on pixels in one thread. What keeps state that
several calls or threads depend on is the `framework/` of release 1.1, and within it the files the inventory names. Of those
files, queries and attributes, parameter checks, logging and the allocation of a single object change no state that another
operation relies on, and are left out.
