-------------------------- MODULE ContextLifecycle --------------------------
(***************************************************************************)
(* vxCreateContext and vxReleaseContext (vx_context.c) called by several   *)
(* threads, and the end of the graph thread vxWorkerGraph, in a process    *)
(* that may create the context again after it is gone.                     *)
(*                                                                         *)
(* There is one context; further calls of vxCreateContext count references *)
(* to it under context_lock, a semaphore that lives and dies with it.      *)
(* Releasing the last reference stops the graph thread, which may be       *)
(* executing a scheduled graph, then frees what it was using.  The queues  *)
(* are the first-in first-out buffers OsalQueue implements; a graph is     *)
(* executed by the graph thread alone (built without OPENVX_USE_SMP).      *)
(***************************************************************************)
EXTENDS Integers, Sequences, FiniteSets

CONSTANTS
  Apps,         (* application threads                                     *)
  Main,         (* the one that brackets the others if Disciplined         *)
  Disciplined,  (* the first vxCreateContext returns before any other is   *)
                (* called, and the last vxReleaseContext is called after   *)
                (* every other has returned                                *)
  Graphs,       (* verified graphs                                         *)
  MaxContexts,  (* bound: contexts created                                 *)
  NoGraph

Contexts == 1 .. MaxContexts
NoContext == 0

ASSUME MainAssumption == Main \in Apps /\ IsFiniteSet(Apps) /\ Disciplined \in BOOLEAN
ASSUME BoundAssumption == MaxContexts \in Nat /\ NoGraph \notin Graphs

VARIABLES
  context_lock,    (* its value, -1 when there is no such semaphore        *)
  single_context,
  state,           (* memory of the contexts: "unborn", "live", "freed"    *)
  external,        (* their external counts                                *)
  running,         (* proc.running                                         *)
  input,           (* proc.input: the graphs in it, and whether popped     *)
  queues,          (* contexts whose queues are initialized                *)
  thread,          (* the graph thread of a context: where it is           *)
  executing,       (* and the graph it has taken                           *)
  pc,              (* where the application threads are                    *)
  context          (* the reference they have, use or give up              *)

vars == <<context_lock, single_context, state, external, running, input, queues,
          thread, executing, pc, context>>
memory == <<state, external>>
proc == <<running, input, queues, thread, executing>>

Goto(a, l) == pc' = [pc EXCEPT ![a] = l]

-----------------------------------------------------------------------------
(* The semaphore. *)

CreateLock == context_lock' = 1
LockContext == context_lock > 0 /\ context_lock' = context_lock - 1

PostContext == context_lock' = context_lock + 1

-----------------------------------------------------------------------------
(* vxCreateContext *)

OthersIdle(a) == \A b \in Apps \ {a} : pc[b] = "idle" /\ context[b] = NoContext

MayCreate(a) ==
  Disciplined => IF a = Main THEN OthersIdle(a)
                 ELSE context[Main] # NoContext /\ pc[Main] = "idle"

(* Both semaphores are made before anything is locked.                     *)
CreateCheck(a) ==
  /\ pc[a] = "idle" /\ context[a] = NoContext
  /\ MayCreate(a)
  /\ single_context = NoContext => \E c \in Contexts : state[c] = "unborn"
  /\ IF single_context = NoContext THEN CreateLock ELSE UNCHANGED context_lock
  /\ Goto(a, "create_lock")
  /\ UNCHANGED <<single_context, memory, proc, context>>

CreateWait(a) ==
  /\ pc[a] = "create_lock"
  /\ LockContext
  /\ Goto(a, "create")
  /\ UNCHANGED <<single_context, memory, proc, context>>

CreateFirst(a) ==
  /\ pc[a] = "create" /\ single_context = NoContext
  /\ \E c \in Contexts :
       /\ state[c] = "unborn" /\ \A d \in Contexts : d < c => state[d] # "unborn"
       /\ state' = [state EXCEPT ![c] = "live"]
       /\ external' = [external EXCEPT ![c] = 1]
       /\ queues' = queues \cup {c}
       /\ running' = [running EXCEPT ![c] = TRUE]
       /\ thread' = [thread EXCEPT ![c] = "check"]
       /\ single_context' = c
       /\ context' = [context EXCEPT ![a] = c]
  /\ Goto(a, "create_post")
  /\ UNCHANGED <<context_lock, input, executing>>

Referenced_Not(count) == count   (* deviation: the singleton is handed out uncounted *)
Referenced(count) == count + 1

CreateAgain(a) ==
  /\ pc[a] = "create" /\ single_context # NoContext
  /\ external' = [external EXCEPT ![single_context] = Referenced(@)]
  /\ context' = [context EXCEPT ![a] = single_context]
  /\ Goto(a, "create_post")
  /\ UNCHANGED <<context_lock, single_context, state, proc>>

CreatePost(a) ==
  /\ pc[a] = "create_post"
  /\ PostContext
  /\ Goto(a, "idle")
  /\ UNCHANGED <<single_context, memory, proc, context>>

-----------------------------------------------------------------------------
(* vxReleaseContext *)

MayRelease(a) == Disciplined /\ a = Main => OthersIdle(a)

ReleaseCall(a) ==
  /\ pc[a] = "idle" /\ context[a] # NoContext
  /\ MayRelease(a)
  /\ Goto(a, "release_lock")
  /\ UNCHANGED <<context_lock, single_context, memory, proc, context>>

ReleaseWait(a) ==
  /\ pc[a] = "release_lock"
  /\ LockContext
  /\ Goto(a, "release")
  /\ UNCHANGED <<single_context, memory, proc, context>>

ReleaseDecrement(a) ==
  LET c == context[a] IN
  /\ pc[a] = "release"
  /\ external' = [external EXCEPT ![c] = @ - 1]
  /\ IF external[c] = 1
     THEN Goto(a, "stop") /\ UNCHANGED <<context_lock, context>>
     ELSE Goto(a, "idle") /\ PostContext /\ context' = [context EXCEPT ![a] = NoContext]
  /\ UNCHANGED <<single_context, state, proc>>

StopRunning(a) ==
  /\ pc[a] = "stop"
  /\ running' = [running EXCEPT ![context[a]] = FALSE]
  /\ Goto(a, "pop")
  /\ UNCHANGED <<context_lock, single_context, memory, input, queues, thread, executing, context>>

Popped_Not(q) == q   (* deviation: the reader of the queue is not woken up *)
Popped(q) == [q EXCEPT !.popped = TRUE]

PopInput(a) ==
  /\ pc[a] = "pop"
  /\ input' = [input EXCEPT ![context[a]] = Popped(@)]
  /\ Goto(a, "join")
  /\ UNCHANGED <<context_lock, single_context, memory, running, queues, thread, executing, context>>

Joinable_Always(c) == TRUE   (* deviation: the thread is not waited for *)
Joinable(c) == thread[c] = "ended"

JoinThread(a) ==
  /\ pc[a] = "join" /\ Joinable(context[a])
  /\ Goto(a, "deinit")
  /\ UNCHANGED <<context_lock, single_context, memory, proc, context>>

DeinitQueues(a) ==
  /\ pc[a] = "deinit"
  /\ queues' = queues \ {context[a]}
  /\ Goto(a, "free")
  /\ UNCHANGED <<context_lock, single_context, memory, running, input, thread, executing, context>>

(* The objects that are left, modules, targets and maps go; the lock is    *)
(* posted before there is no context.                                      *)
FreeContext(a) ==
  /\ pc[a] = "free"
  /\ state' = [state EXCEPT ![context[a]] = "freed"]
  /\ PostContext
  /\ Goto(a, "destroy_lock")
  /\ UNCHANGED <<single_context, external, proc, context>>

DestroyLock(a) ==
  /\ pc[a] = "destroy_lock"
  /\ context_lock' = -1
  /\ Goto(a, "forget")
  /\ UNCHANGED <<single_context, memory, proc, context>>

ForgetContext(a) ==
  /\ pc[a] = "forget"
  /\ single_context' = NoContext
  /\ context' = [context EXCEPT ![a] = NoContext]
  /\ Goto(a, "idle")
  /\ UNCHANGED <<context_lock, memory, proc>>

-----------------------------------------------------------------------------
(* The graph thread, and the graphs it is given. *)

InFlight(g) == \E c \in Contexts : executing[c] = g \/ \E i \in DOMAIN input[c].graphs : input[c].graphs[i] = g

(* vxScheduleGraph, by a thread that has the context.                      *)
ScheduleGraph(a, g) ==
  /\ pc[a] = "idle" /\ context[a] # NoContext /\ ~InFlight(g)
  /\ input' = [input EXCEPT ![context[a]].graphs = Append(@, g)]
  /\ UNCHANGED <<context_lock, single_context, memory, running, queues, thread, executing, pc, context>>

CheckRunning(c) ==
  /\ thread[c] = "check"
  /\ thread' = [thread EXCEPT ![c] = IF running[c] THEN "read" ELSE "ended"]
  /\ UNCHANGED <<context_lock, single_context, memory, running, input, queues, executing, pc, context>>

(* ownReadQueue waits for an item, and returns without one when popped.    *)
ReadGraph(c) ==
  LET q == input[c] IN
  /\ thread[c] = "read"
  /\ IF q.popped
     THEN thread' = [thread EXCEPT ![c] = "check"] /\ UNCHANGED <<input, executing>>
     ELSE /\ q.graphs # <<>>
          /\ executing' = [executing EXCEPT ![c] = Head(q.graphs)]
          /\ input' = [input EXCEPT ![c].graphs = Tail(@)]
          /\ thread' = [thread EXCEPT ![c] = "execute"]
  /\ UNCHANGED <<context_lock, single_context, memory, running, queues, pc, context>>

(* vxProcessGraph ends, and the entry goes to the output queue.            *)
ExecuteGraph(c) ==
  /\ thread[c] = "execute"
  /\ executing' = [executing EXCEPT ![c] = NoGraph]
  /\ thread' = [thread EXCEPT ![c] = "check"]
  /\ UNCHANGED <<context_lock, single_context, memory, running, input, queues, pc, context>>

Init ==
  /\ context_lock = -1
  /\ single_context = NoContext
  /\ state = [c \in Contexts |-> "unborn"]
  /\ external = [c \in Contexts |-> 0]
  /\ running = [c \in Contexts |-> FALSE]
  /\ input = [c \in Contexts |-> [graphs |-> <<>>, popped |-> FALSE]]
  /\ queues = {}
  /\ thread = [c \in Contexts |-> "none"]
  /\ executing = [c \in Contexts |-> NoGraph]
  /\ pc = [a \in Apps |-> "idle"]
  /\ context = [a \in Apps |-> NoContext]

(* What a call does once it has the lock, and what the graph thread does.  *)
Proceed(a) ==
  \/ CreateFirst(a) \/ CreateAgain(a) \/ CreatePost(a)
  \/ ReleaseDecrement(a) \/ StopRunning(a) \/ PopInput(a) \/ JoinThread(a)
  \/ DeinitQueues(a) \/ FreeContext(a) \/ DestroyLock(a) \/ ForgetContext(a)

WorkerGraph(c) == CheckRunning(c) \/ ReadGraph(c) \/ ExecuteGraph(c)

Next ==
  \/ \E a \in Apps :
       \/ CreateCheck(a) \/ CreateWait(a) \/ ReleaseCall(a) \/ ReleaseWait(a)
       \/ Proceed(a)
       \/ \E g \in Graphs : ScheduleGraph(a, g)
  \/ \E c \in Contexts : WorkerGraph(c)

Spec == Init /\ [][Next]_vars

FairSpec ==
  /\ Spec
  /\ \A a \in Apps : WF_vars(Proceed(a)) /\ SF_vars(CreateWait(a)) /\ SF_vars(ReleaseWait(a))
  /\ \A c \in Contexts : WF_vars(WorkerGraph(c))

-----------------------------------------------------------------------------
(* Properties. *)

CreatePcs == {"create_lock", "create", "create_post"}
StopPcs == {"stop", "pop", "join", "deinit", "free"}
GonePcs == {"destroy_lock", "forget"}
ReleasePcs == {"release_lock", "release"} \cup StopPcs \cup GonePcs

TypeOK ==
  /\ context_lock \in {-1, 0, 1}
  /\ single_context \in Contexts \cup {NoContext}
  /\ state \in [Contexts -> {"unborn", "live", "freed"}]
  /\ external \in [Contexts -> 0 .. Cardinality(Apps)]
  /\ running \in [Contexts -> BOOLEAN]
  /\ input \in [Contexts -> [graphs : Seq(Graphs), popped : BOOLEAN]]
  /\ queues \subseteq Contexts
  /\ thread \in [Contexts -> {"none", "check", "read", "execute", "ended"}]
  /\ executing \in [Contexts -> Graphs \cup {NoGraph}]
  /\ pc \in [Apps -> {"idle"} \cup CreatePcs \cup ReleasePcs]
  /\ context \in [Apps -> Contexts \cup {NoContext}]

(* A reference that vxCreateContext returned is to the one live context    *)
(* until it is given up, whoever creates and releases at the same time,    *)
(* and the context is there exactly as long as there are references.       *)
ReferencesAreLive ==
  /\ TypeOK
  /\ \A a \in Apps : context[a] # NoContext /\ pc[a] \notin GonePcs =>
       context[a] = single_context /\ state[context[a]] = "live"
  /\ \A c \in Contexts : state[c] = "live" =>
       external[c] = Cardinality({a \in Apps : context[a] = c /\ pc[a] \notin StopPcs})
  /\ Cardinality({c \in Contexts : state[c] = "live"}) <= 1

(* The queues and the context are there until the graph thread ended, even *)
(* if it is given work to the last moment.                                 *)
ThreadEndsFirst ==
  \A c \in Contexts :
    thread[c] \in {"check", "read", "execute"} => c \in queues /\ state[c] = "live"

(* Every call of vxCreateContext and vxReleaseContext returns: the graph   *)
(* thread notices that it has to end, whatever it is doing, and no lock is *)
(* left taken.                                                             *)
CallsReturn == \A a \in Apps : pc[a] # "idle" ~> pc[a] = "idle"
=============================================================================
