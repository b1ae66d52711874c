----------------------- MODULE ContextLifecycle_proofs -----------------------
(***************************************************************************)
(* References are to a live context, and the graph thread ends before what *)
(* it uses is freed, when one thread creates the context first and         *)
(* releases it last (Disciplined), for any number of threads and contexts. *)
(*                                                                         *)
(* The bracketing thread has the context exactly as long as there is one,  *)
(* so no other thread can be the one that destroys it: whoever counts the  *)
(* last reference down is the thread that holds the bracket.               *)
(***************************************************************************)
EXTENDS ContextLifecycle, FiniteSetTheorems, TLAPS

(* Where a thread has context_lock.                                        *)
Critical == {"create", "create_post", "release"} \cup StopPcs

(* The context is the one the bracketing thread has, nobody else does      *)
(* anything without it, and nobody else gets to the end of a release.      *)
BracketInv ==
  /\ single_context = context[Main]
  /\ \A a \in Apps : context[a] \in {NoContext, single_context}
  /\ \A a \in Apps : pc[a] \in {"create_lock", "create"} => context[a] = NoContext
  /\ \A a \in Apps : pc[a] \in {"create_post"} \cup ReleasePcs => context[a] # NoContext
  /\ \A a \in Apps \ {Main} : pc[a] # "idle" \/ context[a] # NoContext =>
       pc[Main] = "idle" /\ context[Main] # NoContext
  /\ \A a \in Apps \ {Main} : pc[a] \notin StopPcs \cup GonePcs

(* The semaphore is a lock while it is there.                              *)
LockInv ==
  /\ \A a, b \in Apps : pc[a] \in Critical /\ pc[b] \in Critical => a = b
  /\ context_lock = 0 <=> \E a \in Apps : pc[a] \in Critical
  /\ context_lock = -1 <=> \/ pc[Main] = "forget"
                           \/ pc[Main] = "idle" /\ context[Main] = NoContext

Users(c) == {a \in Apps : context[a] = c /\ pc[a] \notin StopPcs}

CountInv ==
  /\ \A c \in Contexts : state[c] = "live" <=> c = context[Main] /\ pc[Main] \notin GonePcs
  /\ \A c \in Contexts : state[c] = "live" => external[c] = Cardinality(Users(c))

ThreadInv ==
  /\ ThreadEndsFirst
  /\ \A c \in Contexts : state[c] = "unborn" => thread[c] = "none"
  /\ pc[Main] \in {"deinit", "free"} => thread[context[Main]] = "ended"
  /\ \A c \in Contexts : state[c] = "live" /\ pc[Main] # "free" => c \in queues

IInv == TypeOK /\ BracketInv /\ LockInv /\ CountInv /\ ThreadInv

(* There is a thread, and a finite number of them.                         *)
LEMMA SomeApps == Cardinality(Apps) \in Nat /\ 1 \in 0 .. Cardinality(Apps)
<1>1. Cardinality({Main}) <= Cardinality(Apps) /\ Cardinality({Main}) = 1
  BY MainAssumption, FS_Singleton, FS_Subset
<1>2. QED
  BY <1>1, MainAssumption, FS_CardinalityType

(* So the users of a context can be counted, and another one, too.         *)
LEMMA UsersAreFinite ==
  ASSUME NEW c
  PROVE  /\ IsFiniteSet(Users(c))
         /\ Cardinality(Users(c)) \in Nat /\ Cardinality(Users(c)) <= Cardinality(Apps)
         /\ \A a \in Apps \ Users(c) : Cardinality(Users(c)) + 1 <= Cardinality(Apps)
<1>1. Users(c) \in SUBSET Apps
  BY DEF Users
<1>2. IsFiniteSet(Users(c)) /\ Cardinality(Users(c)) <= Cardinality(Apps)
  BY <1>1, MainAssumption, FS_Subset
<1>3. ASSUME NEW a \in Apps \ Users(c)
      PROVE  Cardinality(Users(c)) + 1 <= Cardinality(Apps)
  <2>1. Users(c) \cup {a} \in SUBSET Apps
    BY <1>1
  <2>2. Cardinality(Users(c) \cup {a}) <= Cardinality(Apps)
    BY <2>1, MainAssumption, FS_Subset
  <2>3. QED
    BY <1>2, <2>2, FS_AddElement
<1>4. QED
  BY <1>2, <1>3, FS_CardinalityType

(* The count of a context is 1 when the bracketing thread releases it, and *)
(* at least 2 when another thread does, because the bracketing thread is   *)
(* then a user of the context besides.                                     *)
LEMMA LastIsMain ==
  ASSUME Disciplined, IInv, NEW a \in Apps, pc[a] = "release"
  PROVE  external[context[a]] = 1 <=> a = Main
<1> USE DEF IInv, StopPcs, GonePcs, ReleasePcs, NoContext
<1>1. /\ context[a] # NoContext /\ context[a] = context[Main] /\ context[a] \in Contexts
      /\ pc[Main] \notin GonePcs
  BY MainAssumption DEF BracketInv, TypeOK
<1>2. external[context[a]] = Cardinality(Users(context[a]))
  BY <1>1 DEF CountInv
<1>3. a \in Users(context[a])
  BY DEF Users
<1>4. CASE a = Main
  <2>1. \A b \in Apps : b # Main => context[b] = NoContext
    BY <1>4, MainAssumption DEF BracketInv
  <2>2. Users(context[a]) = {a}
    BY <2>1, <1>1, <1>3, <1>4 DEF Users
  <2>3. QED
    BY <1>2, <1>4, <2>2, FS_Singleton
<1>5. CASE a # Main
  <2>1. Main \in Users(context[a])
    BY <1>1, <1>5, MainAssumption DEF BracketInv, Users
  <2>2. Cardinality(Users(context[a])) # 1
    <3>1. \A x : Users(context[a]) # {x}
      BY <1>3, <1>5, <2>1
    <3>2. QED
      BY <3>1, UsersAreFinite, FS_Singleton
  <2>3. QED
    BY <1>2, <1>5, <2>2
<1>6. QED
  BY <1>4, <1>5

(* A thread that counts another reference to the context is not its user,  *)
(* and the context is live: the bracketing thread has it.                  *)
LEMMA AgainIsLive ==
  ASSUME Disciplined, IInv, NEW a \in Apps, CreateAgain(a)
  PROVE  /\ a # Main /\ single_context \in Contexts /\ state[single_context] = "live"
         /\ a \notin Users(single_context) /\ single_context = context[Main]
  BY MainAssumption DEF IInv, TypeOK, BracketInv, CountInv, CreateAgain, Users, GonePcs,
     NoContext

(* The thread that ends a release is the bracketing one.                   *)
LEMMA StopIsMain ==
  ASSUME Disciplined, IInv, NEW a \in Apps, pc[a] \in StopPcs \cup GonePcs
  PROVE  /\ a = Main /\ context[Main] \in Contexts
         /\ \A b \in Apps \ {Main} : pc[b] = "idle" /\ context[b] = NoContext
  BY MainAssumption DEF IInv, TypeOK, BracketInv, ReleasePcs, StopPcs, GonePcs, NoContext

(* The thread that creates the context is the bracketing one, too.         *)
LEMMA FirstIsMain ==
  ASSUME Disciplined, IInv, NEW a \in Apps, pc[a] = "create", single_context = NoContext
  PROVE  /\ a = Main /\ context[Main] = NoContext
         /\ \A b \in Apps \ {Main} : pc[b] = "idle" /\ context[b] = NoContext
         /\ \A c \in Contexts : state[c] # "live"
  BY MainAssumption DEF IInv, TypeOK, BracketInv, CountInv, GonePcs, NoContext, Contexts

(* Every step keeps the types: the semaphore never counts past 1, and no   *)
(* context more references than there are threads.                         *)
LEMMA TypeStep == Disciplined /\ IInv /\ [Next]_vars => TypeOK'
<1> SUFFICES ASSUME Disciplined, IInv, [Next]_vars PROVE TypeOK'
  OBVIOUS
<1> USE MainAssumption, BoundAssumption DEF IInv, TypeOK, StopPcs, GonePcs, ReleasePcs,
       CreatePcs, Critical, memory, proc
<1>1. ASSUME NEW a \in Apps, CreateCheck(a) PROVE TypeOK'
  BY <1>1 DEF CreateCheck, MayCreate, OthersIdle, CreateLock, Goto
<1>2. ASSUME NEW a \in Apps, CreateWait(a) PROVE TypeOK'
  BY <1>2 DEF CreateWait, LockContext, Goto
<1>3. ASSUME NEW a \in Apps, CreateFirst(a) PROVE TypeOK'
  BY <1>3, SomeApps DEF CreateFirst, Goto, Contexts
<1>4. ASSUME NEW a \in Apps, CreateAgain(a) PROVE TypeOK'
  <2>1. /\ single_context \in Contexts /\ a \notin Users(single_context)
        /\ external[single_context] = Cardinality(Users(single_context))
    BY <1>4, AgainIsLive DEF CountInv
  <2>2. external[single_context] + 1 \in 0 .. Cardinality(Apps)
    BY <2>1, UsersAreFinite, SomeApps
  <2>3. QED
    BY <1>4, <2>1, <2>2 DEF CreateAgain, Referenced, Goto
<1>5. ASSUME NEW a \in Apps, CreatePost(a) PROVE TypeOK'
  BY <1>5 DEF CreatePost, PostContext, Goto, LockInv
<1>6. ASSUME NEW a \in Apps, ReleaseCall(a) PROVE TypeOK'
  BY <1>6 DEF ReleaseCall, MayRelease, OthersIdle, Goto
<1>7. ASSUME NEW a \in Apps, ReleaseWait(a) PROVE TypeOK'
  BY <1>7 DEF ReleaseWait, LockContext, Goto
<1>8. ASSUME NEW a \in Apps, ReleaseDecrement(a) PROVE TypeOK'
  <2>1. context[a] \in Contexts /\ pc[Main] \notin GonePcs /\ context[a] = context[Main]
    BY <1>8 DEF ReleaseDecrement, BracketInv, NoContext
  <2>2. external[context[a]] = Cardinality(Users(context[a])) /\ a \in Users(context[a])
    BY <1>8, <2>1 DEF ReleaseDecrement, CountInv, Users
  <2>3. external[context[a]] # 0
    BY <2>2, UsersAreFinite, FS_EmptySet
  <2>4. context_lock = 0
    BY <1>8 DEF ReleaseDecrement, LockInv
  <2>5. external[context[a]] - 1 \in 0 .. Cardinality(Apps)
    BY <2>1, <2>3, SomeApps
  <2>6. external' \in [Contexts -> 0 .. Cardinality(Apps)]
    BY <1>8, <2>1, <2>5 DEF ReleaseDecrement
  <2>7. context_lock' \in {-1, 0, 1}
    BY <1>8, <2>4 DEF ReleaseDecrement, PostContext
  <2>8. /\ pc' \in [Apps -> {"idle"} \cup CreatePcs \cup ReleasePcs]
        /\ context' \in [Apps -> Contexts \cup {NoContext}]
    BY <1>8 DEF ReleaseDecrement, Goto
  <2>9. QED
    BY <1>8, <2>6, <2>7, <2>8 DEF ReleaseDecrement
<1>9. ASSUME NEW a \in Apps, StopRunning(a) PROVE TypeOK'
  BY <1>9 DEF StopRunning, Goto
<1>10. ASSUME NEW a \in Apps, PopInput(a) PROVE TypeOK'
  BY <1>10 DEF PopInput, Popped, Goto
<1>11. ASSUME NEW a \in Apps, JoinThread(a) PROVE TypeOK'
  BY <1>11 DEF JoinThread, Joinable, Goto
<1>12. ASSUME NEW a \in Apps, DeinitQueues(a) PROVE TypeOK'
  BY <1>12 DEF DeinitQueues, Goto
<1>13. ASSUME NEW a \in Apps, FreeContext(a) PROVE TypeOK'
  <2>1. context_lock = 0
    BY <1>13 DEF FreeContext, LockInv
  <2>2. context_lock' \in {-1, 0, 1}
    BY <1>13, <2>1 DEF FreeContext, PostContext
  <2>3. QED
    BY <1>13, <2>2 DEF FreeContext, Goto
<1>14. ASSUME NEW a \in Apps, DestroyLock(a) PROVE TypeOK'
  BY <1>14 DEF DestroyLock, Goto
<1>15. ASSUME NEW a \in Apps, ForgetContext(a) PROVE TypeOK'
  BY <1>15 DEF ForgetContext, Goto
<1>16. ASSUME NEW a \in Apps, NEW g \in Graphs, ScheduleGraph(a, g) PROVE TypeOK'
  <2>1. context[a] \in Contexts
    BY <1>16 DEF ScheduleGraph
  <2>2. Append(input[context[a]].graphs, g) \in Seq(Graphs)
    BY <2>1
  <2>3. QED
    BY <1>16, <2>1, <2>2 DEF ScheduleGraph
<1>17. ASSUME NEW c \in Contexts, CheckRunning(c) PROVE TypeOK'
  BY <1>17 DEF CheckRunning
<1>18. ASSUME NEW c \in Contexts, ReadGraph(c) PROVE TypeOK'
  <2>1. CASE input[c].popped
    BY <1>18, <2>1 DEF ReadGraph
  <2>2. CASE ~input[c].popped
    <3>1. Head(input[c].graphs) \in Graphs /\ Tail(input[c].graphs) \in Seq(Graphs)
      BY <1>18, <2>2 DEF ReadGraph
    <3>2. input' \in [Contexts -> [graphs : Seq(Graphs), popped : BOOLEAN]]
      <4>1. input' = [input EXCEPT ![c].graphs = Tail(input[c].graphs)]
        BY <1>18, <2>2 DEF ReadGraph
      <4>2. [input[c] EXCEPT !.graphs = Tail(input[c].graphs)]
              \in [graphs : Seq(Graphs), popped : BOOLEAN]
        <5> DEFINE q == input[c]
                   r == Tail(input[c].graphs)
        <5>1. q \in [graphs : Seq(Graphs), popped : BOOLEAN] /\ r \in Seq(Graphs)
          BY <3>1
        <5> HIDE DEF q, r
        <5>2. [q EXCEPT !.graphs = r] \in [graphs : Seq(Graphs), popped : BOOLEAN]
          BY <5>1
        <5>3. QED
          BY <5>2 DEF q, r
      <4>3. QED
        BY <4>1, <4>2
    <3>3. executing' \in [Contexts -> Graphs \cup {NoGraph}]
      BY <1>18, <2>2, <3>1 DEF ReadGraph
    <3>4. QED
      BY <1>18, <2>2, <3>2, <3>3 DEF ReadGraph
  <2>3. QED
    BY <2>1, <2>2
<1>19. ASSUME NEW c \in Contexts, ExecuteGraph(c) PROVE TypeOK'
  BY <1>19 DEF ExecuteGraph
<1>20. CASE UNCHANGED vars
  BY <1>20 DEF vars
<1>21. QED
  BY <1>1, <1>2, <1>3, <1>4, <1>5, <1>6, <1>7, <1>8, <1>9, <1>10, <1>11, <1>12, <1>13,
     <1>14, <1>15, <1>16, <1>17, <1>18, <1>19, <1>20
     DEF Next, Proceed, WorkerGraph

(* Every step keeps the bracket: what the bracketing thread waits for      *)
(* before it creates and before it releases is what makes it the last.     *)
LEMMA BracketStep == Disciplined /\ IInv /\ [Next]_vars => BracketInv'
<1> SUFFICES ASSUME Disciplined, IInv, [Next]_vars PROVE BracketInv'
  OBVIOUS
<1> USE MainAssumption DEF IInv, TypeOK, BracketInv, StopPcs, GonePcs, ReleasePcs,
       CreatePcs, Critical, memory, proc, NoContext
<1>1. ASSUME NEW a \in Apps, CreateCheck(a) PROVE BracketInv'
  BY <1>1 DEF CreateCheck, MayCreate, OthersIdle, CreateLock, Goto
<1>2. ASSUME NEW a \in Apps, CreateWait(a) PROVE BracketInv'
  BY <1>2 DEF CreateWait, LockContext, Goto
<1>3. ASSUME NEW a \in Apps, CreateFirst(a) PROVE BracketInv'
  <2>1. PICK c \in Contexts : single_context' = c /\ context' = [context EXCEPT ![a] = c]
    BY <1>3 DEF CreateFirst
  <2>2. a = Main /\ \A b \in Apps \ {Main} : pc[b] = "idle" /\ context[b] = NoContext
    BY <1>3, FirstIsMain DEF CreateFirst
  <2>3. pc' = [pc EXCEPT ![a] = "create_post"]
    BY <1>3 DEF CreateFirst, Goto
  <2>4. QED
    BY <2>1, <2>2, <2>3 DEF Contexts
<1>4. ASSUME NEW a \in Apps, CreateAgain(a) PROVE BracketInv'
  BY <1>4, AgainIsLive DEF CreateAgain, Referenced, Goto
<1>5. ASSUME NEW a \in Apps, CreatePost(a) PROVE BracketInv'
  BY <1>5 DEF CreatePost, PostContext, Goto
<1>6. ASSUME NEW a \in Apps, ReleaseCall(a) PROVE BracketInv'
  BY <1>6 DEF ReleaseCall, MayRelease, OthersIdle, Goto
<1>7. ASSUME NEW a \in Apps, ReleaseWait(a) PROVE BracketInv'
  BY <1>7 DEF ReleaseWait, LockContext, Goto
<1>8. ASSUME NEW a \in Apps, ReleaseDecrement(a) PROVE BracketInv'
  <2>1. CASE a = Main
    <3>1. /\ pc' = [pc EXCEPT ![a] = "stop"]
          /\ UNCHANGED <<context_lock, context, single_context>>
      BY <1>8, <2>1, LastIsMain DEF ReleaseDecrement, Goto
    <3>2. QED
      BY <1>8, <2>1, <3>1 DEF ReleaseDecrement
  <2>2. CASE a # Main
    <3>1. /\ pc' = [pc EXCEPT ![a] = "idle"]
          /\ context' = [context EXCEPT ![a] = NoContext]
          /\ context_lock' = context_lock + 1 /\ UNCHANGED single_context
      BY <1>8, <2>2, LastIsMain DEF ReleaseDecrement, Goto, PostContext
    <3>2. QED
      BY <1>8, <2>2, <3>1 DEF ReleaseDecrement
  <2>3. QED
    BY <2>1, <2>2
<1>9. ASSUME NEW a \in Apps, StopRunning(a) PROVE BracketInv'
  BY <1>9, StopIsMain DEF StopRunning, Goto
<1>10. ASSUME NEW a \in Apps, PopInput(a) PROVE BracketInv'
  BY <1>10, StopIsMain DEF PopInput, Popped, Goto
<1>11. ASSUME NEW a \in Apps, JoinThread(a) PROVE BracketInv'
  BY <1>11, StopIsMain DEF JoinThread, Joinable, Goto
<1>12. ASSUME NEW a \in Apps, DeinitQueues(a) PROVE BracketInv'
  BY <1>12, StopIsMain DEF DeinitQueues, Goto
<1>13. ASSUME NEW a \in Apps, FreeContext(a) PROVE BracketInv'
  BY <1>13, StopIsMain DEF FreeContext, PostContext, Goto
<1>14. ASSUME NEW a \in Apps, DestroyLock(a) PROVE BracketInv'
  BY <1>14, StopIsMain DEF DestroyLock, Goto
<1>15. ASSUME NEW a \in Apps, ForgetContext(a) PROVE BracketInv'
  BY <1>15, StopIsMain DEF ForgetContext, Goto
<1>16. ASSUME NEW a \in Apps, NEW g \in Graphs, ScheduleGraph(a, g) PROVE BracketInv'
  BY <1>16 DEF ScheduleGraph
<1>17. ASSUME NEW c \in Contexts, CheckRunning(c) PROVE BracketInv'
  BY <1>17 DEF CheckRunning
<1>18. ASSUME NEW c \in Contexts, ReadGraph(c) PROVE BracketInv'
  BY <1>18 DEF ReadGraph
<1>19. ASSUME NEW c \in Contexts, ExecuteGraph(c) PROVE BracketInv'
  BY <1>19 DEF ExecuteGraph
<1>20. CASE UNCHANGED vars
  BY <1>20 DEF vars
<1>21. QED
  BY <1>1, <1>2, <1>3, <1>4, <1>5, <1>6, <1>7, <1>8, <1>9, <1>10, <1>11, <1>12, <1>13,
     <1>14, <1>15, <1>16, <1>17, <1>18, <1>19, <1>20
     DEF Next, Proceed, WorkerGraph

(* Every step keeps the semaphore a lock, which is there from before the   *)
(* context is created until the bracketing thread destroys it.             *)
LEMMA LockStep == Disciplined /\ IInv /\ [Next]_vars => LockInv'
<1> SUFFICES ASSUME Disciplined, IInv, [Next]_vars PROVE LockInv'
  OBVIOUS
<1> USE MainAssumption DEF IInv, TypeOK, LockInv, StopPcs, GonePcs, ReleasePcs,
       CreatePcs, Critical, memory, proc, NoContext, BracketInv
<1>1. ASSUME NEW a \in Apps, CreateCheck(a) PROVE LockInv'
  BY <1>1 DEF CreateCheck, MayCreate, OthersIdle, CreateLock, Goto
<1>2. ASSUME NEW a \in Apps, CreateWait(a) PROVE LockInv'
  BY <1>2 DEF CreateWait, LockContext, Goto
<1>3. ASSUME NEW a \in Apps, CreateFirst(a) PROVE LockInv'
  <2>1. PICK c \in Contexts :
          /\ state' = [state EXCEPT ![c] = "live"] /\ external' = [external EXCEPT ![c] = 1]
          /\ queues' = queues \cup {c} /\ running' = [running EXCEPT ![c] = TRUE]
          /\ thread' = [thread EXCEPT ![c] = "check"] /\ single_context' = c
          /\ context' = [context EXCEPT ![a] = c] /\ state[c] = "unborn"
    BY <1>3 DEF CreateFirst
  <2>2. /\ pc[a] = "create" /\ pc' = [pc EXCEPT ![a] = "create_post"]
        /\ UNCHANGED <<context_lock, input, executing>>
    BY <1>3 DEF CreateFirst, Goto
  <2>3. /\ a = Main /\ context[Main] = NoContext
        /\ \A b \in Apps \ {Main} : pc[b] = "idle" /\ context[b] = NoContext
        /\ \A d \in Contexts : state[d] # "live"
    BY <1>3, FirstIsMain DEF CreateFirst
  <2>4. QED
    BY <2>1, <2>2, <2>3
<1>4. ASSUME NEW a \in Apps, CreateAgain(a) PROVE LockInv'
  BY <1>4, AgainIsLive DEF CreateAgain, Referenced, Goto
<1>5. ASSUME NEW a \in Apps, CreatePost(a) PROVE LockInv'
  BY <1>5 DEF CreatePost, PostContext, Goto
<1>6. ASSUME NEW a \in Apps, ReleaseCall(a) PROVE LockInv'
  BY <1>6 DEF ReleaseCall, MayRelease, OthersIdle, Goto
<1>7. ASSUME NEW a \in Apps, ReleaseWait(a) PROVE LockInv'
  BY <1>7 DEF ReleaseWait, LockContext, Goto
<1>8. ASSUME NEW a \in Apps, ReleaseDecrement(a) PROVE LockInv'
  <2>1. CASE a = Main
    <3>1. /\ pc' = [pc EXCEPT ![a] = "stop"]
          /\ UNCHANGED <<context_lock, context, single_context>>
      BY <1>8, <2>1, LastIsMain DEF ReleaseDecrement, Goto
    <3>2. QED
      BY <1>8, <2>1, <3>1 DEF ReleaseDecrement
  <2>2. CASE a # Main
    <3>1. /\ pc' = [pc EXCEPT ![a] = "idle"]
          /\ context' = [context EXCEPT ![a] = NoContext]
          /\ context_lock' = context_lock + 1 /\ UNCHANGED single_context
      BY <1>8, <2>2, LastIsMain DEF ReleaseDecrement, Goto, PostContext
    <3>2. QED
      BY <1>8, <2>2, <3>1 DEF ReleaseDecrement
  <2>3. QED
    BY <2>1, <2>2
<1>9. ASSUME NEW a \in Apps, StopRunning(a) PROVE LockInv'
  BY <1>9, StopIsMain DEF StopRunning, Goto
<1>10. ASSUME NEW a \in Apps, PopInput(a) PROVE LockInv'
  BY <1>10, StopIsMain DEF PopInput, Popped, Goto
<1>11. ASSUME NEW a \in Apps, JoinThread(a) PROVE LockInv'
  BY <1>11, StopIsMain DEF JoinThread, Joinable, Goto
<1>12. ASSUME NEW a \in Apps, DeinitQueues(a) PROVE LockInv'
  BY <1>12, StopIsMain DEF DeinitQueues, Goto
<1>13. ASSUME NEW a \in Apps, FreeContext(a) PROVE LockInv'
  BY <1>13, StopIsMain DEF FreeContext, PostContext, Goto
<1>14. ASSUME NEW a \in Apps, DestroyLock(a) PROVE LockInv'
  BY <1>14, StopIsMain DEF DestroyLock, Goto
<1>15. ASSUME NEW a \in Apps, ForgetContext(a) PROVE LockInv'
  BY <1>15, StopIsMain DEF ForgetContext, Goto
<1>16. ASSUME NEW a \in Apps, NEW g \in Graphs, ScheduleGraph(a, g) PROVE LockInv'
  BY <1>16 DEF ScheduleGraph
<1>17. ASSUME NEW c \in Contexts, CheckRunning(c) PROVE LockInv'
  BY <1>17 DEF CheckRunning
<1>18. ASSUME NEW c \in Contexts, ReadGraph(c) PROVE LockInv'
  BY <1>18 DEF ReadGraph
<1>19. ASSUME NEW c \in Contexts, ExecuteGraph(c) PROVE LockInv'
  BY <1>19 DEF ExecuteGraph
<1>20. CASE UNCHANGED vars
  BY <1>20 DEF vars
<1>21. QED
  BY <1>1, <1>2, <1>3, <1>4, <1>5, <1>6, <1>7, <1>8, <1>9, <1>10, <1>11, <1>12, <1>13,
     <1>14, <1>15, <1>16, <1>17, <1>18, <1>19, <1>20
     DEF Next, Proceed, WorkerGraph

(* Every step keeps the count: a thread gives its reference up with the    *)
(* count, whether it is the last or not.                                   *)
LEMMA CountStep == Disciplined /\ IInv /\ [Next]_vars => CountInv'
<1> SUFFICES ASSUME Disciplined, IInv, [Next]_vars PROVE CountInv'
  OBVIOUS
<1> USE MainAssumption DEF IInv, TypeOK, BracketInv, StopPcs, GonePcs, ReleasePcs,
       CreatePcs, Critical, memory, proc, NoContext
<1>1. ASSUME NEW a \in Apps, CreateCheck(a) PROVE CountInv'
  <2>1. state' = state /\ external' = external /\ context'[Main] = context[Main]
        /\ (pc'[Main] \in GonePcs <=> pc[Main] \in GonePcs)
    BY <1>1 DEF CreateCheck, MayCreate, OthersIdle, CreateLock, Goto, CountInv
  <2>2. \A d \in Contexts : Users(d)' = Users(d)
    BY <1>1 DEF CreateCheck, MayCreate, OthersIdle, CreateLock, Goto, Users
  <2>3. QED
    BY <2>1, <2>2 DEF CountInv
<1>2. ASSUME NEW a \in Apps, CreateWait(a) PROVE CountInv'
  <2>1. state' = state /\ external' = external /\ context'[Main] = context[Main]
        /\ (pc'[Main] \in GonePcs <=> pc[Main] \in GonePcs)
    BY <1>2 DEF CreateWait, LockContext, Goto, CountInv
  <2>2. \A d \in Contexts : Users(d)' = Users(d)
    BY <1>2 DEF CreateWait, LockContext, Goto, Users
  <2>3. QED
    BY <2>1, <2>2 DEF CountInv
<1>3. ASSUME NEW a \in Apps, CreateFirst(a) PROVE CountInv'
  <2>1. PICK c \in Contexts :
          /\ state[c] = "unborn" /\ state' = [state EXCEPT ![c] = "live"]
          /\ external' = [external EXCEPT ![c] = 1] /\ context' = [context EXCEPT ![a] = c]
    BY <1>3 DEF CreateFirst
  <2>2. /\ a = Main /\ \A b \in Apps \ {Main} : context[b] = NoContext
        /\ \A d \in Contexts : state[d] # "live"
    BY <1>3, FirstIsMain DEF CreateFirst
  <2>3. context'[Main] = c /\ pc'[Main] = "create_post" /\ c # NoContext
    BY <1>3, <2>1, <2>2 DEF CreateFirst, Goto, Contexts
  <2>4. Users(c)' = {Main}
    BY <2>1, <2>2, <2>3 DEF Users
  <2>5. \A d \in Contexts : state'[d] = "live" <=> d = c
    BY <2>1, <2>2
  <2>6. external'[c] = Cardinality(Users(c))'
    <3>1. external'[c] = 1
      BY <2>1
    <3>2. QED
      BY <2>4, <3>1, FS_Singleton
  <2>7. QED
    BY <2>3, <2>5, <2>6 DEF CountInv
<1>4. ASSUME NEW a \in Apps, CreateAgain(a) PROVE CountInv'
  <2>1. PICK c \in Contexts : c = single_context
    BY <1>4, AgainIsLive
  <2>2. /\ a # Main /\ state[c] = "live" /\ a \notin Users(c) /\ c = context[Main]
    BY <1>4, <2>1, AgainIsLive
  <2>3. /\ state' = state /\ context'[Main] = context[Main] /\ pc'[Main] = pc[Main]
        /\ external' = [external EXCEPT ![c] = @ + 1]
    BY <1>4, <2>1, <2>2 DEF CreateAgain, Referenced, Goto
  <2>4. Users(c)' = Users(c) \cup {a}
    BY <1>4, <2>1 DEF CreateAgain, Goto, Users
  <2>5. Cardinality(Users(c) \cup {a}) = Cardinality(Users(c)) + 1
    BY <2>2, UsersAreFinite, FS_AddElement
  <2>6. external'[c] = Cardinality(Users(c))'
    <3>1. external[c] = Cardinality(Users(c))
      BY <2>2 DEF CountInv
    <3>2. QED
      BY <2>3, <2>4, <2>5, <3>1
  <2>7. \A d \in Contexts : state'[d] = "live" => d = c
    BY <2>2, <2>3 DEF CountInv
  <2>8. QED
    BY <2>3, <2>6, <2>7 DEF CountInv
<1>5. ASSUME NEW a \in Apps, CreatePost(a) PROVE CountInv'
  <2>1. state' = state /\ external' = external /\ context'[Main] = context[Main]
        /\ (pc'[Main] \in GonePcs <=> pc[Main] \in GonePcs)
    BY <1>5 DEF CreatePost, PostContext, Goto, CountInv
  <2>2. \A d \in Contexts : Users(d)' = Users(d)
    BY <1>5 DEF CreatePost, PostContext, Goto, Users
  <2>3. QED
    BY <2>1, <2>2 DEF CountInv
<1>6. ASSUME NEW a \in Apps, ReleaseCall(a) PROVE CountInv'
  <2>1. state' = state /\ external' = external /\ context'[Main] = context[Main]
        /\ (pc'[Main] \in GonePcs <=> pc[Main] \in GonePcs)
    BY <1>6 DEF ReleaseCall, MayRelease, OthersIdle, Goto, CountInv
  <2>2. \A d \in Contexts : Users(d)' = Users(d)
    BY <1>6 DEF ReleaseCall, MayRelease, OthersIdle, Goto, Users
  <2>3. QED
    BY <2>1, <2>2 DEF CountInv
<1>7. ASSUME NEW a \in Apps, ReleaseWait(a) PROVE CountInv'
  <2>1. state' = state /\ external' = external /\ context'[Main] = context[Main]
        /\ (pc'[Main] \in GonePcs <=> pc[Main] \in GonePcs)
    BY <1>7 DEF ReleaseWait, LockContext, Goto, CountInv
  <2>2. \A d \in Contexts : Users(d)' = Users(d)
    BY <1>7 DEF ReleaseWait, LockContext, Goto, Users
  <2>3. QED
    BY <2>1, <2>2 DEF CountInv
<1>8. ASSUME NEW a \in Apps, ReleaseDecrement(a) PROVE CountInv'
  <2>1. PICK c \in Contexts : c = context[a] /\ c = context[Main]
    BY <1>8 DEF ReleaseDecrement
  <2>2. external[c] = Cardinality(Users(c)) /\ a \in Users(c) /\ pc[Main] \notin GonePcs
    <3>1. pc[Main] \notin GonePcs
      BY <1>8 DEF ReleaseDecrement
    <3>2. QED
      BY <1>8, <2>1, <3>1 DEF ReleaseDecrement, CountInv, Users
  <2>3. /\ state' = state /\ external' = [external EXCEPT ![c] = @ - 1]
        /\ context'[Main] = context[Main] /\ pc'[Main] \notin GonePcs
    BY <1>8, <2>1, <2>2, LastIsMain DEF ReleaseDecrement, Goto
  <2>4. Users(c)' = Users(c) \ {a}
    BY <1>8, <2>1, <2>2, LastIsMain DEF ReleaseDecrement, Goto, Users
  <2>5. Cardinality(Users(c) \ {a}) = Cardinality(Users(c)) - 1
    BY <2>2, UsersAreFinite, FS_RemoveElement
  <2>6. external'[c] = Cardinality(Users(c))'
    BY <2>2, <2>3, <2>4, <2>5
  <2>7. \A d \in Contexts : state'[d] = "live" <=> d = c
    BY <2>1, <2>2, <2>3 DEF CountInv
  <2>8. QED
    BY <2>1, <2>3, <2>6, <2>7 DEF CountInv
<1>9. ASSUME NEW a \in Apps, StopRunning(a) PROVE CountInv'
  <2>1. state' = state /\ external' = external /\ context'[Main] = context[Main]
        /\ (pc'[Main] \in GonePcs <=> pc[Main] \in GonePcs)
    BY <1>9, StopIsMain DEF StopRunning, Goto, CountInv
  <2>2. \A d \in Contexts : Users(d)' = Users(d)
    BY <1>9, StopIsMain DEF StopRunning, Goto, Users
  <2>3. QED
    BY <2>1, <2>2 DEF CountInv
<1>10. ASSUME NEW a \in Apps, PopInput(a) PROVE CountInv'
  <2>1. state' = state /\ external' = external /\ context'[Main] = context[Main]
        /\ (pc'[Main] \in GonePcs <=> pc[Main] \in GonePcs)
    BY <1>10, StopIsMain DEF PopInput, Popped, Goto, CountInv
  <2>2. \A d \in Contexts : Users(d)' = Users(d)
    BY <1>10, StopIsMain DEF PopInput, Popped, Goto, Users
  <2>3. QED
    BY <2>1, <2>2 DEF CountInv
<1>11. ASSUME NEW a \in Apps, JoinThread(a) PROVE CountInv'
  <2>1. state' = state /\ external' = external /\ context'[Main] = context[Main]
        /\ (pc'[Main] \in GonePcs <=> pc[Main] \in GonePcs)
    BY <1>11, StopIsMain DEF JoinThread, Joinable, Goto, CountInv
  <2>2. \A d \in Contexts : Users(d)' = Users(d)
    BY <1>11, StopIsMain DEF JoinThread, Joinable, Goto, Users
  <2>3. QED
    BY <2>1, <2>2 DEF CountInv
<1>12. ASSUME NEW a \in Apps, DeinitQueues(a) PROVE CountInv'
  <2>1. state' = state /\ external' = external /\ context'[Main] = context[Main]
        /\ (pc'[Main] \in GonePcs <=> pc[Main] \in GonePcs)
    BY <1>12, StopIsMain DEF DeinitQueues, Goto, CountInv
  <2>2. \A d \in Contexts : Users(d)' = Users(d)
    BY <1>12, StopIsMain DEF DeinitQueues, Goto, Users
  <2>3. QED
    BY <2>1, <2>2 DEF CountInv
<1>13. ASSUME NEW a \in Apps, FreeContext(a) PROVE CountInv'
  <2>1. a = Main /\ context[Main] \in Contexts
    BY <1>13, StopIsMain DEF FreeContext
  <2>2. \A d \in Contexts : state'[d] # "live"
    BY <1>13, <2>1 DEF FreeContext, CountInv
  <2>3. pc'[Main] = "destroy_lock"
    BY <1>13, <2>1 DEF FreeContext, Goto
  <2>4. QED
    BY <2>2, <2>3 DEF CountInv
<1>14. ASSUME NEW a \in Apps, DestroyLock(a) PROVE CountInv'
  <2>1. state' = state /\ external' = external /\ context'[Main] = context[Main]
        /\ (pc'[Main] \in GonePcs <=> pc[Main] \in GonePcs)
    BY <1>14, StopIsMain DEF DestroyLock, Goto, CountInv
  <2>2. \A d \in Contexts : Users(d)' = Users(d)
    BY <1>14, StopIsMain DEF DestroyLock, Goto, Users
  <2>3. QED
    BY <2>1, <2>2 DEF CountInv
<1>15. ASSUME NEW a \in Apps, ForgetContext(a) PROVE CountInv'
  <2>1. a = Main /\ context[Main] \in Contexts
    BY <1>15, StopIsMain DEF ForgetContext
  <2>2. \A d \in Contexts : state'[d] # "live"
    BY <1>15, <2>1 DEF ForgetContext, CountInv
  <2>3. context'[Main] \notin Contexts
    BY <1>15, <2>1 DEF ForgetContext, Contexts
  <2>4. QED
    BY <2>2, <2>3 DEF CountInv
<1>16. ASSUME NEW a \in Apps, NEW g \in Graphs, ScheduleGraph(a, g) PROVE CountInv'
  <2>1. state' = state /\ external' = external /\ context'[Main] = context[Main]
        /\ (pc'[Main] \in GonePcs <=> pc[Main] \in GonePcs)
    BY <1>16 DEF ScheduleGraph, Goto, CountInv
  <2>2. \A d \in Contexts : Users(d)' = Users(d)
    BY <1>16 DEF ScheduleGraph, Goto, Users
  <2>3. QED
    BY <2>1, <2>2 DEF CountInv
<1>17. ASSUME NEW c \in Contexts, CheckRunning(c) PROVE CountInv'
  <2>1. state' = state /\ external' = external /\ context'[Main] = context[Main]
        /\ (pc'[Main] \in GonePcs <=> pc[Main] \in GonePcs)
    BY <1>17 DEF CheckRunning, Goto, CountInv
  <2>2. \A d \in Contexts : Users(d)' = Users(d)
    BY <1>17 DEF CheckRunning, Goto, Users
  <2>3. QED
    BY <2>1, <2>2 DEF CountInv
<1>18. ASSUME NEW c \in Contexts, ReadGraph(c) PROVE CountInv'
  <2>1. state' = state /\ external' = external /\ context'[Main] = context[Main]
        /\ (pc'[Main] \in GonePcs <=> pc[Main] \in GonePcs)
    BY <1>18 DEF ReadGraph, Goto, CountInv
  <2>2. \A d \in Contexts : Users(d)' = Users(d)
    BY <1>18 DEF ReadGraph, Goto, Users
  <2>3. QED
    BY <2>1, <2>2 DEF CountInv
<1>19. ASSUME NEW c \in Contexts, ExecuteGraph(c) PROVE CountInv'
  <2>1. state' = state /\ external' = external /\ context'[Main] = context[Main]
        /\ (pc'[Main] \in GonePcs <=> pc[Main] \in GonePcs)
    BY <1>19 DEF ExecuteGraph, Goto, CountInv
  <2>2. \A d \in Contexts : Users(d)' = Users(d)
    BY <1>19 DEF ExecuteGraph, Goto, Users
  <2>3. QED
    BY <2>1, <2>2 DEF CountInv
<1>20. CASE UNCHANGED vars
  <2>1. state' = state /\ external' = external /\ context'[Main] = context[Main]
        /\ (pc'[Main] \in GonePcs <=> pc[Main] \in GonePcs)
    BY <1>20 DEF vars, CountInv
  <2>2. \A d \in Contexts : Users(d)' = Users(d)
    BY <1>20 DEF vars, Users
  <2>3. QED
    BY <2>1, <2>2 DEF CountInv
<1>21. QED
  BY <1>1, <1>2, <1>3, <1>4, <1>5, <1>6, <1>7, <1>8, <1>9, <1>10, <1>11, <1>12, <1>13,
     <1>14, <1>15, <1>16, <1>17, <1>18, <1>19, <1>20
     DEF Next, Proceed, WorkerGraph

(* Every step keeps the queues and the context until the thread of the     *)
(* context ended.                                                          *)
LEMMA ThreadStep == Disciplined /\ IInv /\ [Next]_vars => ThreadInv'
<1> SUFFICES ASSUME Disciplined, IInv, [Next]_vars PROVE ThreadInv'
  OBVIOUS
<1> USE MainAssumption DEF IInv, TypeOK, BracketInv, ThreadInv, ThreadEndsFirst,
       StopPcs, GonePcs, ReleasePcs, CreatePcs, Critical, memory, proc,
         NoContext, CountInv
<1>1. ASSUME NEW a \in Apps, CreateCheck(a) PROVE ThreadInv'
  BY <1>1 DEF CreateCheck, MayCreate, OthersIdle, CreateLock, Goto
<1>2. ASSUME NEW a \in Apps, CreateWait(a) PROVE ThreadInv'
  BY <1>2 DEF CreateWait, LockContext, Goto
<1>3. ASSUME NEW a \in Apps, CreateFirst(a) PROVE ThreadInv'
  <2>1. PICK c \in Contexts :
          /\ state' = [state EXCEPT ![c] = "live"] /\ external' = [external EXCEPT ![c] = 1]
          /\ queues' = queues \cup {c} /\ running' = [running EXCEPT ![c] = TRUE]
          /\ thread' = [thread EXCEPT ![c] = "check"] /\ single_context' = c
          /\ context' = [context EXCEPT ![a] = c] /\ state[c] = "unborn"
    BY <1>3 DEF CreateFirst
  <2>2. /\ pc[a] = "create" /\ pc' = [pc EXCEPT ![a] = "create_post"]
        /\ UNCHANGED <<context_lock, input, executing>>
    BY <1>3 DEF CreateFirst, Goto
  <2>3. /\ a = Main /\ context[Main] = NoContext
        /\ \A b \in Apps \ {Main} : pc[b] = "idle" /\ context[b] = NoContext
        /\ \A d \in Contexts : state[d] # "live"
    BY <1>3, FirstIsMain DEF CreateFirst
  <2>4. QED
    BY <2>1, <2>2, <2>3
<1>4. ASSUME NEW a \in Apps, CreateAgain(a) PROVE ThreadInv'
  BY <1>4, AgainIsLive DEF CreateAgain, Referenced, Goto
<1>5. ASSUME NEW a \in Apps, CreatePost(a) PROVE ThreadInv'
  BY <1>5 DEF CreatePost, PostContext, Goto
<1>6. ASSUME NEW a \in Apps, ReleaseCall(a) PROVE ThreadInv'
  BY <1>6 DEF ReleaseCall, MayRelease, OthersIdle, Goto
<1>7. ASSUME NEW a \in Apps, ReleaseWait(a) PROVE ThreadInv'
  BY <1>7 DEF ReleaseWait, LockContext, Goto
<1>8. ASSUME NEW a \in Apps, ReleaseDecrement(a) PROVE ThreadInv'
  BY <1>8, LastIsMain DEF ReleaseDecrement, PostContext, Goto
<1>9. ASSUME NEW a \in Apps, StopRunning(a) PROVE ThreadInv'
  BY <1>9, StopIsMain DEF StopRunning, Goto
<1>10. ASSUME NEW a \in Apps, PopInput(a) PROVE ThreadInv'
  BY <1>10, StopIsMain DEF PopInput, Popped, Goto
<1>11. ASSUME NEW a \in Apps, JoinThread(a) PROVE ThreadInv'
  BY <1>11, StopIsMain DEF JoinThread, Joinable, Goto
<1>12. ASSUME NEW a \in Apps, DeinitQueues(a) PROVE ThreadInv'
  BY <1>12, StopIsMain DEF DeinitQueues, Goto
<1>13. ASSUME NEW a \in Apps, FreeContext(a) PROVE ThreadInv'
  BY <1>13, StopIsMain DEF FreeContext, PostContext, Goto
<1>14. ASSUME NEW a \in Apps, DestroyLock(a) PROVE ThreadInv'
  BY <1>14, StopIsMain DEF DestroyLock, Goto
<1>15. ASSUME NEW a \in Apps, ForgetContext(a) PROVE ThreadInv'
  BY <1>15, StopIsMain DEF ForgetContext, Goto
<1>16. ASSUME NEW a \in Apps, NEW g \in Graphs, ScheduleGraph(a, g) PROVE ThreadInv'
  BY <1>16 DEF ScheduleGraph
<1>17. ASSUME NEW c \in Contexts, CheckRunning(c) PROVE ThreadInv'
  BY <1>17 DEF CheckRunning
<1>18. ASSUME NEW c \in Contexts, ReadGraph(c) PROVE ThreadInv'
  BY <1>18 DEF ReadGraph
<1>19. ASSUME NEW c \in Contexts, ExecuteGraph(c) PROVE ThreadInv'
  BY <1>19 DEF ExecuteGraph
<1>20. CASE UNCHANGED vars
  BY <1>20 DEF vars
<1>21. QED
  BY <1>1, <1>2, <1>3, <1>4, <1>5, <1>6, <1>7, <1>8, <1>9, <1>10, <1>11, <1>12, <1>13,
     <1>14, <1>15, <1>16, <1>17, <1>18, <1>19, <1>20
     DEF Next, Proceed, WorkerGraph

(* A zeroed process.                                                       *)
LEMMA InitInv == Init => IInv
<1> SUFFICES ASSUME Init PROVE IInv
  OBVIOUS
<1> USE MainAssumption DEF Init, NoContext
<1>1. TypeOK
  <2>1. 0 \in 0 .. Cardinality(Apps)
    BY FS_CardinalityType
  <2>2. pc \in [Apps -> {"idle"} \cup CreatePcs \cup ReleasePcs]
    OBVIOUS
  <2>3. external \in [Contexts -> 0 .. Cardinality(Apps)]
    BY <2>1
  <2>4. QED
    BY <2>2, <2>3 DEF TypeOK
<1>2. BracketInv
  BY DEF BracketInv, ReleasePcs, StopPcs, GonePcs
<1>3. LockInv
  BY DEF LockInv, Critical, StopPcs
<1>4. CountInv /\ ThreadInv
  BY DEF CountInv, ThreadInv, ThreadEndsFirst, Contexts
<1>5. QED
  BY <1>1, <1>2, <1>3, <1>4 DEF IInv

(* IInv is an invariant of every execution in which the threads are        *)
(* disciplined.                                                            *)
THEOREM Bracketed == ASSUME Disciplined PROVE Spec => []IInv
<1>1. IInv /\ [Next]_vars => IInv'
  BY TypeStep, BracketStep, LockStep, CountStep, ThreadStep DEF IInv
<1>2. QED
  BY <1>1, InitInv, PTL DEF Spec

(* A context that is live is the one of the bracketing thread, so there is *)
(* one at most.                                                            *)
LEMMA OneContext ==
  ASSUME IInv
  PROVE  Cardinality({c \in Contexts : state[c] = "live"}) <= 1
<1>1. {c \in Contexts : state[c] = "live"} \in SUBSET {context[Main]}
  BY DEF IInv, CountInv
<1>2. Cardinality({c \in Contexts : state[c] = "live"}) <= Cardinality({context[Main]})
  BY <1>1, FS_Singleton, FS_Subset
<1>3. QED
  BY <1>2, FS_Singleton

(* A reference that vxCreateContext returned is to the one live context,   *)
(* and the context is counted as often as it is referred to.               *)
THEOREM ReferencesStayLive == ASSUME Disciplined PROVE Spec => []ReferencesAreLive
<1>1. IInv => ReferencesAreLive
  <2> SUFFICES ASSUME IInv PROVE ReferencesAreLive
    OBVIOUS
  <2>1. \A a \in Apps : context[a] # NoContext /\ pc[a] \notin GonePcs =>
          context[a] = single_context /\ state[context[a]] = "live"
    BY MainAssumption DEF IInv, TypeOK, BracketInv, CountInv, GonePcs
  <2>2. \A c \in Contexts : state[c] = "live" =>
          external[c] = Cardinality({a \in Apps : context[a] = c /\ pc[a] \notin StopPcs})
    BY DEF IInv, CountInv, Users
  <2>3. QED
    BY <2>1, <2>2, OneContext DEF IInv, ReferencesAreLive
<1>2. QED
  BY <1>1, Bracketed, PTL

(* The graph thread is done with the queues and the context when they go,  *)
(* even if it is given work to the last moment.                            *)
THEOREM ThreadStops == ASSUME Disciplined PROVE Spec => []ThreadEndsFirst
<1>1. IInv => ThreadEndsFirst
  BY DEF IInv, ThreadInv
<1>2. QED
  BY <1>1, Bracketed, PTL
=============================================================================
