------------------------ MODULE GraphLifecycle_proofs ------------------------
(***************************************************************************)
(* The properties of GraphLifecycle, for every number of nodes, user       *)
(* kernels, data objects and other references of the context.              *)
(* LifecycleInv is the inductive invariant; one lemma per conjunct says    *)
(* that every step preserves it.  The lemmas need the other conjuncts: a   *)
(* kernel is initialised once because VerifyGraph takes the flags as they  *)
(* stand, and what they say of the kernels holds only while verified is    *)
(* FALSE from the first step of vxVerifyGraph to the last.                 *)
(***************************************************************************)
EXTENDS GraphLifecycle, FiniteSetTheorems, TLAPS

(* The data objects fill the first entries of the table, one entry each.   *)
LEMMA DataIsListed == SetToSeq(Data) \in [1 .. Cardinality(Data) -> Data]
<1>1. IsFiniteSet(Data)
  BY ObjectsAssumption, FS_Subset DEF Objects
<1>2. ExistsBijection(1 .. Cardinality(Data), Data)
  BY <1>1, FS_CardinalityType
<1>3. \E f \in [1 .. Cardinality(Data) -> Data] : IsInjective(f)
  BY <1>2 DEF ExistsBijection, Bijection, Injection, IsInjective
<1>4. QED
  BY <1>3 DEF SetToSeq

(* A zeroed graph, and a table that holds the data objects.                *)
LEMMA InitInv == Init => LifecycleInv
<1> SUFFICES ASSUME Init PROVE LifecycleInv
  OBVIOUS
<1>1. reftable \in [Slots -> Objects \cup {Null}]
  BY DataIsListed DEF Init, Objects
<1>2. live \in [Nodes -> 0 .. 2] /\ parameter \in [Nodes -> Data \cup {Null}]
  BY DEF Init
<1>3. TypeOK
  BY <1>1, <1>2 DEF Init, TypeOK
<1>4. ChecksLast
  BY DEF Init, ChecksLast, ChecksPass
<1>5. QED
  BY <1>3, <1>4, UserNodesAssumption DEF Init, LifecycleInv, Verifying,
     VerifiedIsInitialised, ReverifyIsInitialised, InitialisedByFlags

(* Deinitialisation and initialisation keep the count of each kernel in    *)
(* its range, whatever the set of nodes.                                   *)
LEMMA DeinitType ==
  ASSUME TypeOK, NEW set
  PROVE  Deinit(set) \in [Nodes -> 0 .. 2]
  BY DEF TypeOK, Deinit

(* The same of initialisation.                                             *)
LEMMA Init1Type ==
  ASSUME TypeOK, NEW set
  PROVE  Init1(set) \in [Nodes -> 0 .. 2]
  BY DEF TypeOK, Init1

(* Every step keeps the types, and the parameters of the nodes of the      *)
(* graph are data objects.                                                 *)
LEMMA Types == TypeOK /\ [Next]_vars => TypeOK'
<1> SUFFICES ASSUME TypeOK, [Next]_vars PROVE TypeOK'
  OBVIOUS
<1> USE DEF TypeOK, flags, contents, call, other
<1>1. CASE CreateGraph
  BY <1>1 DEF CreateGraph, AddReference, Objects
<1>2. ASSUME NEW o \in Others, CreateOther(o) PROVE TypeOK'
  BY <1>2 DEF CreateOther, AddReference, Objects
<1>3. ASSUME NEW o \in Others, ReleaseOther(o) PROVE TypeOK'
  BY <1>3 DEF ReleaseOther, RemoveReference, Objects
<1>4. ASSUME NEW d \in Data, ReleaseExtracted(d) PROVE TypeOK'
  BY <1>4 DEF ReleaseExtracted
<1>5. ASSUME NEW n \in Nodes, NEW d \in Data, CreateGenericNode(n, d) PROVE TypeOK'
  BY <1>5 DEF CreateGenericNode, AddReference, ForceVerify, Reverify, Modified,
     ModifiedAgain, Objects, Verifying
<1>6. ASSUME NEW n \in Nodes, NEW d \in Data, SetParameterByIndex(n, d) PROVE TypeOK'
  BY <1>6 DEF SetParameterByIndex
<1>7. ASSUME NEW n \in Nodes, NEW d \in Data, SetGraphParameterByIndex(n, d) PROVE TypeOK'
  BY <1>7 DEF SetGraphParameterByIndex
<1>8. ASSUME NEW n \in Nodes, RemoveNode(n) PROVE TypeOK'
  <2>1. forgotten' \in BOOLEAN /\ verified' \in BOOLEAN /\ reverify' \in BOOLEAN
    BY <1>8 DEF RemoveNode, ForceVerify, Reverify, Modified, ModifiedAgain, Verifying
  <2>2. live' \in [Nodes -> 0 .. 2]
    BY <1>8 DEF RemoveNode
  <2>3. reftable' \in [Slots -> Objects \cup {Null}]
    BY <1>8 DEF RemoveNode, RemoveReference
  <2>4. parameter' \in [Nodes -> Data \cup {Null}] /\ \A m \in nodes' : parameter'[m] \in Data
    BY <1>8 DEF RemoveNode
  <2>5. QED
    BY <1>8, <2>1, <2>2, <2>3, <2>4 DEF RemoveNode
<1>9. ASSUME NEW n \in Nodes, SetNodeTarget(n) PROVE TypeOK'
  BY <1>9 DEF SetNodeTarget, ForceVerify, Reverify, Modified, ModifiedAgain, Verifying
<1>10. ASSUME NEW n \in Nodes, Extract(n) PROVE TypeOK'
  BY <1>10 DEF Extract
<1>11. ASSUME NEW f \in BOOLEAN, VerifyGraph(f) PROVE TypeOK'
  BY <1>11 DEF VerifyGraph
<1>12. CASE Deinitialize
  BY <1>12 DEF Deinitialize, Deinit
<1>13. CASE Check
  BY <1>13 DEF Check
<1>14. CASE CheckFails
  BY <1>14 DEF CheckFails, Exit
<1>15. CASE Initialize
  BY <1>15, Init1Type DEF Initialize, Exit
<1>16. ASSUME NEW n \in nodes, NEW before \in SUBSET nodes, DeinitializeFails(n, before)
       PROVE TypeOK'
  BY <1>16, DeinitType DEF DeinitializeFails, Exit
<1>17. ASSUME NEW n \in nodes, NEW before \in SUBSET nodes, InitializeFails(n, before)
       PROVE TypeOK'
  BY <1>17, Init1Type DEF InitializeFails, Exit
<1>18. CASE ProcessGraph
  BY <1>18 DEF ProcessGraph
<1>19. CASE Complete
  BY <1>19 DEF Complete
<1>20. ASSUME NEW d \in Data, Write(d) PROVE TypeOK'
  BY <1>20 DEF Write
<1>21. CASE WroteToReference
  BY <1>21 DEF WroteToReference
<1>22. CASE ContaminateGraphs
  BY <1>22 DEF ContaminateGraphs, Reverify, ModifiedAgain, Verifying
<1>23. CASE ClearVerified
  BY <1>23 DEF ClearVerified, Modified
<1>24. CASE UNCHANGED vars
  BY <1>24 DEF vars
<1>25. QED
  BY <1>1, <1>2, <1>3, <1>4, <1>5, <1>6, <1>7, <1>8, <1>9, <1>10, <1>11, <1>12, <1>13,
     <1>14, <1>15, <1>16, <1>17, <1>18, <1>19, <1>20, <1>21, <1>22, <1>23, <1>24 DEF Next,
        Build, Verify, Process, OtherThread
(* No step marks a graph verified while vxVerifyGraph is under way but the *)
(* last one of vxVerifyGraph itself: the other thread only clears it.      *)
LEMMA VerifyingUnverified == LifecycleInv /\ [Next]_vars => (Verifying => ~verified)'
<1> SUFFICES ASSUME LifecycleInv, [Next]_vars PROVE (Verifying => ~verified)'
  OBVIOUS
<1> USE DEF LifecycleInv, TypeOK, Idle, Verifying, flags, contents, call, other
<1>1. CASE CreateGraph
  BY <1>1 DEF CreateGraph
<1>2. ASSUME NEW o \in Others, CreateOther(o) PROVE (Verifying => ~verified)'
  BY <1>2 DEF CreateOther
<1>3. ASSUME NEW o \in Others, ReleaseOther(o) PROVE (Verifying => ~verified)'
  BY <1>3 DEF ReleaseOther
<1>4. ASSUME NEW d \in Data, ReleaseExtracted(d) PROVE (Verifying => ~verified)'
  BY <1>4 DEF ReleaseExtracted
<1>5. ASSUME NEW n \in Nodes, NEW d \in Data, CreateGenericNode(n, d)
      PROVE (Verifying => ~verified)'
  BY <1>5 DEF CreateGenericNode, ForceVerify, Reverify, Modified, ModifiedAgain
<1>6. ASSUME NEW n \in Nodes, NEW d \in Data, SetParameterByIndex(n, d)
      PROVE (Verifying => ~verified)'
  BY <1>6 DEF SetParameterByIndex
<1>7. ASSUME NEW n \in Nodes, NEW d \in Data, SetGraphParameterByIndex(n, d)
      PROVE (Verifying => ~verified)'
  BY <1>7 DEF SetGraphParameterByIndex
<1>8. ASSUME NEW n \in Nodes, RemoveNode(n) PROVE (Verifying => ~verified)'
  BY <1>8 DEF RemoveNode, ForceVerify, Reverify, Modified, ModifiedAgain
<1>9. ASSUME NEW n \in Nodes, SetNodeTarget(n) PROVE (Verifying => ~verified)'
  BY <1>9 DEF SetNodeTarget, ForceVerify, Reverify, Modified, ModifiedAgain
<1>10. ASSUME NEW n \in Nodes, Extract(n) PROVE (Verifying => ~verified)'
  BY <1>10 DEF Extract
<1>11. ASSUME NEW f \in BOOLEAN, VerifyGraph(f) PROVE (Verifying => ~verified)'
  BY <1>11 DEF VerifyGraph
<1>12. CASE Deinitialize
  BY <1>12 DEF Deinitialize, Deinit, ToDeinitialize
<1>13. CASE Check
  BY <1>13 DEF Check
<1>14. CASE CheckFails
  BY <1>14 DEF CheckFails, Exit
<1>15. CASE Initialize
  BY <1>15 DEF Initialize, Init1, Exit
<1>16. ASSUME NEW n \in nodes, NEW before \in SUBSET nodes, DeinitializeFails(n, before)
       PROVE (Verifying => ~verified)'
  BY <1>16 DEF DeinitializeFails, Deinit, ToDeinitialize, Exit
<1>17. ASSUME NEW n \in nodes, NEW before \in SUBSET nodes, InitializeFails(n, before)
       PROVE (Verifying => ~verified)'
  BY <1>17 DEF InitializeFails, Init1, Exit
<1>18. CASE ProcessGraph
  BY <1>18 DEF ProcessGraph
<1>19. CASE Complete
  BY <1>19 DEF Complete
<1>20. ASSUME NEW d \in Data, Write(d) PROVE (Verifying => ~verified)'
  BY <1>20 DEF Write
<1>21. CASE WroteToReference
  BY <1>21 DEF WroteToReference, Contaminates
<1>22. CASE ContaminateGraphs
  BY <1>22 DEF ContaminateGraphs, Reverify, ModifiedAgain
<1>23. CASE ClearVerified
  BY <1>23 DEF ClearVerified, Modified
<1>24. CASE UNCHANGED vars
  BY <1>24 DEF vars
<1>25. QED
  BY <1>1, <1>2, <1>3, <1>4, <1>5, <1>6, <1>7, <1>8, <1>9, <1>10, <1>11, <1>12, <1>13,
     <1>14, <1>15, <1>16, <1>17, <1>18, <1>19, <1>20, <1>21, <1>22, <1>23, <1>24 DEF Next,
        Build, Verify, Process, OtherThread

(* A kernel is initialised only for a node of the graph, and vxRemoveNode  *)
(* deinitialises it.                                                       *)
LEMMA AbsentUninitialised == LifecycleInv /\ [Next]_vars => (\A m \in Nodes \ nodes : live[m] = 0)'
<1> SUFFICES ASSUME LifecycleInv, [Next]_vars PROVE (\A m \in Nodes \ nodes : live[m] = 0)'
  OBVIOUS
<1> USE DEF LifecycleInv, TypeOK, Idle, Verifying, flags, contents, call, other
<1>1. CASE CreateGraph
  BY <1>1 DEF CreateGraph
<1>2. ASSUME NEW o \in Others, CreateOther(o) PROVE (\A m \in Nodes \ nodes : live[m] = 0)'
  BY <1>2 DEF CreateOther
<1>3. ASSUME NEW o \in Others, ReleaseOther(o) PROVE (\A m \in Nodes \ nodes : live[m] = 0)'
  BY <1>3 DEF ReleaseOther
<1>4. ASSUME NEW d \in Data, ReleaseExtracted(d)
      PROVE (\A m \in Nodes \ nodes : live[m] = 0)'
  BY <1>4 DEF ReleaseExtracted
<1>5. ASSUME NEW n \in Nodes, NEW d \in Data, CreateGenericNode(n, d)
      PROVE (\A m \in Nodes \ nodes : live[m] = 0)'
  BY <1>5 DEF CreateGenericNode, ForceVerify, Reverify, Modified, ModifiedAgain
<1>6. ASSUME NEW n \in Nodes, NEW d \in Data, SetParameterByIndex(n, d)
      PROVE (\A m \in Nodes \ nodes : live[m] = 0)'
  BY <1>6 DEF SetParameterByIndex
<1>7. ASSUME NEW n \in Nodes, NEW d \in Data, SetGraphParameterByIndex(n, d)
      PROVE (\A m \in Nodes \ nodes : live[m] = 0)'
  BY <1>7 DEF SetGraphParameterByIndex
<1>8. ASSUME NEW n \in Nodes, RemoveNode(n) PROVE (\A m \in Nodes \ nodes : live[m] = 0)'
  BY <1>8 DEF RemoveNode, ForceVerify, Reverify, Modified, ModifiedAgain
<1>9. ASSUME NEW n \in Nodes, SetNodeTarget(n) PROVE (\A m \in Nodes \ nodes : live[m] = 0)'
  BY <1>9 DEF SetNodeTarget, ForceVerify, Reverify, Modified, ModifiedAgain
<1>10. ASSUME NEW n \in Nodes, Extract(n) PROVE (\A m \in Nodes \ nodes : live[m] = 0)'
  BY <1>10 DEF Extract
<1>11. ASSUME NEW f \in BOOLEAN, VerifyGraph(f)
       PROVE (\A m \in Nodes \ nodes : live[m] = 0)'
  BY <1>11 DEF VerifyGraph
<1>12. CASE Deinitialize
  BY <1>12 DEF Deinitialize, Deinit, ToDeinitialize
<1>13. CASE Check
  BY <1>13 DEF Check
<1>14. CASE CheckFails
  BY <1>14 DEF CheckFails, Exit
<1>15. CASE Initialize
  BY <1>15 DEF Initialize, Init1, Exit
<1>16. ASSUME NEW n \in nodes, NEW before \in SUBSET nodes, DeinitializeFails(n, before)
       PROVE (\A m \in Nodes \ nodes : live[m] = 0)'
  BY <1>16 DEF DeinitializeFails, Deinit, ToDeinitialize, Exit
<1>17. ASSUME NEW n \in nodes, NEW before \in SUBSET nodes, InitializeFails(n, before)
       PROVE (\A m \in Nodes \ nodes : live[m] = 0)'
  BY <1>17 DEF InitializeFails, Init1, Exit
<1>18. CASE ProcessGraph
  BY <1>18 DEF ProcessGraph
<1>19. CASE Complete
  BY <1>19 DEF Complete
<1>20. ASSUME NEW d \in Data, Write(d) PROVE (\A m \in Nodes \ nodes : live[m] = 0)'
  BY <1>20 DEF Write
<1>21. CASE WroteToReference
  BY <1>21 DEF WroteToReference, Contaminates
<1>22. CASE ContaminateGraphs
  BY <1>22 DEF ContaminateGraphs, Reverify, ModifiedAgain
<1>23. CASE ClearVerified
  BY <1>23 DEF ClearVerified, Modified
<1>24. CASE UNCHANGED vars
  BY <1>24 DEF vars
<1>25. QED
  BY <1>1, <1>2, <1>3, <1>4, <1>5, <1>6, <1>7, <1>8, <1>9, <1>10, <1>11, <1>12, <1>13,
     <1>14, <1>15, <1>16, <1>17, <1>18, <1>19, <1>20, <1>21, <1>22, <1>23, <1>24 DEF Next,
        Build, Verify, Process, OtherThread

(* While nothing but a verification sets verified, verified and reverify   *)
(* imply that the kernels are initialised.                                 *)
LEMMA TrustedFlags == LifecycleInv /\ [Next]_vars => (trusted => VerifiedIsInitialised /\ ReverifyIsInitialised)'
<1> SUFFICES ASSUME LifecycleInv, [Next]_vars
             PROVE (trusted => VerifiedIsInitialised /\ ReverifyIsInitialised)'
  OBVIOUS
<1> USE DEF LifecycleInv, TypeOK, Idle, Verifying, flags, contents, call, other,
   VerifiedIsInitialised, ReverifyIsInitialised
<1>1. CASE CreateGraph
  BY <1>1 DEF CreateGraph
<1>2. ASSUME NEW o \in Others, CreateOther(o)
      PROVE (trusted => VerifiedIsInitialised /\ ReverifyIsInitialised)'
  BY <1>2 DEF CreateOther
<1>3. ASSUME NEW o \in Others, ReleaseOther(o)
      PROVE (trusted => VerifiedIsInitialised /\ ReverifyIsInitialised)'
  BY <1>3 DEF ReleaseOther
<1>4. ASSUME NEW d \in Data, ReleaseExtracted(d)
      PROVE (trusted => VerifiedIsInitialised /\ ReverifyIsInitialised)'
  BY <1>4 DEF ReleaseExtracted
<1>5. ASSUME NEW n \in Nodes, NEW d \in Data, CreateGenericNode(n, d)
      PROVE (trusted => VerifiedIsInitialised /\ ReverifyIsInitialised)'
  BY <1>5 DEF CreateGenericNode, ForceVerify, Reverify, Modified, ModifiedAgain
<1>6. ASSUME NEW n \in Nodes, NEW d \in Data, SetParameterByIndex(n, d)
      PROVE (trusted => VerifiedIsInitialised /\ ReverifyIsInitialised)'
  BY <1>6 DEF SetParameterByIndex
<1>7. ASSUME NEW n \in Nodes, NEW d \in Data, SetGraphParameterByIndex(n, d)
      PROVE (trusted => VerifiedIsInitialised /\ ReverifyIsInitialised)'
  BY <1>7 DEF SetGraphParameterByIndex
<1>8. ASSUME NEW n \in Nodes, RemoveNode(n)
      PROVE (trusted => VerifiedIsInitialised /\ ReverifyIsInitialised)'
  BY <1>8 DEF RemoveNode, ForceVerify, Reverify, Modified, ModifiedAgain
<1>9. ASSUME NEW n \in Nodes, SetNodeTarget(n)
      PROVE (trusted => VerifiedIsInitialised /\ ReverifyIsInitialised)'
  BY <1>9 DEF SetNodeTarget, ForceVerify, Reverify, Modified, ModifiedAgain
<1>10. ASSUME NEW n \in Nodes, Extract(n)
       PROVE (trusted => VerifiedIsInitialised /\ ReverifyIsInitialised)'
  BY <1>10 DEF Extract
<1>11. ASSUME NEW f \in BOOLEAN, VerifyGraph(f)
       PROVE (trusted => VerifiedIsInitialised /\ ReverifyIsInitialised)'
  BY <1>11 DEF VerifyGraph
<1>12. CASE Deinitialize
  BY <1>12 DEF Deinitialize, Deinit, ToDeinitialize
<1>13. CASE Check
  BY <1>13 DEF Check
<1>14. CASE CheckFails
  BY <1>14 DEF CheckFails, Exit
<1>15. CASE Initialize
  BY <1>15 DEF Initialize, Init1, Exit
<1>16. ASSUME NEW n \in nodes, NEW before \in SUBSET nodes, DeinitializeFails(n, before)
       PROVE (trusted => VerifiedIsInitialised /\ ReverifyIsInitialised)'
  BY <1>16 DEF DeinitializeFails, Deinit, ToDeinitialize, Exit
<1>17. ASSUME NEW n \in nodes, NEW before \in SUBSET nodes, InitializeFails(n, before)
       PROVE (trusted => VerifiedIsInitialised /\ ReverifyIsInitialised)'
  BY <1>17 DEF InitializeFails, Init1, Exit
<1>18. CASE ProcessGraph
  BY <1>18 DEF ProcessGraph
<1>19. CASE Complete
  BY <1>19 DEF Complete
<1>20. ASSUME NEW d \in Data, Write(d)
       PROVE (trusted => VerifiedIsInitialised /\ ReverifyIsInitialised)'
  BY <1>20 DEF Write
<1>21. CASE WroteToReference
  BY <1>21 DEF WroteToReference, Contaminates
<1>22. CASE ContaminateGraphs
  BY <1>22 DEF ContaminateGraphs, Reverify, ModifiedAgain
<1>23. CASE ClearVerified
  BY <1>23 DEF ClearVerified, Modified
<1>24. CASE UNCHANGED vars
  BY <1>24 DEF vars
<1>25. QED
  BY <1>1, <1>2, <1>3, <1>4, <1>5, <1>6, <1>7, <1>8, <1>9, <1>10, <1>11, <1>12, <1>13,
     <1>14, <1>15, <1>16, <1>17, <1>18, <1>19, <1>20, <1>21, <1>22, <1>23, <1>24 DEF Next,
        Build, Verify, Process, OtherThread

(* What the checks said holds until an event that unchecked records.       *)
LEMMA ChecksLastStep == LifecycleInv /\ [Next]_vars => ChecksLast'
<1> SUFFICES ASSUME LifecycleInv, [Next]_vars PROVE ChecksLast'
  OBVIOUS
<1> USE DEF LifecycleInv, TypeOK, Idle, Verifying, flags, contents, call, other,
   ChecksLast, ChecksPass
<1>1. CASE CreateGraph
  BY <1>1 DEF CreateGraph
<1>2. ASSUME NEW o \in Others, CreateOther(o) PROVE ChecksLast'
  BY <1>2 DEF CreateOther
<1>3. ASSUME NEW o \in Others, ReleaseOther(o) PROVE ChecksLast'
  BY <1>3 DEF ReleaseOther
<1>4. ASSUME NEW d \in Data, ReleaseExtracted(d) PROVE ChecksLast'
  BY <1>4 DEF ReleaseExtracted
<1>5. ASSUME NEW n \in Nodes, NEW d \in Data, CreateGenericNode(n, d) PROVE ChecksLast'
  BY <1>5 DEF CreateGenericNode, ForceVerify, Reverify, Modified, ModifiedAgain
<1>6. ASSUME NEW n \in Nodes, NEW d \in Data, SetParameterByIndex(n, d) PROVE ChecksLast'
  BY <1>6 DEF SetParameterByIndex
<1>7. ASSUME NEW n \in Nodes, NEW d \in Data, SetGraphParameterByIndex(n, d)
      PROVE ChecksLast'
  BY <1>7 DEF SetGraphParameterByIndex
<1>8. ASSUME NEW n \in Nodes, RemoveNode(n) PROVE ChecksLast'
  BY <1>8 DEF RemoveNode, ForceVerify, Reverify, Modified, ModifiedAgain
<1>9. ASSUME NEW n \in Nodes, SetNodeTarget(n) PROVE ChecksLast'
  BY <1>9 DEF SetNodeTarget, ForceVerify, Reverify, Modified, ModifiedAgain
<1>10. ASSUME NEW n \in Nodes, Extract(n) PROVE ChecksLast'
  BY <1>10 DEF Extract
<1>11. ASSUME NEW f \in BOOLEAN, VerifyGraph(f) PROVE ChecksLast'
  BY <1>11 DEF VerifyGraph
<1>12. CASE Deinitialize
  BY <1>12 DEF Deinitialize, Deinit, ToDeinitialize
<1>13. CASE Check
  BY <1>13 DEF Check
<1>14. CASE CheckFails
  BY <1>14 DEF CheckFails, Exit
<1>15. CASE Initialize
  BY <1>15 DEF Initialize, Init1, Exit
<1>16. ASSUME NEW n \in nodes, NEW before \in SUBSET nodes, DeinitializeFails(n, before)
       PROVE ChecksLast'
  BY <1>16 DEF DeinitializeFails, Deinit, ToDeinitialize, Exit
<1>17. ASSUME NEW n \in nodes, NEW before \in SUBSET nodes, InitializeFails(n, before)
       PROVE ChecksLast'
  BY <1>17 DEF InitializeFails, Init1, Exit
<1>18. CASE ProcessGraph
  BY <1>18 DEF ProcessGraph
<1>19. CASE Complete
  BY <1>19 DEF Complete
<1>20. ASSUME NEW d \in Data, Write(d) PROVE ChecksLast'
  BY <1>20 DEF Write
<1>21. CASE WroteToReference
  BY <1>21 DEF WroteToReference, Contaminates
<1>22. CASE ContaminateGraphs
  BY <1>22 DEF ContaminateGraphs, Reverify, ModifiedAgain
<1>23. CASE ClearVerified
  BY <1>23 DEF ClearVerified, Modified
<1>24. CASE UNCHANGED vars
  BY <1>24 DEF vars
<1>25. QED
  BY <1>1, <1>2, <1>3, <1>4, <1>5, <1>6, <1>7, <1>8, <1>9, <1>10, <1>11, <1>12, <1>13,
     <1>14, <1>15, <1>16, <1>17, <1>18, <1>19, <1>20, <1>21, <1>22, <1>23, <1>24 DEF Next,
        Build, Verify, Process, OtherThread

(* Flags that say that no verification has succeeded are right about it    *)
(* until an event that forgotten records.                                  *)
LEMMA InitialisedByFlagsStep == LifecycleInv /\ [Next]_vars => InitialisedByFlags'
<1> SUFFICES ASSUME LifecycleInv, [Next]_vars PROVE InitialisedByFlags'
  OBVIOUS
<1> USE DEF LifecycleInv, TypeOK, Idle, Verifying, flags, contents, call, other,
   InitialisedByFlags
<1>1. CASE CreateGraph
  BY <1>1 DEF CreateGraph
<1>2. ASSUME NEW o \in Others, CreateOther(o) PROVE InitialisedByFlags'
  BY <1>2 DEF CreateOther
<1>3. ASSUME NEW o \in Others, ReleaseOther(o) PROVE InitialisedByFlags'
  BY <1>3 DEF ReleaseOther
<1>4. ASSUME NEW d \in Data, ReleaseExtracted(d) PROVE InitialisedByFlags'
  BY <1>4 DEF ReleaseExtracted
<1>5. ASSUME NEW n \in Nodes, NEW d \in Data, CreateGenericNode(n, d)
      PROVE InitialisedByFlags'
  BY <1>5 DEF CreateGenericNode, ForceVerify, Reverify, Modified, ModifiedAgain
<1>6. ASSUME NEW n \in Nodes, NEW d \in Data, SetParameterByIndex(n, d)
      PROVE InitialisedByFlags'
  BY <1>6 DEF SetParameterByIndex
<1>7. ASSUME NEW n \in Nodes, NEW d \in Data, SetGraphParameterByIndex(n, d)
      PROVE InitialisedByFlags'
  BY <1>7 DEF SetGraphParameterByIndex
<1>8. ASSUME NEW n \in Nodes, RemoveNode(n) PROVE InitialisedByFlags'
  BY <1>8 DEF RemoveNode, ForceVerify, Reverify, Modified, ModifiedAgain
<1>9. ASSUME NEW n \in Nodes, SetNodeTarget(n) PROVE InitialisedByFlags'
  BY <1>9 DEF SetNodeTarget, ForceVerify, Reverify, Modified, ModifiedAgain
<1>10. ASSUME NEW n \in Nodes, Extract(n) PROVE InitialisedByFlags'
  BY <1>10 DEF Extract
<1>11. ASSUME NEW f \in BOOLEAN, VerifyGraph(f) PROVE InitialisedByFlags'
  BY <1>11 DEF VerifyGraph
<1>12. CASE Deinitialize
  <2> SUFFICES ASSUME ~forgotten', NEW m \in UserNodes PROVE live'[m] = 0
    BY <1>12 DEF Deinitialize
  <2>1. m \in Nodes /\ live[m] \in 0 .. 2 /\ live[m] < 2
    BY <1>12, UserNodesAssumption DEF Deinitialize
  <2>2. live'[m] = IF m \in ToDeinitialize /\ live[m] > 0 THEN live[m] - 1 ELSE live[m]
    BY <1>12, <2>1 DEF Deinitialize, Deinit
  <2>3. CASE first
    BY <1>12, <2>1, <2>2, <2>3 DEF Deinitialize, ToDeinitialize
  <2>4. CASE ~first /\ m \in nodes
    BY <2>1, <2>2, <2>4 DEF ToDeinitialize
  <2>5. CASE ~first /\ m \notin nodes
    BY <2>1, <2>2, <2>5
  <2>6. QED
    BY <2>3, <2>4, <2>5
<1>13. CASE Check
  BY <1>13 DEF Check
<1>14. CASE CheckFails
  BY <1>14 DEF CheckFails, Exit
<1>15. CASE Initialize
  <2> SUFFICES ASSUME ~forgotten', NEW m \in UserNodes PROVE live'[m] < 2
    BY <1>15 DEF Initialize, Exit
  <2>1. m \in Nodes /\ live[m] = 0
    BY <1>15, UserNodesAssumption DEF Initialize
  <2>2. QED
    BY <1>15, <2>1 DEF Initialize, Init1
<1>16. ASSUME NEW n \in nodes, NEW before \in SUBSET nodes, DeinitializeFails(n, before)
       PROVE InitialisedByFlags'
  <2> SUFFICES ASSUME ~forgotten', NEW m \in UserNodes PROVE live'[m] < 2
    BY <1>16 DEF DeinitializeFails, Exit
  <2>1. m \in Nodes /\ live[m] \in 0 .. 2 /\ live[m] < 2
    BY <1>16, UserNodesAssumption DEF DeinitializeFails
  <2>2. QED
    BY <1>16, <2>1 DEF DeinitializeFails, Deinit
<1>17. ASSUME NEW n \in nodes, NEW before \in SUBSET nodes, InitializeFails(n, before)
       PROVE InitialisedByFlags'
  <2> SUFFICES ASSUME ~forgotten', NEW m \in UserNodes PROVE live'[m] = 0
    BY <1>17 DEF InitializeFails, Exit
  <2>1. m \in Nodes /\ live[m] = 0 /\ m \notin before
    BY <1>17, UserNodesAssumption DEF InitializeFails
  <2>2. QED
    BY <1>17, <2>1 DEF InitializeFails, Init1
<1>18. CASE ProcessGraph
  BY <1>18 DEF ProcessGraph
<1>19. CASE Complete
  BY <1>19 DEF Complete
<1>20. ASSUME NEW d \in Data, Write(d) PROVE InitialisedByFlags'
  BY <1>20 DEF Write
<1>21. CASE WroteToReference
  BY <1>21 DEF WroteToReference, Contaminates
<1>22. CASE ContaminateGraphs
  BY <1>22 DEF ContaminateGraphs, Reverify, ModifiedAgain
<1>23. CASE ClearVerified
  BY <1>23 DEF ClearVerified, Modified
<1>24. CASE UNCHANGED vars
  BY <1>24 DEF vars
<1>25. QED
  BY <1>1, <1>2, <1>3, <1>4, <1>5, <1>6, <1>7, <1>8, <1>9, <1>10, <1>11, <1>12, <1>13,
     <1>14, <1>15, <1>16, <1>17, <1>18, <1>19, <1>20, <1>21, <1>22, <1>23, <1>24 DEF Next,
        Build, Verify, Process, OtherThread

(* The flags verified and reverify mean what vxExecuteGraph, vxVerifyGraph *)
(* and ownDestructNode take them to mean, in every reachable state.        *)
THEOREM Invariant == Spec => []LifecycleInv
<1>1. LifecycleInv /\ [Next]_vars => LifecycleInv'
  <2> SUFFICES ASSUME LifecycleInv, [Next]_vars PROVE LifecycleInv'
    OBVIOUS
  <2>1. TypeOK'
    BY Types DEF LifecycleInv
  <2>2. QED
    BY <2>1, VerifyingUnverified, AbsentUninitialised, TrustedFlags, ChecksLastStep,
       InitialisedByFlagsStep DEF LifecycleInv
<1>2. QED
  BY InitInv, <1>1, PTL DEF Spec

(* vxExecuteGraph runs a graph whose parameters fail the checks of         *)
(* vxVerifyGraph only after one of the events that unchecked records.      *)
THEOREM RunsAreChecked == Spec => []RunsChecked
<1>1. LifecycleInv => RunsChecked
  BY DEF LifecycleInv, ChecksLast, RunsChecked
<1>2. QED
  BY Invariant, <1>1, PTL

(* vxVerifyGraph initialises a user kernel twice without deinitialising it *)
(* only after one of the events that forgotten records.                    *)
THEOREM KernelsInitialisedOnce == Spec => []InitializedOnce
<1>1. LifecycleInv => InitializedOnce
  BY DEF LifecycleInv, InitialisedByFlags, InitializedOnce
<1>2. QED
  BY Invariant, <1>1, PTL
=============================================================================
