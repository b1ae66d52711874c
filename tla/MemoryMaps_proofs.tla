-------------------------- MODULE MemoryMaps_proofs --------------------------
(***************************************************************************)
(* The properties of MemoryMaps, for any number of threads and objects and *)
(* any size of the table that has room for the map of every thread         *)
(* (EnoughSlots).                                                          *)
(*                                                                         *)
(* TableInv says entry by entry what MapsAreEntries says of the table as a *)
(* whole; LockInv, that the memory of an object is half written only while *)
(* its writer has the lock; CountInv, that a reference is behind every     *)
(* object a thread works on: the thread's own until the map is filled, the *)
(* map's from then on.                                                     *)
(***************************************************************************)
EXTENDS MemoryMaps, FiniteSetTheorems, NaturalsInduction, WellFoundedInduction, TLAPS

EnoughSlots == Cardinality(Threads) <= NumSlots

Filling == {"read_lock", "read", "read_rest"}
Copying == {"copy", "copy_rest"}

(* Where a thread has the lock of its object's memory, and where it has    *)
(* written the first part of it.                                           *)
Locked == {"read", "read_rest", "commit", "commit_rest"} \cup Copying
Writing == {"commit_rest", "copy_rest"}

(* A thread without an object is idle; one that copies has no entry.       *)
StepsInv ==
  \A t \in Threads :
    /\ map[t].object = Null => map[t] = NoMap /\ pc[t] = "idle"
    /\ pc[t] \in Copying => map[t].id = Null /\ map[t].ptr = Null
    /\ pc[t] \in {"read_rest", "commit_lock", "commit", "commit_rest", "give_up"} =>
         map[t].ptr # Null

(* Each map has an entry of its own, each entry that is used a map, and    *)
(* each buffer an entry.                                                   *)
TableInv ==
  /\ \A t \in Threads : Mapping(t) =>
       /\ map[t].id \in Slots
       /\ memory_maps[map[t].id].used
       /\ memory_maps[map[t].id].ref = map[t].object
       /\ memory_maps[map[t].id].ptr = map[t].ptr
       /\ memory_maps[map[t].id].usage = map[t].usage
  /\ \A t, u \in Threads : t # u /\ Mapping(t) /\ Mapping(u) => map[t].id # map[u].id
  /\ \A s \in Slots : memory_maps[s].used => \E t \in Threads : Mapping(t) /\ map[t].id = s
  /\ \A s \in Slots : memory_maps[s].used => memory_maps[s].ptr \in {s, Null}
  /\ \A s \in Slots : buffers[s].used <=> memory_maps[s].used /\ memory_maps[s].ptr = s

(* Who reads or writes the memory of an object has its lock, and it is     *)
(* half written only between the two steps of a write.                     *)
LockInv ==
  /\ \A t \in Threads : pc[t] \in Locked => lock[map[t].object] = t
  /\ \A t \in Threads : pc[t] \in Writing =>
       contents[map[t].object][1] # contents[map[t].object][2]
  /\ \A o \in Objects : contents[o][1] # contents[o][2] =>
       \E t \in Threads : pc[t] \in Writing /\ map[t].object = o

(* A map that is half filled agrees with the object, which does not change *)
(* before it is filled.                                                    *)
FillInv ==
  /\ ReadsAreWhole
  /\ \A t \in Threads : pc[t] = "read_rest" =>
       buffers[map[t].ptr].data[1] = contents[map[t].object][1]

CountInv ==
  /\ \A t \in Threads : held[t] \subseteq alive
  /\ \A t \in Threads : pc[t] \in Filling \cup Copying => map[t].object \in held[t]
  /\ MappedObjectsLive

IInv == TypeOK /\ StepsInv /\ TableInv /\ LockInv /\ FillInv /\ CountInv

(* A set of entries has a first one.                                       *)
LEMMA MinInSet ==
  ASSUME NEW S \in SUBSET Nat, S # {}
  PROVE  Min(S) \in S
<1>1. PICK x \in S : \A y \in S : ~ (<<y, x>> \in OpToRel(<, Nat))
  BY NatLessThanWellFounded, WFMin
<1>2. ASSUME NEW y \in S PROVE x <= y
  <2>1. <<y, x>> \in Nat \X Nat /\ <<y, x>>[1] = y /\ <<y, x>>[2] = x
    OBVIOUS
  <2>2. <<y, x>> \in OpToRel(<, Nat) <=> y < x
    BY <2>1 DEF OpToRel
  <2>3. ~ (y < x)
    BY <1>1, <2>2, Zenon
  <2>4. QED
    BY <2>3
<1>3. QED
  BY <1>2 DEF Min

Usables == {s \in Slots : Usable(s)}

(* While a thread has no map, there is a free entry.                       *)
LEMMA SlotIsFree ==
  ASSUME TableInv, EnoughSlots, NEW t \in Threads, ~Mapping(t)
  PROVE  Usables # {} /\ Min(Usables) \in Usables
<1> DEFINE M == {u \in Threads : Mapping(u)}
           f == [u \in M |-> map[u].id]
<1>1. IsFiniteSet(M) /\ Cardinality(M) < Cardinality(Threads)
  <2>1. M \subseteq Threads /\ t \notin M
    OBVIOUS
  <2>2. QED
    BY <2>1, FS_Subset, FS_CardinalityType, SizesAssumption
<1>2. Cardinality(Slots) = NumSlots
  BY FS_Interval, SizesAssumption DEF Slots
<1>3. ASSUME Usables = {} PROVE FALSE
  <2>1. \A s \in Slots : memory_maps[s].used
    BY <1>3 DEF Usables, Usable
  <2>2. f \in [M -> Slots] /\ \A s \in Slots : \E u \in M : f[u] = s
    BY <2>1 DEF TableInv
  <2>3. f \in Surjection(M, Slots)
    BY <2>2 DEF Surjection
  <2>4. Cardinality(Slots) <= Cardinality(M)
    BY <1>1, <2>3, FS_Surjection
  <2>5. QED
    BY <1>1, <1>2, <2>4, FS_CardinalityType, SizesAssumption DEF EnoughSlots
<1>4. Usables \in SUBSET Nat
  BY DEF Usables, Slots
<1>5. QED
  BY <1>3, <1>4, MinInSet

(* A buffer that was just allocated.                                       *)
Fresh == [NoBuffer EXCEPT !.used = TRUE]

(* It is in use, and reads as nothing written.                            *)
LEMMA FreshBuffer ==
  /\ Fresh \in Buffer /\ Fresh.used /\ Fresh.data[1] = Fresh.data[2]
<1>1. Unwritten \in [Parts -> 0 .. 1] /\ Unwritten[1] = Unwritten[2]
  BY DEF Unwritten, Parts
<1>2. NoBuffer \in Buffer /\ NoBuffer.data = Unwritten
  BY <1>1 DEF NoBuffer, Buffer
<1>3. Fresh \in Buffer
  BY <1>2 DEF Fresh, Buffer
<1>4. Fresh.used = TRUE /\ Fresh.data = Unwritten
  BY <1>2 DEF Fresh, Buffer
<1>5. QED
  BY <1>1, <1>3, <1>4

(* What ownMemoryMap does then.                                            *)
LEMMA MapEffect ==
  ASSUME TableInv, EnoughSlots,
         NEW t \in Threads, ~Mapping(t), NEW o, NEW u, NEW size, MemoryMap(t, o, u, size)
  PROVE  \E id \in Slots, ptr \in Slots \cup {Null} :
           /\ ~memory_maps[id].used
           /\ ptr = IF size = 0 THEN Null ELSE id
           /\ memory_maps' = [memory_maps EXCEPT
                ![id] = [used |-> TRUE, ref |-> o, ptr |-> ptr, usage |-> u]]
           /\ buffers' = IF size = 0 THEN buffers
                         ELSE [buffers EXCEPT ![id] = Fresh]
           /\ map' = [map EXCEPT ![t] = [object |-> o, id |-> id, ptr |-> ptr, usage |-> u]]
<1>1. Usables # {} /\ Min(Usables) \in Slots /\ ~memory_maps[Min(Usables)].used
  BY SlotIsFree DEF Usables, Usable
<1>2. QED
  BY <1>1 DEF MemoryMap, Usables, Fresh

(* What ownMemoryUnmap does to the entry a thread maps: the entry and its  *)
(* buffer are free, the others are as they were.                           *)
LEMMA UnmapEffect ==
  ASSUME TypeOK, TableInv, NEW t \in Threads, Mapping(t), MemoryUnmap(t, map[t].id)
  PROVE  /\ map' = [map EXCEPT ![t] = NoMap]
         /\ memory_maps' \in [Slots -> Entry] /\ buffers' \in [Slots -> Buffer]
         /\ ~memory_maps'[map[t].id].used /\ ~buffers'[map[t].id].used
         /\ \A s \in Slots \ {map[t].id} :
              memory_maps'[s] = memory_maps[s] /\ buffers'[s] = buffers[s]
<1>1. PICK id \in Slots : /\ id = map[t].id /\ memory_maps[id].used
                          /\ memory_maps[id].ptr \in {id, Null}
  BY DEF TableInv
<1>2. id # Null /\ memory_maps[id] \in Entry
  BY NamesAssumption DEF TypeOK
<1>3. NoBuffer \in Buffer /\ Free \in Entry /\ NoBuffer.used = FALSE /\ Free.used = FALSE
  BY DEF NoBuffer, Free, Buffer, Entry, Unwritten, Usages
<1>4. CASE memory_maps[id].ptr = id
  <2>1. /\ buffers' = [buffers EXCEPT ![id] = NoBuffer]
        /\ memory_maps' = [memory_maps EXCEPT ![id] = Free]
        /\ map' = [map EXCEPT ![t] = NoMap]
    BY <1>1, <1>2, <1>4 DEF MemoryUnmap
  <2>2. QED
    BY <1>1, <1>3, <2>1 DEF TypeOK
<1>5. CASE memory_maps[id].ptr = Null
  <2>1. /\ buffers' = buffers /\ map' = [map EXCEPT ![t] = NoMap]
        /\ memory_maps' = [memory_maps EXCEPT ![id].used = FALSE]
    BY <1>1, <1>5 DEF MemoryUnmap
  <2>2. ~buffers[id].used
    BY <1>2, <1>5 DEF TableInv
  <2>3. [memory_maps[id] EXCEPT !.used = FALSE] \in Entry
    BY <1>2 DEF Entry
  <2>4. memory_maps'[id].used = FALSE
    BY <1>2, <2>1 DEF TypeOK, Entry
  <2>5. QED
    BY <1>1, <2>1, <2>2, <2>3, <2>4 DEF TypeOK
<1>6. QED
  BY <1>1, <1>4, <1>5

(* Who works on an object has a map of it or is copying.                   *)
LEMMA AtWork ==
  ASSUME TypeOK, StepsInv, NEW t \in Threads, pc[t] # "idle"
  PROVE  map[t].object \in Objects /\ (pc[t] \notin Copying => Mapping(t))
  BY DEF TypeOK, StepsInv, Mapping, Copying, MapOfThread

(* A thread whose map has a number has the entry of that number.           *)
LEMMA NumberedIsMapping ==
  ASSUME TypeOK, StepsInv, NEW t \in Threads, map[t].id # Null \/ map[t].ptr # Null
  PROVE  Mapping(t)
  BY DEF StepsInv, Mapping, NoMap, Copying

(* A thread that has a buffer has that of its entry.                       *)
LEMMA BufferOfMap ==
  ASSUME TypeOK, StepsInv, TableInv, NEW t \in Threads, map[t].ptr # Null
  PROVE  Mapping(t) /\ map[t].ptr = map[t].id /\ map[t].ptr \in Slots
<1>1. Mapping(t)
  BY NumberedIsMapping
<1>2. memory_maps[map[t].id].ptr = map[t].ptr /\ memory_maps[map[t].id].used
  BY <1>1 DEF TableInv
<1>3. QED
  BY <1>1, <1>2 DEF TableInv


(* Threads are finite in number, and so are those with a reference.        *)
LEMMA FiniteUsers ==
  ASSUME NEW o
  PROVE  /\ IsFiniteSet(Holders(o)) /\ Cardinality(Holders(o)) \in Nat
         /\ IsFiniteSet(Mappers(o)) /\ Cardinality(Mappers(o)) \in Nat
<1>1. Holders(o) \in SUBSET Threads /\ Mappers(o) \in SUBSET Threads
  BY DEF Holders, Mappers
<1>2. QED
  BY <1>1, SizesAssumption, FS_Subset, FS_CardinalityType

(* An object that a thread has a reference to, or a filled map of, is      *)
(* counted.                                                                *)
LEMMA HeldIsCounted ==
  ASSUME TypeOK, CountInv, NEW o \in alive,
         NEW t \in Threads, t \in Holders(o) \/ t \in Mappers(o)
  PROVE  external[o] # 0 /\ external[o] - 1 \in Nat
<1>1. Cardinality(Holders(o)) # 0 \/ Cardinality(Mappers(o)) # 0
  BY FiniteUsers, FS_EmptySet
<1>2. external[o] = Cardinality(Holders(o)) + Cardinality(Mappers(o))
  BY DEF CountInv, MappedObjectsLive
<1>3. QED
  BY <1>1, <1>2, FiniteUsers

(* A copy into a buffer.                                                   *)
LEMMA CopyType ==
  ASSUME TypeOK, NEW s \in Slots, NEW p \in Parts, NEW o \in Objects
  PROVE  [buffers EXCEPT ![s].data[p] = contents[o][p]] \in [Slots -> Buffer]
<1>1. buffers[s] \in Buffer /\ contents[o][p] \in 0 .. 1
  BY DEF TypeOK
<1> DEFINE b == buffers[s]
           x == contents[o][p]
<1>2. [b EXCEPT !.data[p] = x] \in Buffer
  <2>1. b \in Buffer /\ x \in 0 .. 1
    BY <1>1
  <2> HIDE DEF b, x
  <2>2. b.data \in [Parts -> 0 .. 1] /\ [b.data EXCEPT ![p] = x] \in [Parts -> 0 .. 1]
    BY <2>1 DEF Buffer
  <2>3. QED
    BY <2>1, <2>2 DEF Buffer
<1>3. QED
  BY <1>2 DEF TypeOK

(* A write to a part of an object's memory.                                *)
LEMMA WriteType ==
  ASSUME TypeOK, NEW o \in Objects, NEW p \in Parts, Written(o, p)
  PROVE  contents' \in [Objects -> [Parts -> 0 .. 1]]
<1>1. contents[o] \in [Parts -> 0 .. 1] /\ 1 - contents[o][p] \in 0 .. 1
  BY DEF TypeOK
<1>2. [contents[o] EXCEPT ![p] = 1 - @] \in [Parts -> 0 .. 1]
  BY <1>1
<1>3. contents' = [contents EXCEPT ![o] = [contents[o] EXCEPT ![p] = 1 - @]]
  BY DEF Written, TypeOK
<1>4. QED
  BY <1>2, <1>3 DEF TypeOK

(* Giving a map up keeps the types: it was counted.                        *)
LEMMA UnmapTypes ==
  ASSUME IInv, NEW t \in Threads, Mapping(t), pc[t] \notin Filling,
         MemoryUnmap(t, map[t].id), Decrement(map[t].object)
  PROVE  /\ memory_maps' \in [Slots -> Entry] /\ buffers' \in [Slots -> Buffer]
         /\ map' \in [Threads -> MapOfThread] /\ external' \in [Objects -> Nat]
<1>1. t \in Mappers(map[t].object) /\ map[t].object \in alive
  BY DEF IInv, CountInv, MappedObjectsLive, Mapping, Mappers, Filling
<1>2. external[map[t].object] - 1 \in Nat
  BY <1>1, HeldIsCounted DEF IInv
<1>3. NoMap \in MapOfThread
  BY DEF NoMap, MapOfThread, Usages
<1>4. QED
  BY <1>2, <1>3, UnmapEffect DEF IInv, TypeOK, Decrement

(* A new buffer's data are 0.                                              *)
LEMMA BlankBuffer == \A b \in Buffer : [b EXCEPT !.data = Unwritten] \in Buffer
  BY DEF Buffer, Unwritten

(* Every step keeps the types.                                             *)
LEMMA TypeStep == EnoughSlots /\ IInv /\ [Next]_vars => TypeOK'
<1> SUFFICES ASSUME EnoughSlots, IInv, [Next]_vars PROVE TypeOK'
  OBVIOUS
<1> USE NamesAssumption DEF IInv, TypeOK
<1>1. ASSUME NEW t \in Threads, NEW o \in Objects, Release(t, o) PROVE TypeOK'
  <2>1. o \in alive /\ t \in Holders(o)
    BY <1>1 DEF Release, CountInv, Holders
  <2>2. external[o] - 1 \in Nat
    BY <1>1, <2>1, HeldIsCounted DEF Release
  <2>3. QED
    BY <1>1, <2>2 DEF Release, Decrement
<1>2. ASSUME NEW t \in Threads, NEW o \in Objects, Copy(t, o) PROVE TypeOK'
  <2>1. map' \in [Threads -> MapOfThread]
    <3>1. map \in [Threads -> MapOfThread] /\ map[t] \in MapOfThread
      OBVIOUS
    <3>2. [map[t] EXCEPT !.object = o] \in MapOfThread
      BY <3>1 DEF MapOfThread
    <3>3. map' = [map EXCEPT ![t] = [map[t] EXCEPT !.object = o]]
      BY <1>2 DEF Copy
    <3>4. QED
      BY <3>1, <3>2, <3>3
  <2>2. QED
    BY <1>2, <2>1 DEF Copy, Lock, Unlocked, Goto
<1>3. ASSUME NEW t \in Threads, NEW o \in Objects, NEW usage \in Usages, Map(t, o, usage)
      PROVE  TypeOK'
  <2>1. ~Mapping(t) /\ o \in Objects
    BY <1>3 DEF Map, Mapping, NoMap
  <2>2. PICK id \in Slots, ptr \in Slots \cup {Null} :
          /\ ~memory_maps[id].used
          /\ ptr = IF o \in HandleImages THEN Null ELSE id
          /\ memory_maps' = [memory_maps EXCEPT
               ![id] = [used |-> TRUE, ref |-> o, ptr |-> ptr, usage |-> usage]]
          /\ buffers' = IF o \in HandleImages THEN buffers
                        ELSE [buffers EXCEPT ![id] = Fresh]
          /\ map' = [map EXCEPT
               ![t] = [object |-> o, id |-> id, ptr |-> ptr, usage |-> usage]]
    BY <1>3, <2>1, MapEffect DEF Map
  <2>3. [object |-> o, id |-> id, ptr |-> ptr, usage |-> usage] \in MapOfThread
    BY DEF MapOfThread
  <2>4. [used |-> TRUE, ref |-> o, ptr |-> ptr, usage |-> usage] \in Entry
    BY DEF Entry
  <2>5. /\ memory_maps' \in [Slots -> Entry] /\ buffers' \in [Slots -> Buffer]
        /\ map' \in [Threads -> MapOfThread]
    BY <2>2, <2>3, <2>4, FreshBuffer
  <2>6. external' \in [Objects -> Nat]
    BY <1>3 DEF Map, Increment, Referenced
  <2>7. CASE Reads(usage) /\ o \notin HandleImages
    BY <1>3, <2>5, <2>6, <2>7 DEF Map, Goto
  <2>8. CASE ~ (Reads(usage) /\ o \notin HandleImages)
    BY <1>3, <2>5, <2>6, <2>8 DEF Map
  <2>9. QED
    BY <2>7, <2>8
<1>4. ASSUME NEW t \in Threads, ReadLock(t) PROVE TypeOK'
  BY <1>4 DEF ReadLock, Lock, Unlocked, Goto
<1>5. ASSUME NEW t \in Threads, ReadFirst(t) PROVE TypeOK'
  <2>1. map[t].ptr \in Slots /\ map[t].object \in Objects
    BY <1>5, BufferOfMap, AtWork DEF ReadFirst
  <2>2. buffers' \in [Slots -> Buffer]
    <3>1. 1 \in Parts
      BY DEF Parts
    <3>2. QED
      BY <1>5, <2>1, <3>1, CopyType DEF ReadFirst, Copied
  <2>3. QED
    BY <1>5, <2>2 DEF ReadFirst, Goto
<1>6. ASSUME NEW t \in Threads, ReadRest(t) PROVE TypeOK'
  <2>1. map[t].ptr \in Slots /\ map[t].object \in Objects
    BY <1>6, BufferOfMap, AtWork DEF ReadRest, StepsInv
  <2>2. buffers' \in [Slots -> Buffer]
    <3>1. 2 \in Parts
      BY DEF Parts
    <3>2. QED
      BY <1>6, <2>1, <3>1, CopyType DEF ReadRest, Copied
  <2>3. QED
    BY <1>6, <2>1, <2>2 DEF ReadRest, Increment, Referenced, Unlock, Goto
<1>7. ASSUME NEW t \in Threads, Unmap(t) PROVE TypeOK'
  <2>1. Mapping(t)
    BY <1>7, NumberedIsMapping DEF Unmap
  <2>2. CASE pc'[t] = "commit_lock" /\ UNCHANGED <<memory_maps, external, map>>
    <3>1. buffers' = [buffers EXCEPT ![memory_maps[map[t].id].ptr].data = Unwritten]
      BY <1>7, <2>2 DEF Unmap
    <3>2. QED
      BY <1>7, <2>2, <3>1, BlankBuffer DEF Unmap, Goto
  <2>3. CASE MemoryUnmap(t, map[t].id) /\ Decrement(map[t].object) /\ UNCHANGED pc
    BY <1>7, <2>1, <2>3, UnmapTypes DEF Unmap, Filling
  <2>4. QED
    BY <1>7, <2>2, <2>3 DEF Unmap, Goto
<1>8. ASSUME NEW t \in Threads, CommitLock(t) PROVE TypeOK'
  BY <1>8 DEF CommitLock, Lock, Unlocked, Goto
<1>9. ASSUME NEW t \in Threads, CommitFirst(t) PROVE TypeOK'
  <2>1. map[t].object \in Objects
    BY <1>9, AtWork DEF CommitFirst
  <2>2. QED
    BY <1>9, <2>1, WriteType DEF CommitFirst, Goto, Parts
<1>10. ASSUME NEW t \in Threads, CommitRest(t) PROVE TypeOK'
  <2>1. map[t].object \in Objects /\ Mapping(t)
    BY <1>10, AtWork DEF CommitRest, Copying
  <2>2. contents' \in [Objects -> [Parts -> 0 .. 1]]
    BY <1>10, <2>1, WriteType DEF CommitRest, Parts
  <2>3. CASE map[t].object \in Arrays
    BY <1>10, <2>1, <2>2, <2>3, UnmapTypes DEF CommitRest, Unlock, Goto, Filling
  <2>4. CASE map[t].object \notin Arrays
    BY <1>10, <2>1, <2>2, <2>4 DEF CommitRest, Unlock, Goto
  <2>5. QED
    BY <2>3, <2>4
<1>11. ASSUME NEW t \in Threads, GiveUp(t) PROVE TypeOK'
  <2>1. map[t].object \in Objects /\ Mapping(t)
    BY <1>11, AtWork DEF GiveUp, Copying
  <2>2. QED
    BY <1>11, <2>1, UnmapTypes DEF GiveUp, Goto, Filling
<1>12. ASSUME NEW t \in Threads, CopyFirst(t) PROVE TypeOK'
  <2>1. map[t].object \in Objects
    BY <1>12, AtWork DEF CopyFirst
  <2>2. QED
    BY <1>12, <2>1, WriteType DEF CopyFirst, Goto, Parts
<1>13. ASSUME NEW t \in Threads, CopyRest(t) PROVE TypeOK'
  <2>1. map[t].object \in Objects /\ NoMap \in MapOfThread
    BY <1>13, AtWork DEF CopyRest, NoMap, MapOfThread, Usages
  <2>2. QED
    BY <1>13, <2>1, WriteType DEF CopyRest, Unlock, Goto, Parts
<1>14. CASE UNCHANGED vars
  BY <1>14 DEF vars
<1>15. QED
  BY <1>1, <1>2, <1>3, <1>4, <1>5, <1>6, <1>7, <1>8, <1>9, <1>10, <1>11, <1>12, <1>13,
     <1>14 DEF Next

(* Every step keeps the steps of a call with its map.                      *)
LEMMA StepsStep == EnoughSlots /\ IInv /\ [Next]_vars => StepsInv'
<1> SUFFICES ASSUME EnoughSlots, IInv, [Next]_vars PROVE StepsInv'
  OBVIOUS
<1> USE NamesAssumption DEF IInv, TypeOK, StepsInv
<1>1. ASSUME NEW t \in Threads, NEW o \in Objects, Release(t, o) PROVE StepsInv'
  BY <1>1 DEF Release, Copying
<1>2. ASSUME NEW t \in Threads, NEW o \in Objects, Copy(t, o) PROVE StepsInv'
  <2>1. /\ map[t] = NoMap /\ map' = [map EXCEPT ![t] = [map[t] EXCEPT !.object = o]]
        /\ pc' = [pc EXCEPT ![t] = "copy"]
    BY <1>2 DEF Copy, Goto
  <2>2. map'[t].object = o /\ map'[t].id = Null /\ map'[t].ptr = Null
    BY <2>1 DEF NoMap
  <2>3. QED
    BY <2>1, <2>2 DEF Copying
<1>3. ASSUME NEW t \in Threads, NEW o \in Objects, NEW usage \in Usages, Map(t, o, usage)
      PROVE  StepsInv'
  <2>1. ~Mapping(t) /\ o \in Objects
    BY <1>3 DEF Map, Mapping, NoMap
  <2>2. PICK id \in Slots, ptr \in Slots \cup {Null} :
          /\ ~memory_maps[id].used
          /\ ptr = IF o \in HandleImages THEN Null ELSE id
          /\ memory_maps' = [memory_maps EXCEPT
               ![id] = [used |-> TRUE, ref |-> o, ptr |-> ptr, usage |-> usage]]
          /\ buffers' = IF o \in HandleImages THEN buffers
                        ELSE [buffers EXCEPT ![id] = Fresh]
          /\ map' = [map EXCEPT
               ![t] = [object |-> o, id |-> id, ptr |-> ptr, usage |-> usage]]
    BY <1>3, <2>1, MapEffect DEF Map
  <2>3. pc' \in {pc, [pc EXCEPT ![t] = "read_lock"]}
    BY <1>3 DEF Map, Goto
  <2>4. map'[t].object = o /\ o # Null /\ pc'[t] \in {"read_lock", "idle"}
    BY <1>3, <2>2, <2>3 DEF Map
  <2>5. QED
    BY <2>2, <2>3, <2>4 DEF Copying
<1>4. ASSUME NEW t \in Threads, ReadLock(t) PROVE StepsInv'
  BY <1>4, AtWork DEF ReadLock, Goto, Copying
<1>5. ASSUME NEW t \in Threads, ReadFirst(t) PROVE StepsInv'
  BY <1>5 DEF ReadFirst, Goto, Copying
<1>6. ASSUME NEW t \in Threads, ReadRest(t) PROVE StepsInv'
  BY <1>6 DEF ReadRest, Goto, Copying
<1>7. ASSUME NEW t \in Threads, Unmap(t) PROVE StepsInv'
  <2>1. Mapping(t)
    BY <1>7, NumberedIsMapping DEF Unmap
  <2>2. CASE /\ pc' = [pc EXCEPT ![t] = "commit_lock"]
             /\ UNCHANGED <<memory_maps, external, map>>
    <3>1. CASE memory_maps[map[t].id].ptr # Null
      BY <2>1, <2>2, <3>1 DEF Copying, TableInv, Mapping
    <3>2. CASE memory_maps[map[t].id].ptr = Null
      BY <1>7, <2>2, <3>2 DEF Unmap
    <3>3. QED
      BY <3>1, <3>2
  <2>3. CASE MemoryUnmap(t, map[t].id) /\ UNCHANGED pc
    <3>1. map' = [map EXCEPT ![t] = NoMap] /\ pc[t] = "idle"
      BY <1>7, <2>1, <2>3, UnmapEffect DEF Unmap
    <3>2. QED
      BY <2>3, <3>1 DEF NoMap, Copying
  <2>4. QED
    BY <1>7, <2>2, <2>3 DEF Unmap, Goto
<1>8. ASSUME NEW t \in Threads, CommitLock(t) PROVE StepsInv'
  BY <1>8, AtWork DEF CommitLock, Goto, Copying
<1>9. ASSUME NEW t \in Threads, CommitFirst(t) PROVE StepsInv'
  BY <1>9, AtWork DEF CommitFirst, Goto, Copying
<1>10. ASSUME NEW t \in Threads, CommitRest(t) PROVE StepsInv'
  <2>1. map[t].object \in Objects /\ Mapping(t)
    BY <1>10, AtWork DEF CommitRest, Copying
  <2>2. CASE map[t].object \in Arrays
    <3>1. map' = [map EXCEPT ![t] = NoMap] /\ pc' = [pc EXCEPT ![t] = "idle"]
      BY <1>10, <2>1, <2>2, UnmapEffect DEF CommitRest, Goto
    <3>2. QED
      BY <3>1 DEF NoMap, Copying
  <2>3. CASE map[t].object \notin Arrays
    BY <1>10, <2>1, <2>3 DEF CommitRest, Goto, Copying
  <2>4. QED
    BY <2>2, <2>3
<1>11. ASSUME NEW t \in Threads, GiveUp(t) PROVE StepsInv'
  <2>1. map' = [map EXCEPT ![t] = NoMap] /\ pc' = [pc EXCEPT ![t] = "idle"]
    BY <1>11, AtWork, UnmapEffect DEF GiveUp, Goto, Copying
  <2>2. QED
    BY <2>1 DEF NoMap, Copying
<1>12. ASSUME NEW t \in Threads, CopyFirst(t) PROVE StepsInv'
  BY <1>12, AtWork DEF CopyFirst, Goto, Copying
<1>13. ASSUME NEW t \in Threads, CopyRest(t) PROVE StepsInv'
  <2>1. map' = [map EXCEPT ![t] = NoMap] /\ pc' = [pc EXCEPT ![t] = "idle"]
    BY <1>13 DEF CopyRest, Goto
  <2>2. QED
    BY <2>1 DEF NoMap, Copying
<1>14. CASE UNCHANGED vars
  BY <1>14 DEF vars
<1>15. QED
  BY <1>1, <1>2, <1>3, <1>4, <1>5, <1>6, <1>7, <1>8, <1>9, <1>10, <1>11, <1>12, <1>13,
     <1>14 DEF Next

(* A step that changes no entry, no map and nothing of the buffers but     *)
(* their contents.                                                         *)
LEMMA SameTable ==
  ASSUME TableInv, memory_maps' = memory_maps,
         \A s \in Slots : buffers'[s].used = buffers[s].used,
         \A t \in Threads : (Mapping(t)' <=> Mapping(t)) /\ (Mapping(t) => map'[t] = map[t])
  PROVE  TableInv'
  BY DEF TableInv

(* An entry that is taken was nobody's, and is the map of the thread.      *)
LEMMA TakenTable ==
  ASSUME TypeOK, TableInv, NEW t \in Threads, ~Mapping(t), Mapping(t)',
         \A u \in Threads \ {t} : map'[u] = map[u] /\ pc'[u] = pc[u],
         NEW id \in Slots, NEW ptr \in {id, Null}, NEW o, NEW usage,
         ~memory_maps[id].used,
         memory_maps' = [memory_maps EXCEPT
           ![id] = [used |-> TRUE, ref |-> o, ptr |-> ptr, usage |-> usage]],
         buffers' = IF ptr = Null THEN buffers ELSE [buffers EXCEPT ![id] = Fresh],
         map'[t] = [object |-> o, id |-> id, ptr |-> ptr, usage |-> usage]
  PROVE  TableInv'
<1>1. \A u \in Threads \ {t} :
        (Mapping(u)' <=> Mapping(u)) /\ (Mapping(u) => map[u].id # id)
  BY DEF TableInv, Mapping
<1>2. /\ memory_maps'[id].used /\ memory_maps'[id].ref = o /\ memory_maps'[id].ptr = ptr
      /\ memory_maps'[id].usage = usage
      /\ \A s \in Slots \ {id} :
           memory_maps'[s] = memory_maps[s] /\ buffers'[s] = buffers[s]
  BY DEF TypeOK
<1>3. buffers'[id].used <=> ptr = id
  BY FreshBuffer, NamesAssumption DEF TypeOK, TableInv
<1>4. map'[t].id = id /\ map'[t].object = o /\ map'[t].ptr = ptr /\ map'[t].usage = usage
  OBVIOUS
<1>5. \A u \in Threads : Mapping(u)' =>
       /\ map'[u].id \in Slots
       /\ memory_maps'[map'[u].id].used
       /\ memory_maps'[map'[u].id].ref = map'[u].object
       /\ memory_maps'[map'[u].id].ptr = map'[u].ptr
       /\ memory_maps'[map'[u].id].usage = map'[u].usage
  BY <1>1, <1>2, <1>4 DEF TableInv
<1>6. \A u, v \in Threads : u # v /\ Mapping(u)' /\ Mapping(v)' => map'[u].id # map'[v].id
  BY <1>1, <1>4 DEF TableInv
<1>7. \A s \in Slots : memory_maps'[s].used =>
        \E u \in Threads : Mapping(u)' /\ map'[u].id = s
  BY <1>1, <1>2, <1>4 DEF TableInv
<1>8. \A s \in Slots :
        /\ memory_maps'[s].used => memory_maps'[s].ptr \in {s, Null}
        /\ buffers'[s].used <=> memory_maps'[s].used /\ memory_maps'[s].ptr = s
  BY <1>2, <1>3 DEF TableInv
<1>9. QED
  BY <1>5, <1>6, <1>7, <1>8 DEF TableInv

(* An entry that is given up was nobody else's.                            *)
LEMMA GivenUpTable ==
  ASSUME TypeOK, TableInv, NEW t \in Threads, Mapping(t), MemoryUnmap(t, map[t].id),
         \A u \in Threads \ {t} : pc'[u] = pc[u]
  PROVE  TableInv'
<1>1. /\ \A u \in Threads \ {t} : map'[u] = map[u] /\ (Mapping(u)' <=> Mapping(u))
      /\ ~Mapping(t)'
  BY UnmapEffect DEF TypeOK, Mapping, NoMap
<1>2. PICK id \in Slots : id = map[t].id
  BY DEF TableInv
<1>3. /\ ~memory_maps'[id].used /\ ~buffers'[id].used
      /\ \A s \in Slots \ {id} :
           memory_maps'[s] = memory_maps[s] /\ buffers'[s] = buffers[s]
  BY <1>2, UnmapEffect
<1>4. \A u \in Threads \ {t} : Mapping(u) => map[u].id # id
  BY <1>2 DEF TableInv
<1>5. \A u \in Threads : Mapping(u)' =>
       /\ map'[u].id \in Slots
       /\ memory_maps'[map'[u].id].used
       /\ memory_maps'[map'[u].id].ref = map'[u].object
       /\ memory_maps'[map'[u].id].ptr = map'[u].ptr
       /\ memory_maps'[map'[u].id].usage = map'[u].usage
  BY <1>1, <1>3, <1>4 DEF TableInv
<1>6. \A u, v \in Threads : u # v /\ Mapping(u)' /\ Mapping(v)' => map'[u].id # map'[v].id
  BY <1>1 DEF TableInv
<1>7. \A s \in Slots : memory_maps'[s].used =>
        \E u \in Threads : Mapping(u)' /\ map'[u].id = s
  BY <1>1, <1>2, <1>3 DEF TableInv
<1>8. \A s \in Slots :
        /\ memory_maps'[s].used => memory_maps'[s].ptr \in {s, Null}
        /\ buffers'[s].used <=> memory_maps'[s].used /\ memory_maps'[s].ptr = s
  BY <1>3 DEF TableInv
<1>9. QED
  BY <1>5, <1>6, <1>7, <1>8 DEF TableInv

(* Every step keeps the table and the maps of the threads in step.         *)
LEMMA TableStep == EnoughSlots /\ IInv /\ [Next]_vars => TableInv'
<1> SUFFICES ASSUME EnoughSlots, IInv, [Next]_vars PROVE TableInv'
  OBVIOUS
<1> USE NamesAssumption DEF IInv, TypeOK
<1>1. ASSUME NEW t \in Threads, NEW o \in Objects, Release(t, o) PROVE TableInv'
  <2>1. memory_maps' = memory_maps /\ \A s \in Slots : buffers'[s].used = buffers[s].used
    BY <1>1 DEF Release
  <2>2. \A u \in Threads : (Mapping(u)' <=> Mapping(u)) /\ (Mapping(u) => map'[u] = map[u])
    BY <1>1, AtWork DEF Release, Goto, Mapping, Copying
  <2>3. QED
    BY <2>1, <2>2, SameTable
<1>2. ASSUME NEW t \in Threads, NEW o \in Objects, Copy(t, o) PROVE TableInv'
  <2>1. memory_maps' = memory_maps /\ \A s \in Slots : buffers'[s].used = buffers[s].used
    BY <1>2 DEF Copy
  <2>2. ~Mapping(t) /\ ~Mapping(t)'
    BY <1>2 DEF Copy, Goto, Mapping, NoMap
  <2>3. \A u \in Threads \ {t} : (Mapping(u)' <=> Mapping(u)) /\ map'[u] = map[u]
    BY <1>2 DEF Copy, Goto, Mapping
  <2>4. QED
    BY <2>1, <2>2, <2>3, SameTable
<1>3. ASSUME NEW t \in Threads, NEW o \in Objects, NEW usage \in Usages, Map(t, o, usage)
      PROVE  TableInv'
  <2>1. ~Mapping(t) /\ o \in Objects
    BY <1>3 DEF Map, Mapping, NoMap
  <2>2. PICK id \in Slots, ptr \in Slots \cup {Null} :
          /\ ~memory_maps[id].used
          /\ ptr = IF o \in HandleImages THEN Null ELSE id
          /\ memory_maps' = [memory_maps EXCEPT
               ![id] = [used |-> TRUE, ref |-> o, ptr |-> ptr, usage |-> usage]]
          /\ buffers' = IF o \in HandleImages THEN buffers
                        ELSE [buffers EXCEPT ![id] = Fresh]
          /\ map' = [map EXCEPT
               ![t] = [object |-> o, id |-> id, ptr |-> ptr, usage |-> usage]]
    BY <1>3, <2>1, MapEffect DEF Map
  <2>3. Mapping(t)'
    BY <1>3, <2>2 DEF Map, Mapping, Goto
  <2>4. \A v \in Threads \ {t} : map'[v] = map[v] /\ pc'[v] = pc[v]
    BY <1>3, <2>2 DEF Map, Goto
  <2>5. ptr \in {id, Null} /\ (o \in HandleImages <=> ptr = Null)
    BY <2>2
  <2>6. buffers' = IF ptr = Null THEN buffers ELSE [buffers EXCEPT ![id] = Fresh]
    BY <2>2, <2>5
  <2>7. map'[t] = [object |-> o, id |-> id, ptr |-> ptr, usage |-> usage]
    BY <2>2
  <2>8. QED
    BY <2>1, <2>2, <2>3, <2>4, <2>5, <2>6, <2>7, TakenTable
<1>4. ASSUME NEW t \in Threads, ReadLock(t) PROVE TableInv'
  <2>1. memory_maps' = memory_maps /\ \A s \in Slots : buffers'[s].used = buffers[s].used
    BY <1>4 DEF ReadLock
  <2>2. \A u \in Threads : (Mapping(u)' <=> Mapping(u)) /\ (Mapping(u) => map'[u] = map[u])
    BY <1>4, AtWork DEF ReadLock, Goto, Mapping, Copying
  <2>3. QED
    BY <2>1, <2>2, SameTable
<1>5. ASSUME NEW t \in Threads, ReadFirst(t) PROVE TableInv'
  <2>1. memory_maps' = memory_maps /\ \A s \in Slots : buffers'[s].used = buffers[s].used
    BY <1>5 DEF ReadFirst, Copied, Buffer
  <2>2. \A u \in Threads : (Mapping(u)' <=> Mapping(u)) /\ (Mapping(u) => map'[u] = map[u])
    BY <1>5, AtWork DEF ReadFirst, Goto, Mapping, Copying
  <2>3. QED
    BY <2>1, <2>2, SameTable
<1>6. ASSUME NEW t \in Threads, ReadRest(t) PROVE TableInv'
  <2>1. memory_maps' = memory_maps /\ \A s \in Slots : buffers'[s].used = buffers[s].used
    BY <1>6 DEF ReadRest, Copied, Buffer
  <2>2. \A u \in Threads : (Mapping(u)' <=> Mapping(u)) /\ (Mapping(u) => map'[u] = map[u])
    BY <1>6, AtWork DEF ReadRest, Goto, Mapping, Copying
  <2>3. QED
    BY <2>1, <2>2, SameTable
<1>7. ASSUME NEW t \in Threads, Unmap(t) PROVE TableInv'
  <2>1. Mapping(t)
    BY <1>7, NumberedIsMapping DEF Unmap
  <2>2. \A u \in Threads \ {t} : pc'[u] = pc[u]
    BY <1>7 DEF Unmap, Goto
  <2>3. CASE MemoryUnmap(t, map[t].id)
    BY <2>1, <2>2, <2>3, GivenUpTable
  <2>4. CASE ~MemoryUnmap(t, map[t].id)
    <3>1. /\ buffers' = [buffers EXCEPT ![memory_maps[map[t].id].ptr].data = Unwritten]
          /\ pc' = [pc EXCEPT ![t] = "commit_lock"]
          /\ memory_maps' = memory_maps /\ map' = map
      BY <1>7, <2>4 DEF Unmap, Goto
    <3>2. \A s \in Slots : buffers'[s].used = buffers[s].used
      BY <3>1 DEF Buffer
    <3>3. \A u \in Threads : Mapping(u)' <=> Mapping(u)
      BY <1>7, <3>1 DEF Unmap, Mapping
    <3>4. QED
      BY <3>1, <3>2, <3>3, SameTable
  <2>5. QED
    BY <2>3, <2>4
<1>8. ASSUME NEW t \in Threads, CommitLock(t) PROVE TableInv'
  <2>1. memory_maps' = memory_maps /\ \A s \in Slots : buffers'[s].used = buffers[s].used
    BY <1>8 DEF CommitLock
  <2>2. \A u \in Threads : (Mapping(u)' <=> Mapping(u)) /\ (Mapping(u) => map'[u] = map[u])
    BY <1>8, AtWork DEF CommitLock, Goto, Mapping, Copying
  <2>3. QED
    BY <2>1, <2>2, SameTable
<1>9. ASSUME NEW t \in Threads, CommitFirst(t) PROVE TableInv'
  <2>1. memory_maps' = memory_maps /\ \A s \in Slots : buffers'[s].used = buffers[s].used
    BY <1>9 DEF CommitFirst
  <2>2. \A u \in Threads : (Mapping(u)' <=> Mapping(u)) /\ (Mapping(u) => map'[u] = map[u])
    BY <1>9, AtWork DEF CommitFirst, Goto, Mapping, Copying
  <2>3. QED
    BY <2>1, <2>2, SameTable
<1>10. ASSUME NEW t \in Threads, CommitRest(t) PROVE TableInv'
  <2>1. Mapping(t) /\ \A u \in Threads \ {t} : pc'[u] = pc[u]
    BY <1>10, AtWork DEF CommitRest, Goto, Copying
  <2>2. CASE map[t].object \in Arrays
    BY <1>10, <2>1, <2>2, GivenUpTable DEF CommitRest
  <2>3. CASE map[t].object \notin Arrays
    <3>1. /\ memory_maps' = memory_maps /\ map' = map /\ buffers' = buffers
          /\ pc' = [pc EXCEPT ![t] = "give_up"]
      BY <1>10, <2>3 DEF CommitRest, Goto
    <3>2. \A u \in Threads : Mapping(u)' <=> Mapping(u)
      BY <1>10, <3>1 DEF CommitRest, Mapping
    <3>3. QED
      BY <3>1, <3>2, SameTable
  <2>4. QED
    BY <2>2, <2>3
<1>11. ASSUME NEW t \in Threads, GiveUp(t) PROVE TableInv'
  <2>1. Mapping(t) /\ \A u \in Threads \ {t} : pc'[u] = pc[u]
    BY <1>11, AtWork DEF GiveUp, Goto, Copying
  <2>2. QED
    BY <1>11, <2>1, GivenUpTable DEF GiveUp
<1>12. ASSUME NEW t \in Threads, CopyFirst(t) PROVE TableInv'
  <2>1. memory_maps' = memory_maps /\ \A s \in Slots : buffers'[s].used = buffers[s].used
    BY <1>12 DEF CopyFirst
  <2>2. \A u \in Threads : (Mapping(u)' <=> Mapping(u)) /\ (Mapping(u) => map'[u] = map[u])
    BY <1>12, AtWork DEF CopyFirst, Goto, Mapping, Copying
  <2>3. QED
    BY <2>1, <2>2, SameTable
<1>13. ASSUME NEW t \in Threads, CopyRest(t) PROVE TableInv'
  <2>1. memory_maps' = memory_maps /\ \A s \in Slots : buffers'[s].used = buffers[s].used
    BY <1>13 DEF CopyRest
  <2>2. ~Mapping(t) /\ ~Mapping(t)'
    BY <1>13 DEF CopyRest, Goto, Mapping, NoMap
  <2>3. \A u \in Threads \ {t} : (Mapping(u)' <=> Mapping(u)) /\ map'[u] = map[u]
    BY <1>13 DEF CopyRest, Goto, Mapping
  <2>4. QED
    BY <2>1, <2>2, <2>3, SameTable
<1>14. CASE UNCHANGED vars
  <2>1. \A u \in Threads : Mapping(u)' <=> Mapping(u)
    BY <1>14 DEF vars, Mapping
  <2>2. QED
    BY <1>14, <2>1, SameTable DEF vars
<1>15. QED
  BY <1>1, <1>2, <1>3, <1>4, <1>5, <1>6, <1>7, <1>8, <1>9, <1>10, <1>11, <1>12, <1>13,
     <1>14 DEF Next

(* Two threads do not have the lock of the same object.                    *)
LEMMA LockedOnce ==
  ASSUME LockInv, NEW t \in Threads, NEW u \in Threads, pc[t] \in Locked, pc[u] \in Locked,
         map[t].object = map[u].object
  PROVE  t = u
  BY DEF LockInv

(* A write changes one part of one object.                                 *)
LEMMA WriteEffect ==
  ASSUME TypeOK, NEW o \in Objects, NEW p \in Parts, Written(o, p)
  PROVE  /\ contents'[o][p] = 1 - contents[o][p]
         /\ \A q \in Parts \ {p} : contents'[o][q] = contents[o][q]
         /\ \A b \in Objects \ {o} : contents'[b] = contents[b]
         /\ \A b \in Objects : contents[b][1] \in 0 .. 1 /\ contents[b][2] \in 0 .. 1
  BY DEF TypeOK, Written, Parts

(* What a thread has the lock of is an object.                             *)
LEMMA WritersObject ==
  ASSUME StepsInv, TypeOK, NEW t \in Threads, pc[t] \in Writing
  PROVE  map[t].object \in Objects
  BY AtWork DEF Writing

(* Giving a map up is nobody else's business.                              *)
LEMMA MemoryUnmapMap ==
  ASSUME NEW t, NEW id, MemoryUnmap(t, id)
  PROVE  map' = [map EXCEPT ![t] = NoMap]
  BY DEF MemoryUnmap

(* A step that takes no lock and gives none back.                          *)
LEMMA SameLocks ==
  ASSUME LockInv, contents' = contents, lock' = lock,
         \A t \in Threads : pc'[t] \in Locked =>
           pc[t] \in Locked /\ map'[t].object = map[t].object,
         \A t \in Threads : pc'[t] \in Writing <=> pc[t] \in Writing
  PROVE  LockInv'
<1>1. \A t \in Threads : pc'[t] \in Writing => map'[t].object = map[t].object
  BY DEF Writing, Locked, Copying
<1>2. QED
  BY <1>1 DEF LockInv

(* A step that takes a lock: nobody has it.                                *)
LEMMA LockTaken ==
  ASSUME TypeOK, LockInv, NEW t \in Threads, NEW o \in Objects, Lock(t, o),
         contents' = contents, map'[t].object = o, pc[t] \notin Locked,
         pc'[t] \in Locked \ Writing,
         \A u \in Threads \ {t} : pc'[u] = pc[u] /\ map'[u] = map[u]
  PROVE  LockInv'
<1>1. lock[o] = Null /\ lock' = [lock EXCEPT ![o] = t] /\ pc[t] \notin Writing
  BY DEF Lock, Unlocked, Writing, Locked, Copying
<1>2. \A u \in Threads : pc[u] \in Locked => map[u].object # o
  BY <1>1, NamesAssumption DEF LockInv
<1>3. \A u \in Threads : pc'[u] \in Locked => lock'[map'[u].object] = u
  BY <1>1, <1>2 DEF LockInv, TypeOK
<1>4. QED
  BY <1>1, <1>3 DEF LockInv

(* A step that writes the first part of an object.                         *)
LEMMA HalfWritten ==
  ASSUME TypeOK, StepsInv, LockInv, NEW t \in Threads, map[t].object \in Objects,
         Written(map[t].object, 1), lock' = lock, map' = map,
         pc[t] \in Locked \ Writing, pc'[t] \in Locked \cap Writing,
         \A u \in Threads \ {t} : pc'[u] = pc[u]
  PROVE  LockInv'
<1>1. PICK o \in Objects : o = map[t].object
  OBVIOUS
<1>2. \A u \in Threads \ {t} : pc[u] \in Writing => map[u].object # o
  BY <1>1, LockedOnce DEF Writing, Locked, Copying
<1>3. contents[o][1] = contents[o][2]
  BY <1>1, <1>2 DEF LockInv
<1>4. /\ contents'[o][1] # contents'[o][2]
      /\ \A b \in Objects \ {o} : contents'[b] = contents[b]
  BY <1>1, <1>3, WriteEffect DEF Parts
<1>5. \A u \in Threads : pc'[u] \in Writing =>
        contents'[map[u].object][1] # contents'[map[u].object][2]
  <2>1. ASSUME NEW u \in Threads \ {t}, pc[u] \in Writing
        PROVE  contents'[map[u].object][1] # contents'[map[u].object][2]
    <3>1. map[u].object \in Objects
      BY <2>1, WritersObject
    <3>2. QED
      BY <1>2, <1>4, <2>1, <3>1 DEF LockInv
  <2>2. QED
    BY <1>1, <1>4, <2>1
<1>6. QED
  BY <1>1, <1>4, <1>5 DEF LockInv

(* A step that writes the rest and gives the lock back.                    *)
LEMMA FullyWritten ==
  ASSUME TypeOK, StepsInv, LockInv, NEW t \in Threads, map[t].object \in Objects,
         Written(map[t].object, 2), Unlock(map[t].object), pc[t] \in Writing,
         pc'[t] \notin Locked,
         \A u \in Threads \ {t} : pc'[u] = pc[u] /\ map'[u] = map[u]
  PROVE  LockInv'
<1>1. PICK o \in Objects : o = map[t].object
  OBVIOUS
<1>2. pc[t] \in Locked /\ pc'[t] \notin Writing
  BY DEF Writing, Locked, Copying
<1>3. \A u \in Threads \ {t} : pc[u] \in Locked => map[u].object # o
  BY <1>1, <1>2, LockedOnce
<1>4. /\ contents'[o][1] = contents'[o][2]
      /\ \A b \in Objects \ {o} : contents'[b] = contents[b]
  <2>1. contents[o][1] # contents[o][2]
    BY <1>1 DEF LockInv
  <2>2. QED
    BY <1>1, <2>1, WriteEffect DEF Parts
<1>5. \A u \in Threads : pc'[u] \in Locked => lock'[map'[u].object] = u
  BY <1>1, <1>3 DEF LockInv, Unlock, TypeOK
<1>6. \A u \in Threads : pc'[u] \in Writing =>
        contents'[map'[u].object][1] # contents'[map'[u].object][2]
  <2>1. ASSUME NEW u \in Threads \ {t}, pc[u] \in Writing
        PROVE  contents'[map[u].object][1] # contents'[map[u].object][2]
    <3>1. map[u].object \in Objects /\ pc[u] \in Locked
      BY <2>1, WritersObject DEF Writing, Locked, Copying
    <3>2. QED
      BY <1>3, <1>4, <2>1, <3>1 DEF LockInv
  <2>2. QED
    BY <1>2, <2>1
<1>7. ASSUME NEW b \in Objects, contents'[b][1] # contents'[b][2]
      PROVE  \E u \in Threads : pc'[u] \in Writing /\ map'[u].object = b
  <2>1. b # o /\ contents[b][1] # contents[b][2]
    BY <1>4, <1>7
  <2>2. PICK u \in Threads : pc[u] \in Writing /\ map[u].object = b
    BY <2>1 DEF LockInv
  <2>3. QED
    BY <1>1, <2>1, <2>2
<1>8. QED
  BY <1>5, <1>6, <1>7 DEF LockInv

(* Every step keeps the locks.                                             *)
LEMMA LockStep == EnoughSlots /\ IInv /\ [Next]_vars => LockInv'
<1> SUFFICES ASSUME EnoughSlots, IInv, [Next]_vars PROVE LockInv'
  OBVIOUS
<1> USE NamesAssumption DEF IInv, TypeOK
<1>1. ASSUME NEW t \in Threads, NEW o \in Objects, Release(t, o) PROVE LockInv'
  <2>1. contents' = contents /\ lock' = lock
    BY <1>1 DEF Release
  <2>2. \A u \in Threads :
          /\ pc'[u] \in Locked => pc[u] \in Locked /\ map'[u].object = map[u].object
          /\ pc'[u] \in Writing <=> pc[u] \in Writing
    BY <1>1 DEF Release, Goto, Locked, Writing, Copying
  <2>3. QED
    BY <2>1, <2>2, SameLocks
<1>2. ASSUME NEW t \in Threads, NEW o \in Objects, Copy(t, o) PROVE LockInv'
  <2>1. o \in Objects /\ pc[t] \notin Locked
    BY <1>2, AtWork DEF Copy, Locked, Copying
  <2>2. pc'[t] \in Locked \ Writing
    BY <1>2 DEF Copy, Goto, Locked, Writing, Copying
  <2>3. /\ map'[t].object = o
        /\ \A u \in Threads \ {t} : pc'[u] = pc[u] /\ map'[u] = map[u]
    BY <1>2 DEF Copy, Goto, MapOfThread
  <2>4. QED
    BY <1>2, <2>1, <2>2, <2>3, LockTaken DEF Copy
<1>3. ASSUME NEW t \in Threads, NEW o \in Objects, NEW usage \in Usages, Map(t, o, usage)
      PROVE  LockInv'
  <2>1. ~Mapping(t) /\ o \in Objects
    BY <1>3 DEF Map, Mapping, NoMap
  <2>2. PICK id \in Slots, ptr \in Slots \cup {Null} :
          /\ ~memory_maps[id].used
          /\ ptr = IF o \in HandleImages THEN Null ELSE id
          /\ memory_maps' = [memory_maps EXCEPT
               ![id] = [used |-> TRUE, ref |-> o, ptr |-> ptr, usage |-> usage]]
          /\ buffers' = IF o \in HandleImages THEN buffers
                        ELSE [buffers EXCEPT ![id] = Fresh]
          /\ map' = [map EXCEPT
               ![t] = [object |-> o, id |-> id, ptr |-> ptr, usage |-> usage]]
    BY <1>3, <2>1, MapEffect DEF Map
  <2>3. contents' = contents /\ lock' = lock
    BY <1>3 DEF Map
  <2>4. \A u \in Threads \ {t} : pc'[u] = pc[u] /\ map'[u] = map[u]
    BY <1>3, <2>2 DEF Map, Goto
  <2>5. pc[t] \notin Locked /\ pc'[t] \notin Locked
    BY <1>3 DEF Map, Goto, Locked, Copying
  <2>6. pc[t] \notin Writing /\ pc'[t] \notin Writing
    BY <2>5 DEF Locked, Writing, Copying
  <2>7. QED
    BY <2>3, <2>4, <2>5, <2>6, SameLocks
<1>4. ASSUME NEW t \in Threads, ReadLock(t) PROVE LockInv'
  <2>1. map[t].object \in Objects /\ pc[t] \notin Locked
    BY <1>4, AtWork DEF ReadLock, Locked, Copying
  <2>2. pc'[t] \in Locked \ Writing
    BY <1>4 DEF ReadLock, Goto, Locked, Writing, Copying
  <2>3. /\ map'[t].object = map[t].object
        /\ \A u \in Threads \ {t} : pc'[u] = pc[u] /\ map'[u] = map[u]
    BY <1>4 DEF ReadLock, Goto
  <2>4. QED
    BY <1>4, <2>1, <2>2, <2>3, LockTaken DEF ReadLock
<1>5. ASSUME NEW t \in Threads, ReadFirst(t) PROVE LockInv'
  <2>1. contents' = contents /\ lock' = lock
    BY <1>5 DEF ReadFirst
  <2>2. \A u \in Threads :
          /\ pc'[u] \in Locked => pc[u] \in Locked /\ map'[u].object = map[u].object
          /\ pc'[u] \in Writing <=> pc[u] \in Writing
    BY <1>5 DEF ReadFirst, Goto, Locked, Writing, Copying
  <2>3. QED
    BY <2>1, <2>2, SameLocks
<1>6. ASSUME NEW t \in Threads, ReadRest(t) PROVE LockInv'
  <2>1. PICK o \in Objects : o = map[t].object
    BY <1>6, AtWork DEF ReadRest
  <2>2. /\ pc[t] \in Locked /\ pc[t] \notin Writing
        /\ pc'[t] \notin Locked /\ pc'[t] \notin Writing
    BY <1>6 DEF ReadRest, Goto, Locked, Writing, Copying
  <2>3. /\ contents' = contents /\ map' = map /\ lock' = [lock EXCEPT ![o] = Null]
        /\ \A u \in Threads \ {t} : pc'[u] = pc[u]
    BY <1>6, <2>1 DEF ReadRest, Goto, Unlock
  <2>4. \A u \in Threads \ {t} : pc[u] \in Locked => map[u].object # o
    BY <2>1, <2>2, LockedOnce
  <2>5. \A u \in Threads : pc'[u] \in Locked => lock'[map[u].object] = u
    BY <2>2, <2>3, <2>4 DEF LockInv
  <2>6. \A u \in Threads : pc'[u] \in Writing <=> pc[u] \in Writing
    BY <2>2, <2>3
  <2>7. QED
    BY <2>3, <2>5, <2>6 DEF LockInv
<1>7. ASSUME NEW t \in Threads, Unmap(t) PROVE LockInv'
  <2>1. contents' = contents /\ lock' = lock
    BY <1>7 DEF Unmap
  <2>2. \A u \in Threads \ {t} : pc'[u] = pc[u] /\ map'[u] = map[u]
    BY <1>7, MemoryUnmapMap DEF Unmap, Goto
  <2>3. pc[t] \notin Locked /\ pc'[t] \notin Locked
    BY <1>7 DEF Unmap, Goto, Locked, Copying
  <2>4. pc[t] \notin Writing /\ pc'[t] \notin Writing
    BY <2>3 DEF Locked, Writing, Copying
  <2>5. QED
    BY <2>1, <2>2, <2>3, <2>4, SameLocks
<1>8. ASSUME NEW t \in Threads, CommitLock(t) PROVE LockInv'
  <2>1. map[t].object \in Objects /\ pc[t] \notin Locked
    BY <1>8, AtWork DEF CommitLock, Locked, Copying
  <2>2. pc'[t] \in Locked \ Writing
    BY <1>8 DEF CommitLock, Goto, Locked, Writing, Copying
  <2>3. /\ map'[t].object = map[t].object
        /\ \A u \in Threads \ {t} : pc'[u] = pc[u] /\ map'[u] = map[u]
    BY <1>8 DEF CommitLock, Goto
  <2>4. QED
    BY <1>8, <2>1, <2>2, <2>3, LockTaken DEF CommitLock
<1>9. ASSUME NEW t \in Threads, CommitFirst(t) PROVE LockInv'
  <2>1. map[t].object \in Objects
    BY <1>9, AtWork DEF CommitFirst
  <2>2. pc[t] \in Locked \ Writing /\ pc'[t] \in Locked \cap Writing
    BY <1>9 DEF CommitFirst, Goto, Locked, Writing, Copying
  <2>3. \A u \in Threads \ {t} : pc'[u] = pc[u]
    BY <1>9 DEF CommitFirst, Goto
  <2>4. QED
    BY <1>9, <2>1, <2>2, <2>3, HalfWritten DEF CommitFirst
<1>10. ASSUME NEW t \in Threads, CommitRest(t) PROVE LockInv'
  <2>1. map[t].object \in Objects
    BY <1>10, AtWork DEF CommitRest
  <2>2. pc[t] \in Writing /\ pc'[t] \notin Locked
    BY <1>10 DEF CommitRest, Goto, Locked, Writing, Copying
  <2>3. \A u \in Threads \ {t} : pc'[u] = pc[u] /\ map'[u] = map[u]
    BY <1>10, MemoryUnmapMap DEF CommitRest, Goto
  <2>4. QED
    BY <1>10, <2>1, <2>2, <2>3, FullyWritten DEF CommitRest
<1>11. ASSUME NEW t \in Threads, GiveUp(t) PROVE LockInv'
  <2>1. contents' = contents /\ lock' = lock
    BY <1>11 DEF GiveUp
  <2>2. \A u \in Threads \ {t} : pc'[u] = pc[u] /\ map'[u] = map[u]
    BY <1>11, MemoryUnmapMap DEF GiveUp, Goto
  <2>3. pc[t] \notin Locked /\ pc'[t] \notin Locked
    BY <1>11 DEF GiveUp, Goto, Locked, Copying
  <2>4. pc[t] \notin Writing /\ pc'[t] \notin Writing
    BY <2>3 DEF Locked, Writing, Copying
  <2>5. QED
    BY <2>1, <2>2, <2>3, <2>4, SameLocks
<1>12. ASSUME NEW t \in Threads, CopyFirst(t) PROVE LockInv'
  <2>1. map[t].object \in Objects
    BY <1>12, AtWork DEF CopyFirst
  <2>2. pc[t] \in Locked \ Writing /\ pc'[t] \in Locked \cap Writing
    BY <1>12 DEF CopyFirst, Goto, Locked, Writing, Copying
  <2>3. \A u \in Threads \ {t} : pc'[u] = pc[u]
    BY <1>12 DEF CopyFirst, Goto
  <2>4. QED
    BY <1>12, <2>1, <2>2, <2>3, HalfWritten DEF CopyFirst
<1>13. ASSUME NEW t \in Threads, CopyRest(t) PROVE LockInv'
  <2>1. map[t].object \in Objects
    BY <1>13, AtWork DEF CopyRest
  <2>2. pc[t] \in Writing /\ pc'[t] \notin Locked
    BY <1>13 DEF CopyRest, Goto, Locked, Writing, Copying
  <2>3. \A u \in Threads \ {t} : pc'[u] = pc[u] /\ map'[u] = map[u]
    BY <1>13, MemoryUnmapMap DEF CopyRest, Goto
  <2>4. QED
    BY <1>13, <2>1, <2>2, <2>3, FullyWritten DEF CopyRest
<1>14. CASE UNCHANGED vars
  <2>1. contents' = contents /\ lock' = lock
    BY <1>14 DEF vars
  <2>2. \A u \in Threads :
          /\ pc'[u] \in Locked => pc[u] \in Locked /\ map'[u].object = map[u].object
          /\ pc'[u] \in Writing <=> pc[u] \in Writing
    BY <1>14 DEF vars, Goto, Locked, Writing, Copying
  <2>3. QED
    BY <2>1, <2>2, SameLocks
<1>15. QED
  BY <1>1, <1>2, <1>3, <1>4, <1>5, <1>6, <1>7, <1>8, <1>9, <1>10, <1>11, <1>12, <1>13,
     <1>14 DEF Next

(* No two threads have the same buffer.                                    *)
LEMMA OwnBuffers ==
  ASSUME TypeOK, StepsInv, TableInv, NEW t \in Threads, NEW u \in Threads, t # u,
         map[t].ptr # Null \/ map[t].id # Null, map[u].ptr # Null
  PROVE  map[u].ptr # map[t].id /\ (map[t].ptr # Null => map[u].ptr # map[t].ptr)
<1>1. Mapping(t) /\ Mapping(u) /\ map[u].ptr = map[u].id
  BY NumberedIsMapping, BufferOfMap
<1>2. map[t].ptr # Null => map[t].ptr = map[t].id
  BY BufferOfMap
<1>3. QED
  BY <1>1, <1>2 DEF TableInv

(* A step of one thread that leaves the others what they read.             *)
LEMMA SameFill ==
  ASSUME FillInv, StepsInv, NEW t \in Threads,
         \A u \in Threads \ {t} : pc'[u] = pc[u] /\ map'[u] = map[u],
         \A u \in Threads \ {t} : map[u].ptr # Null =>
           buffers'[map[u].ptr].data = buffers[map[u].ptr].data,
         \A u \in Threads \ {t} : pc[u] = "read_rest" =>
           contents'[map[u].object] = contents[map[u].object],
         pc'[t] = "idle" /\ map'[t].ptr # Null /\ Reads(map'[t].usage) =>
           buffers'[map'[t].ptr].data[1] = buffers'[map'[t].ptr].data[2],
         pc'[t] = "read_rest" =>
           buffers'[map'[t].ptr].data[1] = contents'[map'[t].object][1]
  PROVE  FillInv'
<1>1. ReadsAreWhole'
  BY DEF FillInv, ReadsAreWhole
<1>2. ASSUME NEW u \in Threads, pc'[u] = "read_rest"
      PROVE  buffers'[map'[u].ptr].data[1] = contents'[map'[u].object][1]
  BY <1>2 DEF FillInv, StepsInv
<1>3. QED
  BY <1>1, <1>2 DEF FillInv

(* Giving a map up leaves the buffers of the others alone.                 *)
LEMMA GivenUpFill ==
  ASSUME TypeOK, StepsInv, TableInv, FillInv, NEW t \in Threads, Mapping(t),
         MemoryUnmap(t, map[t].id), \A u \in Threads \ {t} : pc'[u] = pc[u],
         \A u \in Threads \ {t} : pc[u] = "read_rest" =>
           contents'[map[u].object] = contents[map[u].object],
         pc'[t] # "read_rest"
  PROVE  FillInv'
<1>1. map' = [map EXCEPT ![t] = NoMap] /\ map[t].id # Null
  BY UnmapEffect, NamesAssumption DEF TableInv
<1>2. map'[t].ptr = Null /\ \A u \in Threads \ {t} : map'[u] = map[u]
  BY <1>1 DEF NoMap, TypeOK
<1>3. ASSUME NEW u \in Threads \ {t}, map[u].ptr # Null
      PROVE  buffers'[map[u].ptr] = buffers[map[u].ptr]
  <2>1. map[u].ptr \in Slots \ {map[t].id}
    BY <1>1, <1>3, OwnBuffers, BufferOfMap
  <2>2. QED
    BY <2>1, UnmapEffect
<1>4. QED
  BY <1>2, <1>3, SameFill

(* A write leaves the objects alone that others read.                      *)
LEMMA WrittenAlone ==
  ASSUME TypeOK, StepsInv, LockInv, NEW t \in Threads, pc[t] \in Locked,
         NEW p \in Parts, Written(map[t].object, p)
  PROVE  \A u \in Threads \ {t} : pc[u] = "read_rest" =>
           contents'[map[u].object] = contents[map[u].object]
<1>1. map[t].object \in Objects
  BY AtWork DEF Locked, Copying
<1>2. ASSUME NEW u \in Threads \ {t}, pc[u] = "read_rest"
      PROVE  contents'[map[u].object] = contents[map[u].object]
  <2>1. map[u].object \in Objects /\ pc[u] \in Locked
    BY <1>2, AtWork DEF Locked
  <2>2. map[u].object # map[t].object
    BY <2>1, LockedOnce
  <2>3. QED
    BY <1>1, <2>1, <2>2, WriteEffect
<1>3. QED
  BY <1>2

(* Every step keeps what the maps were filled with.                        *)
LEMMA FillStep == EnoughSlots /\ IInv /\ [Next]_vars => FillInv'
<1> SUFFICES ASSUME EnoughSlots, IInv, [Next]_vars PROVE FillInv'
  OBVIOUS
<1> USE NamesAssumption DEF IInv, TypeOK
<1>1. ASSUME NEW t \in Threads, NEW o \in Objects, Release(t, o) PROVE FillInv'
  BY <1>1 DEF Release, FillInv, ReadsAreWhole
<1>2. ASSUME NEW t \in Threads, NEW o \in Objects, Copy(t, o) PROVE FillInv'
  <2>1. /\ buffers' = buffers /\ contents' = contents /\ pc'[t] = "copy"
        /\ \A u \in Threads \ {t} : pc'[u] = pc[u] /\ map'[u] = map[u]
    BY <1>2 DEF Copy, Goto
  <2>2. QED
    BY <2>1, SameFill
<1>3. ASSUME NEW t \in Threads, NEW o \in Objects, NEW usage \in Usages, Map(t, o, usage)
      PROVE  FillInv'
  <2>1. ~Mapping(t) /\ o \in Objects
    BY <1>3 DEF Map, Mapping, NoMap
  <2>2. PICK id \in Slots, ptr \in Slots \cup {Null} :
          /\ ~memory_maps[id].used
          /\ ptr = IF o \in HandleImages THEN Null ELSE id
          /\ memory_maps' = [memory_maps EXCEPT
               ![id] = [used |-> TRUE, ref |-> o, ptr |-> ptr, usage |-> usage]]
          /\ buffers' = IF o \in HandleImages THEN buffers
                        ELSE [buffers EXCEPT ![id] = Fresh]
          /\ map' = [map EXCEPT
               ![t] = [object |-> o, id |-> id, ptr |-> ptr, usage |-> usage]]
    BY <1>3, <2>1, MapEffect DEF Map
  <2>3. /\ contents' = contents /\ pc'[t] # "read_rest"
        /\ \A v \in Threads \ {t} : pc'[v] = pc[v] /\ map'[v] = map[v]
    BY <1>3, <2>2 DEF Map, Goto
  <2>4. \A v \in Threads : map[v].ptr # Null => map[v].ptr # id
    BY <2>2, BufferOfMap DEF TableInv
  <2>5. \A v \in Threads \ {t} : map[v].ptr # Null =>
          buffers'[map[v].ptr] = buffers[map[v].ptr]
    BY <2>2, <2>4, BufferOfMap
  <2>6. map'[t].ptr # Null => map'[t].ptr = id /\ buffers'[id] = Fresh
    BY <2>2
  <2>7. map'[t].ptr # Null => buffers'[map'[t].ptr].data[1] = buffers'[map'[t].ptr].data[2]
    BY <2>6, FreshBuffer
  <2>8. QED
    BY <2>3, <2>5, <2>7, SameFill
<1>4. ASSUME NEW t \in Threads, ReadLock(t) PROVE FillInv'
  <2>1. /\ buffers' = buffers /\ contents' = contents
        /\ pc'[t] \in {"read", "commit"}
        /\ \A u \in Threads \ {t} : pc'[u] = pc[u] /\ map'[u] = map[u]
    BY <1>4 DEF ReadLock, Goto
  <2>2. QED
    BY <2>1, SameFill
<1>5. ASSUME NEW t \in Threads, ReadFirst(t) PROVE FillInv'
  <2>1. PICK s \in Slots, o \in Objects : s = map[t].ptr /\ o = map[t].object
    BY <1>5, BufferOfMap, AtWork DEF ReadFirst
  <2>2. /\ buffers' = [buffers EXCEPT ![s].data[1] = contents[o][1]]
        /\ contents' = contents /\ map' = map
        /\ pc' = [pc EXCEPT ![t] = "read_rest"]
    BY <1>5, <2>1 DEF ReadFirst, Copied, Goto
  <2>3. \A u \in Threads \ {t} : map[u].ptr # Null =>
          map[u].ptr \in Slots /\ buffers'[map[u].ptr].data = buffers[map[u].ptr].data
    BY <2>1, <2>2, OwnBuffers, BufferOfMap
  <2>4. buffers'[s].data[1] = contents[o][1]
    BY <2>1, <2>2 DEF Buffer, Parts
  <2>5. /\ pc'[t] = "read_rest" /\ map'[t].ptr = s /\ map'[t].object = o
        /\ \A u \in Threads \ {t} : pc'[u] = pc[u] /\ map'[u] = map[u]
    BY <2>1, <2>2
  <2>6. /\ contents' = contents /\ pc'[t] # "idle"
        /\ buffers'[map'[t].ptr].data[1] = contents'[map'[t].object][1]
    BY <2>2, <2>4, <2>5
  <2>7. QED
    BY <2>3, <2>5, <2>6, SameFill
<1>6. ASSUME NEW t \in Threads, ReadRest(t) PROVE FillInv'
  <2>1. PICK s \in Slots, o \in Objects : s = map[t].ptr /\ o = map[t].object
    BY <1>6, BufferOfMap, AtWork DEF ReadRest, StepsInv
  <2>2. /\ buffers' = [buffers EXCEPT ![s].data[2] = contents[o][2]]
        /\ contents' = contents /\ map' = map
        /\ pc' = [pc EXCEPT ![t] = "idle"]
    BY <1>6, <2>1 DEF ReadRest, Copied, Goto
  <2>3. \A u \in Threads \ {t} : map[u].ptr # Null =>
          map[u].ptr \in Slots /\ buffers'[map[u].ptr].data = buffers[map[u].ptr].data
    BY <2>1, <2>2, OwnBuffers, BufferOfMap
  <2>4. pc[t] \in Locked \ Writing
    BY <1>6 DEF ReadRest, Locked, Writing, Copying
  <2>5. \A u \in Threads : pc[u] \in Writing => map[u].object # o
    BY <2>1, <2>4, LockedOnce DEF Writing, Locked, Copying
  <2>6. contents[o][1] = contents[o][2]
    BY <2>5 DEF LockInv
  <2>7. buffers[s].data[1] = contents[o][1]
    BY <1>6, <2>1 DEF ReadRest, FillInv
  <2>8. buffers'[s].data[1] = buffers[s].data[1] /\ buffers'[s].data[2] = contents[o][2]
    BY <2>1, <2>2 DEF Buffer, Parts
  <2>9. /\ pc'[t] = "idle" /\ map'[t].ptr = s /\ map'[t].object = o
        /\ \A u \in Threads \ {t} : pc'[u] = pc[u] /\ map'[u] = map[u]
    BY <2>1, <2>2
  <2>10. buffers'[map'[t].ptr].data[1] = buffers'[map'[t].ptr].data[2]
    BY <2>6, <2>7, <2>8, <2>9
  <2>11. QED
    BY <2>2, <2>3, <2>9, <2>10, SameFill
<1>7. ASSUME NEW t \in Threads, Unmap(t) PROVE FillInv'
  <2>1. Mapping(t) /\ contents' = contents /\ pc'[t] # "read_rest"
    BY <1>7, NumberedIsMapping DEF Unmap, Goto
  <2>2. \A u \in Threads \ {t} : pc'[u] = pc[u]
    BY <1>7 DEF Unmap, Goto
  <2>3. CASE MemoryUnmap(t, map[t].id)
    BY <2>1, <2>2, <2>3, GivenUpFill
  <2>4. CASE ~MemoryUnmap(t, map[t].id)
    <3>1. /\ buffers' = [buffers EXCEPT ![memory_maps[map[t].id].ptr].data = Unwritten]
          /\ pc' = [pc EXCEPT ![t] = "commit_lock"] /\ map' = map
          /\ memory_maps[map[t].id].ptr # Null
      BY <1>7, <2>4 DEF Unmap, Goto
    <3>2. map[t].ptr = memory_maps[map[t].id].ptr
      BY <2>1 DEF TableInv
    <3>3. PICK s \in Slots : s = map[t].ptr
      BY <3>1, <3>2, BufferOfMap
    <3>4. \A u \in Threads \ {t} : map[u].ptr # Null =>
            map[u].ptr \in Slots /\ buffers'[map[u].ptr] = buffers[map[u].ptr]
      BY <3>1, <3>2, <3>3, OwnBuffers, BufferOfMap
    <3>5. QED
      BY <2>1, <2>2, <3>1, <3>4, SameFill
  <2>5. QED
    BY <2>3, <2>4
<1>8. ASSUME NEW t \in Threads, CommitLock(t) PROVE FillInv'
  <2>1. /\ buffers' = buffers /\ contents' = contents
        /\ pc'[t] \in {"read", "commit"}
        /\ \A u \in Threads \ {t} : pc'[u] = pc[u] /\ map'[u] = map[u]
    BY <1>8 DEF CommitLock, Goto
  <2>2. QED
    BY <2>1, SameFill
<1>9. ASSUME NEW t \in Threads, CommitFirst(t) PROVE FillInv'
  <2>1. \A u \in Threads \ {t} : pc[u] = "read_rest" =>
          contents'[map[u].object] = contents[map[u].object]
    BY <1>9, WrittenAlone DEF CommitFirst, Locked, Copying, Parts
  <2>2. /\ buffers' = buffers /\ pc'[t] \in {"commit_rest", "copy_rest", "idle"}
        /\ \A u \in Threads \ {t} : pc'[u] = pc[u] /\ map'[u] = map[u]
    BY <1>9 DEF CommitFirst, Goto
  <2>3. pc'[t] = "idle" => map'[t].ptr = Null
    BY <1>9 DEF CommitFirst, Goto, NoMap
  <2>4. QED
    BY <2>1, <2>2, <2>3, SameFill
<1>10. ASSUME NEW t \in Threads, CommitRest(t) PROVE FillInv'
  <2>1. \A u \in Threads \ {t} : pc[u] = "read_rest" =>
          contents'[map[u].object] = contents[map[u].object]
    BY <1>10, WrittenAlone DEF CommitRest, Locked, Copying, Parts
  <2>2. Mapping(t) /\ \A u \in Threads \ {t} : pc'[u] = pc[u]
    BY <1>10, AtWork DEF CommitRest, Goto, Copying
  <2>3. pc'[t] \in {"idle", "give_up"}
    BY <1>10 DEF CommitRest, Goto
  <2>4. CASE map[t].object \in Arrays
    BY <1>10, <2>1, <2>2, <2>3, <2>4, GivenUpFill DEF CommitRest
  <2>5. CASE map[t].object \notin Arrays
    <3>1. /\ buffers' = buffers /\ map' = map /\ pc'[t] = "give_up"
      BY <1>10, <2>5 DEF CommitRest, Goto
    <3>2. QED
      BY <2>1, <2>2, <3>1, SameFill
  <2>6. QED
    BY <2>4, <2>5
<1>11. ASSUME NEW t \in Threads, GiveUp(t) PROVE FillInv'
  <2>1. Mapping(t) /\ contents' = contents /\ pc'[t] # "read_rest"
    BY <1>11, AtWork DEF GiveUp, Goto, Copying
  <2>2. \A u \in Threads \ {t} : pc'[u] = pc[u]
    BY <1>11 DEF GiveUp, Goto
  <2>3. QED
    BY <1>11, <2>1, <2>2, GivenUpFill DEF GiveUp
<1>12. ASSUME NEW t \in Threads, CopyFirst(t) PROVE FillInv'
  <2>1. \A u \in Threads \ {t} : pc[u] = "read_rest" =>
          contents'[map[u].object] = contents[map[u].object]
    BY <1>12, WrittenAlone DEF CopyFirst, Locked, Copying, Parts
  <2>2. /\ buffers' = buffers /\ pc'[t] \in {"commit_rest", "copy_rest", "idle"}
        /\ \A u \in Threads \ {t} : pc'[u] = pc[u] /\ map'[u] = map[u]
    BY <1>12 DEF CopyFirst, Goto
  <2>3. pc'[t] = "idle" => map'[t].ptr = Null
    BY <1>12 DEF CopyFirst, Goto, NoMap
  <2>4. QED
    BY <2>1, <2>2, <2>3, SameFill
<1>13. ASSUME NEW t \in Threads, CopyRest(t) PROVE FillInv'
  <2>1. \A u \in Threads \ {t} : pc[u] = "read_rest" =>
          contents'[map[u].object] = contents[map[u].object]
    BY <1>13, WrittenAlone DEF CopyRest, Locked, Copying, Parts
  <2>2. /\ buffers' = buffers /\ pc'[t] \in {"commit_rest", "copy_rest", "idle"}
        /\ \A u \in Threads \ {t} : pc'[u] = pc[u] /\ map'[u] = map[u]
    BY <1>13 DEF CopyRest, Goto
  <2>3. pc'[t] = "idle" => map'[t].ptr = Null
    BY <1>13 DEF CopyRest, Goto, NoMap
  <2>4. QED
    BY <2>1, <2>2, <2>3, SameFill
<1>14. CASE UNCHANGED vars
  BY <1>14 DEF vars, FillInv, ReadsAreWhole
<1>15. QED
  BY <1>1, <1>2, <1>3, <1>4, <1>5, <1>6, <1>7, <1>8, <1>9, <1>10, <1>11, <1>12, <1>13,
     <1>14 DEF Next

(* A step that gives nobody a reference and takes none.                    *)
LEMMA SameCounts ==
  ASSUME TypeOK, CountInv, held' = held, alive' = alive, external' = external,
         \A o \in Objects : Mappers(o)' = Mappers(o),
         \A u \in Threads : map'[u].object # Null =>
           map'[u].object = map[u].object \/ map'[u].object \in held[u],
         \A u \in Threads : pc'[u] \in Filling \cup Copying => map'[u].object \in held[u]
  PROVE  CountInv'
<1>1. \A o : Holders(o)' = Holders(o)
  BY DEF Holders
<1>2. \A u \in Threads : map'[u].object # Null => map'[u].object \in alive
  BY DEF CountInv, MappedObjectsLive
<1>3. \A o \in alive : external[o] = Cardinality(Holders(o)) + Cardinality(Mappers(o))
  BY DEF CountInv, MappedObjectsLive
<1>4. MappedObjectsLive'
  BY <1>1, <1>2, <1>3 DEF MappedObjectsLive, TypeOK
<1>5. QED
  BY <1>4 DEF CountInv

(* A step that makes a map of an object a reference to it.                 *)
LEMMA MapCounted ==
  ASSUME TypeOK, CountInv, held' = held, alive' = alive,
         NEW t \in Threads, NEW o \in Objects, o \in held[t], Increment(o),
         t \notin Mappers(o), Mappers(o)' = Mappers(o) \cup {t},
         \A b \in Objects \ {o} : Mappers(b)' = Mappers(b),
         map'[t].object = o, pc'[t] \notin Filling \cup Copying,
         \A u \in Threads \ {t} : pc'[u] = pc[u] /\ map'[u] = map[u]
  PROVE  CountInv'
<1>1. \A b : Holders(b)' = Holders(b)
  BY DEF Holders
<1>2. \A b \in alive : external[b] = Cardinality(Holders(b)) + Cardinality(Mappers(b))
  BY DEF CountInv, MappedObjectsLive
<1>3. Cardinality(Mappers(o) \cup {t}) = Cardinality(Mappers(o)) + 1
  BY FiniteUsers, FS_AddElement
<1>4. external' = [external EXCEPT ![o] = @ + 1]
  BY DEF Increment, Referenced
<1>5. ASSUME NEW b \in alive
      PROVE  external'[b] = Cardinality(Holders(b)') + Cardinality(Mappers(b)')
  <2>1. b \in Objects /\ Holders(b)' = Holders(b)
    BY <1>1 DEF TypeOK
  <2>2. CASE b = o
    <3>1. external'[o] = external[o] + 1
      BY <1>4 DEF TypeOK
    <3>2. QED
      BY <1>2, <1>3, <2>1, <2>2, <3>1, FiniteUsers
  <2>3. CASE b # o
    BY <1>2, <1>4, <2>1, <2>3 DEF TypeOK
  <2>4. QED
    BY <2>2, <2>3
<1>6. \A u \in Threads : map'[u].object # Null => map'[u].object \in alive
  BY DEF CountInv, MappedObjectsLive
<1>7. MappedObjectsLive'
  BY <1>5, <1>6 DEF MappedObjectsLive
<1>8. \A u \in Threads : pc'[u] \in Filling \cup Copying => map'[u].object \in held'[u]
  BY DEF CountInv
<1>9. QED
  BY <1>7, <1>8 DEF CountInv

(* A step that gives a filled map up, and its reference.                   *)
LEMMA MapUncounted ==
  ASSUME TypeOK, StepsInv, CountInv, held' = held, alive' = alive,
         NEW t \in Threads, Mapping(t), pc[t] \notin Filling, pc'[t] = "idle",
         MemoryUnmap(t, map[t].id), Decrement(map[t].object),
         \A u \in Threads \ {t} : pc'[u] = pc[u]
  PROVE  CountInv'
<1>1. PICK o \in Objects : o = map[t].object
  BY DEF Mapping, TypeOK, MapOfThread
<1>2. map'[t] = NoMap /\ \A u \in Threads \ {t} : map'[u] = map[u]
  BY MemoryUnmapMap DEF TypeOK
<1>3. map'[t].object = Null /\ ~Mapping(t)'
  BY <1>2 DEF NoMap, Mapping
<1>4. t \in Mappers(o) /\ Mappers(o)' = Mappers(o) \ {t}
  BY <1>1, <1>2, <1>3 DEF Mappers, Mapping, Filling
<1>5. \A b \in Objects \ {o} : Mappers(b)' = Mappers(b)
  BY <1>1, <1>2, <1>3 DEF Mappers, Mapping
<1>6. \A b : Holders(b)' = Holders(b)
  BY DEF Holders
<1>7. \A b \in alive : external[b] = Cardinality(Holders(b)) + Cardinality(Mappers(b))
  BY DEF CountInv, MappedObjectsLive
<1>8. /\ Cardinality(Mappers(o) \ {t}) = Cardinality(Mappers(o)) - 1
      /\ Cardinality(Mappers(o)) # 0
  BY <1>4, FiniteUsers, FS_RemoveElement, FS_EmptySet
<1>9. external' = [external EXCEPT ![o] = @ - 1]
  BY <1>1 DEF Decrement
<1>10. ASSUME NEW b \in alive
       PROVE  external'[b] = Cardinality(Holders(b)') + Cardinality(Mappers(b)')
  <2>1. b \in Objects /\ Holders(b)' = Holders(b)
    BY <1>6 DEF TypeOK
  <2>2. CASE b = o
    <3>1. external'[o] = external[o] - 1
      BY <1>9 DEF TypeOK
    <3>2. external[o] = Cardinality(Holders(o)) + Cardinality(Mappers(o))
      BY <1>7, <2>2
    <3>3. external'[o] = Cardinality(Holders(o)) + Cardinality(Mappers(o) \ {t})
      BY <1>8, <3>1, <3>2, FiniteUsers
    <3>4. QED
      BY <1>4, <2>1, <2>2, <3>3
  <2>3. CASE b # o
    BY <1>5, <1>7, <1>9, <2>1, <2>3 DEF TypeOK
  <2>4. QED
    BY <2>2, <2>3
<1>11. \A u \in Threads : map'[u].object # Null => map'[u].object \in alive
  BY <1>2, <1>3 DEF CountInv, MappedObjectsLive
<1>12. MappedObjectsLive'
  BY <1>10, <1>11 DEF MappedObjectsLive
<1>13. \A u \in Threads : pc'[u] \in Filling \cup Copying => map'[u].object \in held'[u]
  BY <1>2 DEF CountInv, Filling, Copying
<1>14. QED
  BY <1>12, <1>13 DEF CountInv

(* The last reference to an object goes when no thread works on it.        *)
LEMMA LastReference ==
  ASSUME TypeOK, StepsInv, CountInv, NEW t \in Threads, NEW o \in Objects,
         pc[t] = "idle", o \in held[t], external[o] = 1
  PROVE  \A u \in Threads : map[u].object # o /\ (u # t => o \notin held[u])
<1>1. o \in alive /\ t \in Holders(o)
  BY DEF CountInv, Holders
<1>2. 1 = Cardinality(Holders(o)) + Cardinality(Mappers(o))
  BY <1>1 DEF CountInv, MappedObjectsLive
<1>3. Cardinality(Holders(o)) # 0
  BY <1>1, FiniteUsers, FS_EmptySet
<1>4. Cardinality(Holders(o)) = 1 /\ Cardinality(Mappers(o)) = 0
  BY <1>2, <1>3, FiniteUsers
<1>5. Mappers(o) = {}
  BY <1>4, FiniteUsers, FS_EmptySet
<1>6. \A u \in Holders(o) : u = t
  <2>1. PICK x : Holders(o) = {x}
    BY <1>4, FiniteUsers, FS_Singleton
  <2>2. QED
    BY <1>1, <2>1
<1>7. ASSUME NEW u \in Threads, map[u].object = o PROVE FALSE
  <2>1. pc[u] \notin Filling \cup Copying
    BY <1>6, <1>7 DEF CountInv, Holders, Filling, Copying
  <2>2. u \in Mappers(o)
    BY <1>7, <2>1, NamesAssumption DEF Mappers, Mapping, Filling, Copying
  <2>3. QED
    BY <1>5, <2>2
<1>8. QED
  BY <1>6, <1>7 DEF Holders

(* Every step keeps the references counted.                                *)
LEMMA CountStep == EnoughSlots /\ IInv /\ [Next]_vars => CountInv'
<1> SUFFICES ASSUME EnoughSlots, IInv, [Next]_vars PROVE CountInv'
  OBVIOUS
<1> USE NamesAssumption DEF IInv, TypeOK
<1>1. ASSUME NEW t \in Threads, NEW o \in Objects, Release(t, o) PROVE CountInv'
  <2>1. /\ held' = [held EXCEPT ![t] = @ \ {o}] /\ map' = map /\ pc' = pc
        /\ external' = [external EXCEPT ![o] = @ - 1]
        /\ pc[t] = "idle" /\ o \in held[t] /\ o \in alive
        /\ alive' = IF external[o] = 1 THEN alive \ {o} ELSE alive
    BY <1>1 DEF Release, Decrement, CountInv
  <2>2. \A b : Mappers(b)' = Mappers(b)
    BY <2>1 DEF Mappers, Mapping
  <2>3. t \in Holders(o) /\ Holders(o)' = Holders(o) \ {t}
    BY <2>1 DEF Holders
  <2>4. \A b \in Objects \ {o} : Holders(b)' = Holders(b)
    BY <2>1 DEF Holders
  <2>5. /\ Cardinality(Holders(o) \ {t}) = Cardinality(Holders(o)) - 1
        /\ Cardinality(Holders(o)) # 0
    BY <2>3, FiniteUsers, FS_RemoveElement, FS_EmptySet
  <2>6. \A b \in alive : external[b] = Cardinality(Holders(b)) + Cardinality(Mappers(b))
    BY DEF CountInv, MappedObjectsLive
  <2>7. ASSUME NEW b \in alive'
        PROVE  external'[b] = Cardinality(Holders(b)') + Cardinality(Mappers(b)')
    <3>1. b \in Objects /\ b \in alive /\ Mappers(b)' = Mappers(b)
      BY <2>1, <2>2
    <3>2. CASE b = o
      <4>1. external'[o] = external[o] - 1
        BY <2>1
      <4>2. external[o] = Cardinality(Holders(o)) + Cardinality(Mappers(o))
        BY <2>1, <2>6
      <4>3. external'[o] = Cardinality(Holders(o) \ {t}) + Cardinality(Mappers(o))
        BY <2>5, <4>1, <4>2, FiniteUsers
      <4>4. QED
        BY <2>3, <3>1, <3>2, <4>3
    <3>3. CASE b # o
      BY <2>1, <2>4, <2>6, <3>1, <3>3
    <3>4. QED
      BY <3>2, <3>3
  <2>8. external[o] = 1 =>
          \A u \in Threads : map[u].object # o /\ (u # t => o \notin held[u])
    BY <2>1, LastReference
  <2>9. \A u \in Threads : map'[u].object # Null => map'[u].object \in alive'
    BY <2>1, <2>8 DEF CountInv, MappedObjectsLive
  <2>10. MappedObjectsLive'
    BY <2>7, <2>9 DEF MappedObjectsLive
  <2>11. ASSUME NEW u \in Threads PROVE held'[u] \subseteq alive'
    <3>1. held[u] \subseteq alive
      BY DEF CountInv
    <3>2. CASE u = t
      BY <2>1, <3>1, <3>2
    <3>3. CASE u # t
      BY <2>1, <2>8, <3>1, <3>3
    <3>4. QED
      BY <3>2, <3>3
  <2>12. ASSUME NEW u \in Threads, pc'[u] \in Filling \cup Copying
         PROVE  map'[u].object \in held'[u]
    <3>1. u # t /\ map'[u] = map[u] /\ pc'[u] = pc[u] /\ held'[u] = held[u]
      BY <2>1, <2>12 DEF Filling, Copying
    <3>2. QED
      BY <2>12, <3>1 DEF CountInv
  <2>13. QED
    BY <2>10, <2>11, <2>12 DEF CountInv
<1>2. ASSUME NEW t \in Threads, NEW o \in Objects, Copy(t, o) PROVE CountInv'
  <2>1. /\ held' = held /\ alive' = alive /\ external' = external /\ o \in held[t]
        /\ map'[t].object = o /\ pc'[t] = "copy" /\ map[t] = NoMap
        /\ \A u \in Threads \ {t} : pc'[u] = pc[u] /\ map'[u] = map[u]
    BY <1>2 DEF Copy, Goto, MapOfThread
  <2>2. ~Mapping(t) /\ ~Mapping(t)'
    BY <2>1 DEF Mapping, NoMap
  <2>3. \A b \in Objects : Mappers(b)' = Mappers(b)
    BY <2>1, <2>2 DEF Mappers, Mapping
  <2>4. \A u \in Threads : pc'[u] \in Filling \cup Copying => map'[u].object \in held[u]
    BY <2>1 DEF CountInv
  <2>5. QED
    BY <2>1, <2>3, <2>4, SameCounts
<1>3. ASSUME NEW t \in Threads, NEW o \in Objects, NEW usage \in Usages, Map(t, o, usage)
      PROVE  CountInv'
  <2>1. ~Mapping(t) /\ o \in Objects
    BY <1>3 DEF Map, Mapping, NoMap
  <2>2. PICK id \in Slots, ptr \in Slots \cup {Null} :
          /\ ~memory_maps[id].used
          /\ ptr = IF o \in HandleImages THEN Null ELSE id
          /\ memory_maps' = [memory_maps EXCEPT
               ![id] = [used |-> TRUE, ref |-> o, ptr |-> ptr, usage |-> usage]]
          /\ buffers' = IF o \in HandleImages THEN buffers
                        ELSE [buffers EXCEPT ![id] = Fresh]
          /\ map' = [map EXCEPT
               ![t] = [object |-> o, id |-> id, ptr |-> ptr, usage |-> usage]]
    BY <1>3, <2>1, MapEffect DEF Map
  <2>3. /\ held' = held /\ alive' = alive /\ o \in held[t]
        /\ map'[t].object = o /\ pc[t] = "idle"
    BY <1>3, <2>2 DEF Map
  <2>4. \A v \in Threads \ {t} : pc'[v] = pc[v] /\ map'[v] = map[v]
    BY <1>3, <2>2 DEF Map, Goto
  <2>5. CASE Reads(usage) /\ o \notin HandleImages
    <3>1. pc'[t] = "read_lock" /\ external' = external
      BY <1>3, <2>5 DEF Map, Goto
    <3>2. \A b \in Objects : Mappers(b)' = Mappers(b)
      BY <2>1, <2>4, <3>1 DEF Mappers, Mapping
    <3>3. \A v \in Threads : pc'[v] \in Filling \cup Copying => map'[v].object \in held[v]
      BY <2>3, <2>4 DEF CountInv
    <3>4. QED
      BY <2>3, <2>4, <3>1, <3>2, <3>3, SameCounts
  <2>6. CASE ~ (Reads(usage) /\ o \notin HandleImages)
    <3>1. pc'[t] = "idle" /\ Increment(o)
      BY <1>3, <2>6 DEF Map
    <3>2. t \notin Mappers(o) /\ Mappers(o)' = Mappers(o) \cup {t}
      BY <2>1, <2>3, <2>4, <3>1 DEF Mappers, Mapping
    <3>3. \A b \in Objects \ {o} : Mappers(b)' = Mappers(b)
      BY <2>1, <2>3, <2>4 DEF Mappers, Mapping
    <3>4. pc'[t] \notin Filling \cup Copying
      BY <3>1 DEF Filling, Copying
    <3>5. QED
      BY <2>1, <2>3, <2>4, <3>1, <3>2, <3>3, <3>4, MapCounted
  <2>7. QED
    BY <2>5, <2>6
<1>4. ASSUME NEW t \in Threads, ReadLock(t) PROVE CountInv'
  <2>1. held' = held /\ alive' = alive /\ external' = external /\ map' = map
    BY <1>4 DEF ReadLock
  <2>2. \A u \in Threads : /\ Mapping(u)' <=> Mapping(u)
                           /\ pc'[u] \in Filling <=> pc[u] \in Filling
                           /\ pc'[u] \in Copying <=> pc[u] \in Copying
    BY <1>4, <2>1 DEF ReadLock, Goto, Mapping, Filling, Copying
  <2>3. \A b \in Objects : Mappers(b)' = Mappers(b)
    BY <2>1, <2>2 DEF Mappers, Filling
  <2>4. \A u \in Threads : pc'[u] \in Filling \cup Copying => map'[u].object \in held[u]
    BY <2>1, <2>2 DEF CountInv
  <2>5. QED
    BY <2>1, <2>3, <2>4, SameCounts
<1>5. ASSUME NEW t \in Threads, ReadFirst(t) PROVE CountInv'
  <2>1. held' = held /\ alive' = alive /\ external' = external /\ map' = map
    BY <1>5 DEF ReadFirst
  <2>2. \A u \in Threads : /\ Mapping(u)' <=> Mapping(u)
                           /\ pc'[u] \in Filling <=> pc[u] \in Filling
                           /\ pc'[u] \in Copying <=> pc[u] \in Copying
    BY <1>5, <2>1 DEF ReadFirst, Goto, Mapping, Filling, Copying
  <2>3. \A b \in Objects : Mappers(b)' = Mappers(b)
    BY <2>1, <2>2 DEF Mappers, Filling
  <2>4. \A u \in Threads : pc'[u] \in Filling \cup Copying => map'[u].object \in held[u]
    BY <2>1, <2>2 DEF CountInv
  <2>5. QED
    BY <2>1, <2>3, <2>4, SameCounts
<1>6. ASSUME NEW t \in Threads, ReadRest(t) PROVE CountInv'
  <2>1. PICK o \in Objects : o = map[t].object
    BY <1>6, AtWork DEF ReadRest
  <2>2. /\ held' = held /\ alive' = alive /\ map' = map /\ Increment(o)
        /\ pc[t] = "read_rest" /\ pc'[t] = "idle"
        /\ \A u \in Threads \ {t} : pc'[u] = pc[u]
    BY <1>6, <2>1 DEF ReadRest, Goto
  <2>3. o \in held[t] /\ pc'[t] \notin Filling \cup Copying
    BY <2>1, <2>2 DEF CountInv, Filling, Copying
  <2>4. t \notin Mappers(o) /\ Mappers(o)' = Mappers(o) \cup {t}
    BY <2>1, <2>2 DEF Mappers, Mapping
  <2>5. \A b \in Objects \ {o} : Mappers(b)' = Mappers(b)
    BY <2>1, <2>2 DEF Mappers, Mapping
  <2>6. QED
    BY <2>1, <2>2, <2>3, <2>4, <2>5, MapCounted
<1>7. ASSUME NEW t \in Threads, Unmap(t) PROVE CountInv'
  <2>1. /\ Mapping(t) /\ held' = held /\ alive' = alive /\ pc[t] = "idle"
        /\ \A u \in Threads \ {t} : pc'[u] = pc[u]
    BY <1>7, NumberedIsMapping DEF Unmap, Goto
  <2>2. CASE pc' = [pc EXCEPT ![t] = "commit_lock"] /\ UNCHANGED <<external, map>>
    <3>1. map' = map /\ external' = external
      BY <2>2
    <3>2. \A u \in Threads : /\ Mapping(u)' <=> Mapping(u)
                             /\ pc'[u] \in Filling <=> pc[u] \in Filling
                             /\ pc'[u] \in Copying <=> pc[u] \in Copying
      BY <2>1, <2>2 DEF Mapping, Filling, Copying
    <3>3. \A b \in Objects : Mappers(b)' = Mappers(b)
      BY <3>1, <3>2 DEF Mappers, Filling
    <3>4. \A u \in Threads : pc'[u] \in Filling \cup Copying => map'[u].object \in held[u]
      BY <3>1, <3>2 DEF CountInv
    <3>5. QED
      BY <2>1, <3>1, <3>3, <3>4, SameCounts
  <2>3. CASE MemoryUnmap(t, map[t].id) /\ Decrement(map[t].object) /\ UNCHANGED pc
    BY <2>1, <2>3, MapUncounted DEF Filling
  <2>4. QED
    BY <1>7, <2>2, <2>3 DEF Unmap, Goto
<1>8. ASSUME NEW t \in Threads, CommitLock(t) PROVE CountInv'
  <2>1. held' = held /\ alive' = alive /\ external' = external /\ map' = map
    BY <1>8 DEF CommitLock
  <2>2. \A u \in Threads : /\ Mapping(u)' <=> Mapping(u)
                           /\ pc'[u] \in Filling <=> pc[u] \in Filling
                           /\ pc'[u] \in Copying <=> pc[u] \in Copying
    BY <1>8, <2>1 DEF CommitLock, Goto, Mapping, Filling, Copying
  <2>3. \A b \in Objects : Mappers(b)' = Mappers(b)
    BY <2>1, <2>2 DEF Mappers, Filling
  <2>4. \A u \in Threads : pc'[u] \in Filling \cup Copying => map'[u].object \in held[u]
    BY <2>1, <2>2 DEF CountInv
  <2>5. QED
    BY <2>1, <2>3, <2>4, SameCounts
<1>9. ASSUME NEW t \in Threads, CommitFirst(t) PROVE CountInv'
  <2>1. held' = held /\ alive' = alive /\ external' = external /\ map' = map
    BY <1>9 DEF CommitFirst
  <2>2. \A u \in Threads : /\ Mapping(u)' <=> Mapping(u)
                           /\ pc'[u] \in Filling <=> pc[u] \in Filling
                           /\ pc'[u] \in Copying <=> pc[u] \in Copying
    BY <1>9, <2>1 DEF CommitFirst, Goto, Mapping, Filling, Copying
  <2>3. \A b \in Objects : Mappers(b)' = Mappers(b)
    BY <2>1, <2>2 DEF Mappers, Filling
  <2>4. \A u \in Threads : pc'[u] \in Filling \cup Copying => map'[u].object \in held[u]
    BY <2>1, <2>2 DEF CountInv
  <2>5. QED
    BY <2>1, <2>3, <2>4, SameCounts
<1>10. ASSUME NEW t \in Threads, CommitRest(t) PROVE CountInv'
  <2>1. /\ Mapping(t) /\ held' = held /\ alive' = alive /\ pc[t] = "commit_rest"
        /\ \A u \in Threads \ {t} : pc'[u] = pc[u]
    BY <1>10, AtWork DEF CommitRest, Goto, Copying
  <2>2. CASE map[t].object \in Arrays
    <3>1. /\ MemoryUnmap(t, map[t].id) /\ Decrement(map[t].object) /\ pc'[t] = "idle"
          /\ pc[t] \notin Filling
      BY <1>10, <2>1, <2>2 DEF CommitRest, Goto, Filling
    <3>2. QED
      BY <2>1, <3>1, MapUncounted
  <2>3. CASE map[t].object \notin Arrays
    <3>1. map' = map /\ external' = external /\ pc'[t] = "give_up"
      BY <1>10, <2>3 DEF CommitRest, Goto
    <3>2. \A u \in Threads : /\ Mapping(u)' <=> Mapping(u)
                             /\ pc'[u] \in Filling <=> pc[u] \in Filling
                             /\ pc'[u] \in Copying <=> pc[u] \in Copying
      BY <2>1, <3>1 DEF Mapping, Filling, Copying
    <3>3. \A b \in Objects : Mappers(b)' = Mappers(b)
      BY <3>1, <3>2 DEF Mappers, Filling
    <3>4. \A u \in Threads : pc'[u] \in Filling \cup Copying => map'[u].object \in held[u]
      BY <3>1, <3>2 DEF CountInv
    <3>5. QED
      BY <2>1, <3>1, <3>3, <3>4, SameCounts
  <2>4. QED
    BY <2>2, <2>3
<1>11. ASSUME NEW t \in Threads, GiveUp(t) PROVE CountInv'
  <2>1. /\ Mapping(t) /\ held' = held /\ alive' = alive
        /\ \A u \in Threads \ {t} : pc'[u] = pc[u]
    BY <1>11, AtWork DEF GiveUp, Goto, Copying
  <2>2. /\ MemoryUnmap(t, map[t].id) /\ Decrement(map[t].object) /\ pc'[t] = "idle"
        /\ pc[t] \notin Filling
    BY <1>11 DEF GiveUp, Goto, Filling
  <2>3. QED
    BY <2>1, <2>2, MapUncounted
<1>12. ASSUME NEW t \in Threads, CopyFirst(t) PROVE CountInv'
  <2>1. held' = held /\ alive' = alive /\ external' = external /\ map' = map
    BY <1>12 DEF CopyFirst
  <2>2. \A u \in Threads : /\ Mapping(u)' <=> Mapping(u)
                           /\ pc'[u] \in Filling <=> pc[u] \in Filling
                           /\ pc'[u] \in Copying <=> pc[u] \in Copying
    BY <1>12, <2>1 DEF CopyFirst, Goto, Mapping, Filling, Copying
  <2>3. \A b \in Objects : Mappers(b)' = Mappers(b)
    BY <2>1, <2>2 DEF Mappers, Filling
  <2>4. \A u \in Threads : pc'[u] \in Filling \cup Copying => map'[u].object \in held[u]
    BY <2>1, <2>2 DEF CountInv
  <2>5. QED
    BY <2>1, <2>3, <2>4, SameCounts
<1>13. ASSUME NEW t \in Threads, CopyRest(t) PROVE CountInv'
  <2>1. /\ held' = held /\ alive' = alive /\ external' = external
        /\ map'[t] = NoMap /\ pc'[t] = "idle" /\ pc[t] = "copy_rest"
        /\ \A u \in Threads \ {t} : pc'[u] = pc[u] /\ map'[u] = map[u]
    BY <1>13 DEF CopyRest, Goto
  <2>2. ~Mapping(t) /\ ~Mapping(t)' /\ map'[t].object = Null
    BY <2>1 DEF Mapping, NoMap
  <2>3. \A b \in Objects : Mappers(b)' = Mappers(b)
    BY <2>1, <2>2 DEF Mappers, Mapping
  <2>4. \A u \in Threads : pc'[u] \in Filling \cup Copying => map'[u].object \in held[u]
    BY <2>1 DEF CountInv, Filling, Copying
  <2>5. QED
    BY <2>1, <2>2, <2>3, <2>4, SameCounts
<1>14. CASE UNCHANGED vars
  <2>1. /\ held' = held /\ alive' = alive /\ external' = external /\ map' = map
        /\ pc' = pc
    BY <1>14 DEF vars
  <2>2. \A b \in Objects : Mappers(b)' = Mappers(b)
    BY <2>1 DEF Mappers, Mapping
  <2>3. \A u \in Threads : pc'[u] \in Filling \cup Copying => map'[u].object \in held[u]
    BY <2>1 DEF CountInv
  <2>4. QED
    BY <2>1, <2>2, <2>3, SameCounts
<1>15. QED
  BY <1>1, <1>2, <1>3, <1>4, <1>5, <1>6, <1>7, <1>8, <1>9, <1>10, <1>11, <1>12, <1>13,
     <1>14 DEF Next

(* At first nothing is mapped.                                             *)
LEMMA InitInv == Init => IInv
<1> SUFFICES ASSUME Init PROVE IInv
  OBVIOUS
<1> USE NamesAssumption, SizesAssumption DEF Init
<1>1. \A t \in Threads : map[t] = NoMap /\ pc[t] = "idle" /\ ~Mapping(t)
  BY DEF NoMap, Mapping
<1>2. /\ Free \in Entry /\ Free.used = FALSE
      /\ NoBuffer \in Buffer /\ NoBuffer.used = FALSE
      /\ NoMap \in MapOfThread /\ NoMap.object = Null /\ NoMap.ptr = Null
      /\ Unwritten \in [Parts -> 0 .. 1] /\ Unwritten[1] = Unwritten[2]
  BY DEF Free, Entry, NoBuffer, Buffer, NoMap, MapOfThread, Unwritten, Parts, Usages
<1>3. Cardinality(Threads) \in Nat
  BY FS_CardinalityType
<1>4. TypeOK
  BY <1>2, <1>3 DEF TypeOK
<1>5. StepsInv /\ TableInv /\ LockInv /\ FillInv
  BY <1>1, <1>2 DEF StepsInv, TableInv, LockInv, FillInv, ReadsAreWhole, Locked,
     Writing, Copying
<1>6. \A o \in Objects : Holders(o) = Threads /\ Mappers(o) = {}
  BY <1>1 DEF Holders, Mappers
<1>7. \A o \in Objects : external[o] = Cardinality(Holders(o)) + Cardinality(Mappers(o))
  <2>1. Cardinality({}) = 0
    BY FS_EmptySet
  <2>2. Cardinality(Threads) = Cardinality(Threads) + 0
    BY <1>3
  <2>3. ASSUME NEW o \in Objects
        PROVE  external[o] = Cardinality(Holders(o)) + Cardinality(Mappers(o))
    <3>1. external[o] = Cardinality(Threads)
      OBVIOUS
    <3>2. QED
      BY <1>6, <2>1, <2>2, <3>1
  <2>4. QED
    BY <2>3
<1>8. CountInv
  BY <1>1, <1>2, <1>7 DEF CountInv, MappedObjectsLive, Filling, Copying
<1>9. QED
  BY <1>4, <1>5, <1>8 DEF IInv

(* If the table has room for a map of each thread, the table, the locks,   *)
(* what the maps were filled with and the references stay in step with the *)
(* threads (vxMapImagePatch, vxUnmapImagePatch, vxCopyImagePatch and those *)
(* of arrays, vxReleaseImage, vxReleaseArray).                             *)
THEOREM MapsInStep ==
  ASSUME EnoughSlots
  PROVE  Spec => []IInv
<1>1. IInv /\ [Next]_vars => IInv'
  BY TypeStep, StepsStep, TableStep, LockStep, FillStep, CountStep DEF IInv
<1>2. QED
  BY InitInv, <1>1, PTL DEF Spec

(* What the parts of TableInv say of each entry, MapsAreEntries says of    *)
(* the sets of those in use.                                               *)
LEMMA EntriesOfMaps == IInv => MapsAreEntries
<1> SUFFICES ASSUME IInv PROVE MapsAreEntries
  OBVIOUS
<1> USE NamesAssumption DEF IInv
<1>1. ASSUME NEW t \in Threads, Mapping(t)
      PROVE  LET m == map[t] IN
             m.id # Null /\ memory_maps[m.id] = [used |-> TRUE, ref |-> m.object,
                                                 ptr |-> m.ptr, usage |-> m.usage]
  <2>1. PICK s \in Slots : s = map[t].id
    BY <1>1 DEF TableInv
  <2>2. memory_maps[s] \in Entry /\ memory_maps[s].used = TRUE
    BY <1>1, <2>1 DEF TableInv, TypeOK, Entry
  <2>3. /\ memory_maps[s].ref = map[t].object /\ memory_maps[s].ptr = map[t].ptr
        /\ memory_maps[s].usage = map[t].usage
    BY <1>1, <2>1 DEF TableInv
  <2>4. QED
    BY <2>1, <2>2, <2>3 DEF Entry
<1>2. {s \in Slots : memory_maps[s].used} = {map[t].id : t \in {u \in Threads : Mapping(u)}}
  BY DEF TableInv
<1>3. {s \in Slots : buffers[s].used} =
        {memory_maps[s].ptr : s \in {r \in Slots : memory_maps[r].used}} \ {Null}
  BY DEF TableInv
<1>4. QED
  BY <1>1, <1>2, <1>3 DEF MapsAreEntries, TableInv

(* The maps the threads were given are the entries of the table in use,    *)
(* each with a buffer of its own: none is lost, none is freed early        *)
(* (ownMemoryMap, ownFindMemoryMap, ownMemoryUnmap).                       *)
THEOREM EntriesFollowMaps ==
  ASSUME EnoughSlots
  PROVE  Spec => []MapsAreEntries
  BY MapsInStep, EntriesOfMaps, PTL

(* What a map was filled with was written by one call, although memory is  *)
(* copied in parts (vxMapImagePatch, vxUnmapImagePatch, vxCopyImagePatch). *)
THEOREM ReadsComeWhole ==
  ASSUME EnoughSlots
  PROVE  Spec => []ReadsAreWhole
<1>1. IInv => ReadsAreWhole
  BY DEF IInv, FillInv
<1>2. QED
  BY <1>1, MapsInStep, PTL

(* An object that is mapped or worked on was not destroyed, and its        *)
(* references are the threads' and their filled maps'                      *)
(* (ownIncrementReference, ownDecrementReference, ownReleaseReferenceInt). *)
THEOREM MappedStayLive ==
  ASSUME EnoughSlots
  PROVE  Spec => []MappedObjectsLive
<1>1. IInv => MappedObjectsLive
  BY DEF IInv, CountInv
<1>2. QED
  BY <1>1, MapsInStep, PTL

=============================================================================
