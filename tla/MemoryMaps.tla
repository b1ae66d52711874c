----------------------------- MODULE MemoryMaps -----------------------------
(***************************************************************************)
(* The context's table of memory maps (vx_context.c) and the calls that    *)
(* map, unmap and overwrite the memory of images and arrays (vx_image.c,   *)
(* vx_array.c), made by threads that share the objects.                    *)
(*                                                                         *)
(* Mapping gives the application a buffer of its own, which is filled from *)
(* the object for reading and written back when it is unmapped; an image   *)
(* on memory of the application is mapped without a buffer.  The table has *)
(* a lock (memory_maps_lock), so what happens under it is one step; the    *)
(* memory of an object has a lock too, but is copied in parts.  The memory *)
(* was allocated before the object is shared.  A thread has one map.       *)
(***************************************************************************)
EXTENDS Naturals, FiniteSets, FiniteSetsExt

CONSTANTS
  Threads,
  Images, HandleImages, Arrays,  (* HandleImages: made by                  *)
                                 (* vxCreateImageFromHandle                *)
  NumSlots,   (* VX_INT_MAX_REF, the size of memory_maps                   *)
  Null

Objects == Images \cup HandleImages \cup Arrays
Slots == 0 .. NumSlots - 1
Usages == {"read", "write", "read_write"}

(* The parts of the memory that a step copies, and what is known of their  *)
(* contents: how many calls wrote them, odd or even.                       *)
Parts == 1 .. 2
Unwritten == [p \in Parts |-> 0]

(* An entry has one malloc'ed buffer at most: buffers are named after the  *)
(* entries.                                                                *)
NoBuffer == [used |-> FALSE, data |-> Unwritten]

ASSUME NamesAssumption ==
  /\ Images \cap HandleImages = {} /\ Arrays \cap (Images \cup HandleImages) = {}
  /\ Null \notin Threads \cup Objects \cup Slots
ASSUME SizesAssumption == IsFiniteSet(Threads) /\ NumSlots \in Nat

VARIABLES
  memory_maps,  (* the table                                               *)
  buffers,      (* malloc'ed buffers, those in use                         *)
  contents,     (* the memory of the objects                               *)
  lock,         (* memory.locks: who holds it                              *)
  external,     (* external_count of the objects                           *)
  alive,        (* objects that were not destroyed                         *)
  held,         (* per thread, the objects it has a reference to           *)
  map,          (* per thread, the map it has, is making or giving up      *)
  pc            (* per thread, where it is                                 *)

vars == <<memory_maps, buffers, contents, lock, external, alive, held, map, pc>>

Free == [used |-> FALSE, ref |-> Null, ptr |-> Null, usage |-> "read"]
NoMap == [object |-> Null, id |-> Null, ptr |-> Null, usage |-> "read"]

Reads(u) == u \in {"read", "read_write"}
Writes(u) == u \in {"write", "read_write"}

Goto(t, l) == pc' = [pc EXCEPT ![t] = l]

-----------------------------------------------------------------------------
(* The table. *)

Usable_ByBuffer(s) == memory_maps[s].ptr = Null   (* deviation *)
Usable(s) == ~memory_maps[s].used

(* ownMemoryMap(size): the first free entry, with a buffer if size is not  *)
(* zero.  A full table is a success that sets neither ptr nor map_id.      *)
MemoryMap(t, o, u, size) ==
  LET free == {s \in Slots : Usable(s)}
      id == Min(free)
      ptr == IF size = 0 THEN Null ELSE id
  IN IF free = {}
     THEN /\ map' = [map EXCEPT ![t] = [NoMap EXCEPT !.object = o, !.usage = u]]
          /\ UNCHANGED <<memory_maps, buffers>>
     ELSE /\ memory_maps' = [memory_maps EXCEPT
               ![id] = [used |-> TRUE, ref |-> o, ptr |-> ptr, usage |-> u]]
          /\ buffers' = IF size = 0 THEN buffers
                        ELSE [buffers EXCEPT ![id] = [NoBuffer EXCEPT !.used = TRUE]]
          /\ map' = [map EXCEPT ![t] = [object |-> o, id |-> id, ptr |-> ptr, usage |-> u]]

(* ownFindMemoryMap. *)
FindMemoryMap(o, id) == memory_maps[id].used /\ memory_maps[id].ref = o

(* ownMemoryUnmap: an entry without a buffer keeps what it says.           *)
MemoryUnmap(t, id) ==
  LET m == memory_maps[id] IN
  /\ IF m.used /\ m.ptr # Null
     THEN /\ buffers' = [buffers EXCEPT ![m.ptr] = NoBuffer]
          /\ memory_maps' = [memory_maps EXCEPT ![id] = Free]
     ELSE /\ memory_maps' = [memory_maps EXCEPT ![id].used = FALSE]
          /\ UNCHANGED buffers
  /\ map' = [map EXCEPT ![t] = NoMap]

-----------------------------------------------------------------------------
(* Locks and references of objects. *)

Unlocked_Always(o) == TRUE   (* deviation: the memory is not locked *)
Unlocked(o) == lock[o] = Null

Lock(t, o) == Unlocked(o) /\ lock' = [lock EXCEPT ![o] = t]
Unlock(o) == lock' = [lock EXCEPT ![o] = Null]

Referenced_Not(count) == count         (* deviation: a map takes no reference *)
Referenced(count) == count + 1

Increment(o) == external' = [external EXCEPT ![o] = Referenced(@)]

(* ownDecrementReference destroys nothing: an object that was released     *)
(* while it was mapped stays in the context's table.                       *)
Decrement(o) == external' = [external EXCEPT ![o] = @ - 1]

(* vxReleaseImage, vxReleaseArray. *)
Release(t, o) ==
  /\ pc[t] = "idle" /\ o \in held[t]
  /\ held' = [held EXCEPT ![t] = @ \ {o}]
  /\ Decrement(o)
  /\ alive' = IF external[o] = 1 THEN alive \ {o} ELSE alive
  /\ UNCHANGED <<memory_maps, buffers, contents, lock, map, pc>>

-----------------------------------------------------------------------------
(* vxMapImagePatch, vxMapArrayRange.  A thread that maps an object has a   *)
(* reference to it.  malloc may fail, which changes nothing.               *)

Map(t, o, u) ==
  /\ pc[t] = "idle" /\ map[t] = NoMap /\ o \in held[t]
  /\ MemoryMap(t, o, u, IF o \in HandleImages THEN 0 ELSE 1)
  /\ IF Reads(u) /\ o \notin HandleImages
     THEN Goto(t, "read_lock") /\ UNCHANGED external
     ELSE Increment(o) /\ UNCHANGED pc
  /\ UNCHANGED <<contents, lock, alive, held>>

ReadLock(t) ==
  /\ pc[t] = "read_lock"
  /\ Lock(t, map[t].object)
  /\ Goto(t, "read")
  /\ UNCHANGED <<memory_maps, buffers, contents, external, alive, held, map>>

(* The memcpy into the buffer (into no buffer, it is the end).             *)
Copied(p, t) == [buffers EXCEPT ![map[t].ptr].data[p] = contents[map[t].object][p]]

ReadFirst(t) ==
  /\ pc[t] = "read" /\ map[t].ptr # Null
  /\ buffers' = Copied(1, t)
  /\ Goto(t, "read_rest")
  /\ UNCHANGED <<memory_maps, contents, lock, external, alive, held, map>>

ReadRest(t) ==
  /\ pc[t] = "read_rest"
  /\ buffers' = Copied(2, t)
  /\ Increment(map[t].object)
  /\ Unlock(map[t].object)
  /\ Goto(t, "idle")
  /\ UNCHANGED <<memory_maps, contents, alive, held, map>>

-----------------------------------------------------------------------------
(* vxUnmapImagePatch, vxUnmapArrayRange: what the application wrote to the *)
(* buffer, over what it was filled with, is written back, in parts and     *)
(* under the object's lock.                                                *)

Unmap(t) ==
  LET m == map[t] IN
  /\ pc[t] = "idle" /\ m.id # Null /\ m.object \in alive
  /\ FindMemoryMap(m.object, m.id)
  /\ IF Writes(memory_maps[m.id].usage) /\ memory_maps[m.id].ptr # Null
     THEN /\ buffers' = [buffers EXCEPT ![memory_maps[m.id].ptr].data = Unwritten]
          /\ Goto(t, "commit_lock")
          /\ UNCHANGED <<memory_maps, external, map>>
     ELSE MemoryUnmap(t, m.id) /\ Decrement(m.object) /\ UNCHANGED pc
  /\ UNCHANGED <<contents, lock, alive, held>>

CommitLock(t) ==
  /\ pc[t] = "commit_lock"
  /\ Lock(t, map[t].object)
  /\ Goto(t, "commit")
  /\ UNCHANGED <<memory_maps, buffers, contents, external, alive, held, map>>

Written(o, p) == contents' = [contents EXCEPT ![o][p] = 1 - @]

CommitFirst(t) ==
  /\ pc[t] = "commit"
  /\ Written(map[t].object, 1)
  /\ Goto(t, "commit_rest")
  /\ UNCHANGED <<memory_maps, buffers, lock, external, alive, held, map>>

(* An array's map is given up before its lock, an image's after.           *)
CommitRest(t) ==
  /\ pc[t] = "commit_rest"
  /\ Written(map[t].object, 2)
  /\ Unlock(map[t].object)
  /\ IF map[t].object \in Arrays
     THEN MemoryUnmap(t, map[t].id) /\ Decrement(map[t].object) /\ Goto(t, "idle")
     ELSE Goto(t, "give_up") /\ UNCHANGED <<memory_maps, buffers, external, map>>
  /\ UNCHANGED <<alive, held>>

GiveUp(t) ==
  /\ pc[t] = "give_up"
  /\ MemoryUnmap(t, map[t].id) /\ Decrement(map[t].object)
  /\ Goto(t, "idle")
  /\ UNCHANGED <<contents, lock, alive, held>>

-----------------------------------------------------------------------------
(* vxCopyImagePatch, vxCopyArrayRange for writing, by a thread without a   *)
(* map: the object is kept in map while the call lasts.                    *)

Copy(t, o) ==
  /\ pc[t] = "idle" /\ map[t] = NoMap /\ o \in held[t]
  /\ Lock(t, o)
  /\ map' = [map EXCEPT ![t].object = o]
  /\ Goto(t, "copy")
  /\ UNCHANGED <<memory_maps, buffers, contents, external, alive, held>>

CopyFirst(t) ==
  /\ pc[t] = "copy"
  /\ Written(map[t].object, 1)
  /\ Goto(t, "copy_rest")
  /\ UNCHANGED <<memory_maps, buffers, lock, external, alive, held, map>>

CopyRest(t) ==
  /\ pc[t] = "copy_rest"
  /\ Written(map[t].object, 2)
  /\ Unlock(map[t].object)
  /\ map' = [map EXCEPT ![t] = NoMap]
  /\ Goto(t, "idle")
  /\ UNCHANGED <<memory_maps, buffers, external, alive, held>>

Init ==
  /\ memory_maps = [s \in Slots |-> Free]
  /\ buffers = [s \in Slots |-> NoBuffer]
  /\ contents = [o \in Objects |-> Unwritten]
  /\ lock = [o \in Objects |-> Null]
  /\ external = [o \in Objects |-> Cardinality(Threads)]
  /\ alive = Objects
  /\ held = [t \in Threads |-> Objects]
  /\ map = [t \in Threads |-> NoMap]
  /\ pc = [t \in Threads |-> "idle"]

Next ==
  \E t \in Threads :
    \/ \E o \in Objects : Release(t, o) \/ Copy(t, o) \/ \E u \in Usages : Map(t, o, u)
    \/ ReadLock(t) \/ ReadFirst(t) \/ ReadRest(t)
    \/ Unmap(t) \/ CommitLock(t) \/ CommitFirst(t) \/ CommitRest(t) \/ GiveUp(t)
    \/ CopyFirst(t) \/ CopyRest(t)

Spec == Init /\ [][Next]_vars

-----------------------------------------------------------------------------
(* Properties. *)

Entry == [used : BOOLEAN, ref : Objects \cup {Null}, ptr : Slots \cup {Null}, usage : Usages]
Buffer == [used : BOOLEAN, data : [Parts -> 0 .. 1]]
MapOfThread == [object : Objects \cup {Null}, id : Slots \cup {Null},
                ptr : Slots \cup {Null}, usage : Usages]

TypeOK ==
  /\ memory_maps \in [Slots -> Entry]
  /\ buffers \in [Slots -> Buffer]
  /\ contents \in [Objects -> [Parts -> 0 .. 1]]
  /\ lock \in [Objects -> Threads \cup {Null}]
  /\ external \in [Objects -> Nat]
  /\ alive \subseteq Objects
  /\ held \in [Threads -> SUBSET Objects]
  /\ map \in [Threads -> MapOfThread]
  /\ pc \in [Threads -> {"idle", "read_lock", "read", "read_rest", "commit_lock", "commit",
                         "commit_rest", "give_up", "copy", "copy_rest"}]

Mapping(t) == map[t].object # Null /\ pc[t] \notin {"copy", "copy_rest"}

(* The references to an object: those of the threads, and those of their   *)
(* maps once they are filled.                                              *)
Holders(o) == {t \in Threads : o \in held[t]}
Mappers(o) == {t \in Threads : Mapping(t) /\ map[t].object = o
                                 /\ pc[t] \notin {"read_lock", "read", "read_rest"}}

(* What a thread was told is its map is an entry of the table, which says  *)
(* so, and which no other thread has; and the entries and the buffers in   *)
(* use are those of the threads' maps: none is lost, none is freed early,  *)
(* and stale entries of images on the application's memory mislead nobody. *)
MapsAreEntries ==
  /\ TypeOK
  /\ \A t \in Threads : Mapping(t) =>
       LET m == map[t] IN
       m.id # Null /\ memory_maps[m.id] = [used |-> TRUE, ref |-> m.object,
                                           ptr |-> m.ptr, usage |-> m.usage]
  /\ \A t, u \in Threads : t # u /\ Mapping(t) /\ Mapping(u) => map[t].id # map[u].id
  /\ {s \in Slots : memory_maps[s].used} = {map[t].id : t \in {u \in Threads : Mapping(u)}}
  /\ {s \in Slots : buffers[s].used} =
       {memory_maps[s].ptr : s \in {r \in Slots : memory_maps[r].used}} \ {Null}

(* "lock image plane even for read access to avoid mix of simultaneous     *)
(* read/write": what a map was filled with was written by one call.        *)
ReadsAreWhole ==
  \A t \in Threads :
    pc[t] = "idle" /\ map[t].ptr # Null /\ Reads(map[t].usage) =>
      buffers[map[t].ptr].data[1] = buffers[map[t].ptr].data[2]

(* An object that is mapped, or that a thread is working on, is there,     *)
(* whoever released it in the meantime: the references are the threads'    *)
(* and their maps'.                                                        *)
MappedObjectsLive ==
  /\ \A t \in Threads : map[t].object # Null => map[t].object \in alive
  /\ \A o \in alive : external[o] = Cardinality(Holders(o)) + Cardinality(Mappers(o))
=============================================================================
