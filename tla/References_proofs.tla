--------------------------- MODULE References_proofs ---------------------------
(***************************************************************************)
(* The safety properties of References, for every set of threads and of    *)
(* objects and every size of the table.                                    *)
(*                                                                         *)
(* IInv is the inductive invariant.  Beside what the properties say it     *)
(* says why each entry of a call's list is there (Reason), what shape the  *)
(* lists have, which objects may refer to which, and what the collection   *)
(* of vxReleaseContext has done so far.  One lemma per action says that it *)
(* preserves IInv.  They rest on lemmas that count: how often something is *)
(* to be done (Often), how many references the application has (Hands) and *)
(* how many objects refer to one (Holders), and how a step changes that.   *)
(***************************************************************************)
EXTENDS References, FiniteSetTheorems, FunctionTheorems, SequenceTheorems,
        NaturalsInduction, WellFoundedInduction, TLAPS
(* How often such things are to be done, how many references the           *)
(* application has to an object, and how many other objects.               *)
Often(d, things) ==
  Cardinality({l \in UNION {{t} \X DOMAIN d[t] : t \in Threads} : d[l[1]][l[2]] \in things})
Hands(h, o) == Cardinality({l \in Threads \X (1 .. MaxHandles) : l[2] <= h[l[1]][o]})
Holders(r, o, kind) == Cardinality({p \in Objects : <<p, o>> \in r /\ HeldKind(p) = kind})

(* Such things.                                                            *)
Decrements(o, kind) == {Decrement(o, kind)}
TakeOuts(o) == {TakeOut(o)}
Frees(o) == {Release(o)}
Destructs(g) == {DestructGraph(g)}
IncrementsOf(o) == {Increment(n, o) : n \in Nodes}
IncrementsBy(n) == {Increment(n, o) : o \in Parameters}

(* How a list of things to do is built: destructors put theirs in front.   *)
Shape(q) ==
  \A i \in DOMAIN q :
    /\ q[i].do = "take out" => i = 1
    /\ q[i].do = "item" => Len(q) = 1
    /\ q[i].do = "node" => i < Len(q) /\ q[i + 1].do = "graph"
    /\ q[i].do = "graph" => i < Len(q) /\ q[i + 1] = Release(q[i].ref)
    /\ q[i].do = "collect" => i = Len(q)

(* Why a thread has something to do: what it releases or takes out exists, *)
(* it counts a parameter of a node that it has as the API asks, it owns    *)
(* the array, the object was destroyed.  With h, r, p, c for handles,      *)
(* holds, phase, context.                                                  *)
Reason(h, r, p, c, t, x) ==
  /\ x.do \in {"decrement", "take out"} /\ p[x.ref] # "live" => c = "collecting" /\ x.ref \in Items
  /\ x.do = "decrement" /\ x.ref \in Items => x.kind = "external"
  /\ x.do = "increment" =>
       /\ h[t][x.ref] > 0 /\ h[t][x.by] > 0 /\ <<x.by, x.ref>> \in r
       /\ \A g \in Graphs : <<g, x.by>> \in r => h[t][g] > 0
  /\ x.do = "item" => h[t][x.ref] > 0
  /\ x.do \in {"free", "graph"} => p[x.ref] \in {"dying", "freed"}
  /\ x.do = "collect" => c = "collecting" /\ x.slot > 0

TodoInv ==
  \A t \in Threads :
    /\ Shape(todo[t])
    /\ \A i \in DOMAIN todo[t] :
         /\ Reason(handles, holds, phase, context, t, todo[t][i])
         /\ todo[t][i].do = "node" => <<todo[t][i + 1].ref, todo[t][i].ref>> \in holds

(* What is to be done once.                                                *)
OnceInv ==
  /\ \A o \in Objects : Often(todo, TakeOuts(o)) <= 1 /\ Often(todo, Frees(o)) <= 1
  /\ \A n \in Nodes : Often(todo, IncrementsBy(n)) <= 1

(* The types of those that refer to each other; both exist, but a graph    *)
(* that is destroyed gives up its nodes one by one, and an object array    *)
(* may lose its items while the context collects its objects.              *)
HoldsInv ==
  /\ \A a, b \in Objects : <<a, b>> \in holds =>
       /\ \/ a \in Graphs /\ b \in Nodes
          \/ a \in Nodes /\ b \in Parameters
          \/ a \in Regions /\ b \in Images \cup Regions
          \/ a \in Arrays /\ b \in Items
       /\ phase[a] # "live" => a \in Graphs /\ Often(todo, Destructs(a)) > 0
       /\ phase[b] # "live" => context = "collecting" /\ a \in Arrays
  /\ \A n \in Nodes, g, k \in Graphs : <<g, n>> \in holds /\ <<k, n>> \in holds => g = k

(* No image is a part of itself.                                           *)
PartsInv ==
  \A S \in (SUBSET Regions) \ {{}} : \E r \in S : \A p \in S : <<p, r>> \notin holds

(* The application refers to what exists.                                  *)
HandlesInv ==
  \A t \in Threads, o \in Objects : handles[t][o] > 0 => phase[o] = "live"

(* The counts of an object.                                                *)
CountOf(o) ==
  /\ phase[o] = "none" => internal[o] = 0
  /\ phase[o] = "live" =>
       /\ context = "live" =>
            external[o] = Hands(handles, o) + Holders(holds, o, "external")
                           + Often(todo, Decrements(o, "external"))
       /\ internal[o] + Often(todo, IncrementsOf(o))
            = Holders(holds, o, "internal") + Often(todo, Decrements(o, "internal"))
       /\ external[o] + internal[o] = 0 <=> Often(todo, TakeOuts(o)) > 0
  /\ phase[o] = "dying" => Often(todo, Frees(o)) > 0

CountInv == \A o \in Objects : CountOf(o)

(* While the context collects its objects: one thread does, and every      *)
(* external reference it has passed is gone or is the one it gives up.     *)
CollectInv ==
  /\ context # "live" =>
       /\ \A t \in Threads, o \in Objects : handles[t][o] = 0
       /\ \A t, u \in Threads : todo[t] # <<>> /\ todo[u] # <<>> => t = u
  /\ context = "collecting" =>
       /\ \E t \in Threads : todo[t] # <<>> /\ todo[t][Len(todo[t])].do = "collect"
       /\ \A t \in Threads : \A i \in DOMAIN todo[t] :
            LET x == todo[t][i] IN
            /\ x.do = "decrement" /\ x.kind = "external" /\ x.ref \notin Items =>
                 i = 1 /\ external[x.ref] > 0
            /\ x.do = "collect" =>
                 \A s \in Slots : s < x.slot /\ reftable[s] # Null /\ external[reftable[s]] # 0 =>
                   external[reftable[s]] = 1 /\ todo[t][1] = Decrement(reftable[s], "external")
  /\ context = "gone" =>
       /\ \A t \in Threads : todo[t] = <<>>
       /\ \A o \in Objects : phase[o] \in {"none", "freed"}

(* The table has the objects that are live.                                *)
TableInv ==
  /\ \A o \in Objects : Cardinality(Entry(o)) = (IF phase[o] = "live" THEN 1 ELSE 0)
  /\ num_references = Cardinality({s \in Slots : reftable[s] # Null})

IInv ==
  /\ TypeOK /\ TableInv /\ TodoInv /\ OnceInv /\ HoldsInv /\ PartsInv
  /\ HandlesInv /\ CountInv /\ CollectInv

-----------------------------------------------------------------------------
(* Things to do. *)

(* What the fields of things are, and that they tell them apart.           *)
LEMMA ThingsAre ==
  /\ \A o, k : /\ Decrement(o, k).do = "decrement"
               /\ Decrement(o, k).ref = o /\ Decrement(o, k).kind = k
  /\ \A n, o : /\ Increment(n, o).do = "increment"
               /\ Increment(n, o).ref = o /\ Increment(n, o).by = n
  /\ \A o : TakeOut(o).do = "take out" /\ TakeOut(o).ref = o
  /\ \A o : Release(o).do = "free" /\ Release(o).ref = o
  /\ \A o : DestructGraph(o).do = "graph" /\ DestructGraph(o).ref = o
  /\ \A o : RemoveNodeInt(o).do = "node" /\ RemoveNodeInt(o).ref = o
  /\ \A a, i : InitItem(a, i).do = "item" /\ InitItem(a, i).ref = a /\ InitItem(a, i).item = i
  /\ \A s : Collect(s).do = "collect" /\ Collect(s).slot = s
  BY DEF Decrement, Increment, TakeOut, Release, DestructGraph, RemoveNodeInt, InitItem, Collect

(* Each thing is one of these.                                             *)
LEMMA ThingsOf ==
  ASSUME NEW x \in Things
  PROVE  /\ x.do \in {"decrement", "increment", "take out", "free", "graph", "node", "item", "collect"}
         /\ x.do = "decrement" => x.ref \in Objects /\ x.kind \in Kinds /\ x = Decrement(x.ref, x.kind)
         /\ x.do = "increment" => x.ref \in Parameters /\ x.by \in Nodes /\ x = Increment(x.by, x.ref)
         /\ x.do = "take out" => x.ref \in Objects /\ x = TakeOut(x.ref)
         /\ x.do = "free" => x.ref \in Objects /\ x = Release(x.ref)
         /\ x.do = "graph" => x.ref \in Graphs /\ x = DestructGraph(x.ref)
         /\ x.do = "node" => x.ref \in Nodes /\ x = RemoveNodeInt(x.ref)
         /\ x.do = "item" => x.ref \in Arrays /\ x.item \in Items /\ x = InitItem(x.ref, x.item)
         /\ x.do = "collect" => x.slot \in Nat /\ x = Collect(x.slot)
  BY DEF Things, Decrement, Increment, TakeOut, Release, DestructGraph, RemoveNodeInt, InitItem, Collect

(* They have their types.                                                  *)
LEMMA ThingsTyped ==
  /\ \A o \in Objects, k \in Kinds : Decrement(o, k) \in Things
  /\ \A o \in Parameters, n \in Nodes : Increment(n, o) \in Things
  /\ \A o \in Objects : TakeOut(o) \in Things /\ Release(o) \in Things
  /\ \A g \in Graphs : DestructGraph(g) \in Things
  /\ \A n \in Nodes : RemoveNodeInt(n) \in Things
  /\ \A a \in Arrays, i \in Items : InitItem(a, i) \in Things
  /\ \A s \in Nat : Collect(s) \in Things
  BY DEF Things, Decrement, Increment, TakeOut, Release, DestructGraph, RemoveNodeInt, InitItem, Collect

-----------------------------------------------------------------------------
(* How often something is on a list. *)

Count(q, things) == Cardinality({i \in DOMAIN q : q[i] \in things})
In(x, things) == IF x \in things THEN 1 ELSE 0

(* A list is finite.                                                       *)
LEMMA CountIsNat ==
  ASSUME NEW q \in Seq(Things), NEW W
  PROVE  IsFiniteSet({i \in DOMAIN q : q[i] \in W}) /\ Count(q, W) \in Nat
<1>1. DOMAIN q = 1 .. Len(q) /\ Len(q) \in Nat
  OBVIOUS
<1>2. IsFiniteSet(DOMAIN q)
  BY <1>1, FS_Interval
<1>3. IsFiniteSet({i \in DOMAIN q : q[i] \in W})
  BY <1>2, FS_Subset
<1>4. QED
  BY <1>3, FS_CardinalityType DEF Count

(* Two lists, one after the other.                                         *)
LEMMA CountOfConcat ==
  ASSUME NEW q \in Seq(Things), NEW r \in Seq(Things), NEW W
  PROVE  Count(q \o r, W) = Count(q, W) + Count(r, W)
<1> DEFINE A == {i \in DOMAIN q : q[i] \in W}
           B == {i \in DOMAIN r : r[i] \in W}
           C == {i \in DOMAIN (q \o r) : (q \o r)[i] \in W}
           D == C \ A
           f == [i \in B |-> i + Len(q)]
<1>1. /\ DOMAIN q = 1 .. Len(q) /\ Len(q) \in Nat
      /\ DOMAIN r = 1 .. Len(r) /\ Len(r) \in Nat
  OBVIOUS
<1>2. /\ q \o r \in Seq(Things) /\ Len(q \o r) = Len(q) + Len(r)
      /\ DOMAIN (q \o r) = 1 .. Len(q) + Len(r)
      /\ \A i \in 1 .. Len(q) : (q \o r)[i] = q[i]
      /\ \A i \in Len(q) + 1 .. Len(q) + Len(r) : (q \o r)[i] = r[i - Len(q)]
  BY <1>1
<1>3. A \subseteq C
  BY <1>1, <1>2
<1>4. D = {i \in Len(q) + 1 .. Len(q) + Len(r) : r[i - Len(q)] \in W}
  BY <1>1, <1>2
<1>5. f \in [B -> D]
  BY <1>1, <1>4
<1>6. \A i, j \in B : f[i] = f[j] => i = j
  BY <1>1
<1>7. \A d \in D : \E i \in B : f[i] = d
  <2> SUFFICES ASSUME NEW d \in D PROVE d - Len(q) \in B /\ f[d - Len(q)] = d
    OBVIOUS
  <2>1. QED
    BY <1>1, <1>4
<1>9. IsFiniteSet(A) /\ IsFiniteSet(B) /\ IsFiniteSet(C)
  BY <1>2, CountIsNat
<1> HIDE DEF f, A, B, C, D
<1>8. ExistsBijection(B, D)
  <2>1. f \in Injection(B, D) /\ f \in Surjection(B, D)
    BY <1>5, <1>6, <1>7 DEF Injection, Surjection, IsInjective
  <2>2. QED
    BY <2>1 DEF ExistsBijection, Bijection
<1>10. Cardinality(D) = Cardinality(B)
  BY <1>8, <1>9, FS_Bijection
<1>11. C \cap A = A
  BY <1>3
<1>12. Cardinality(D) = Cardinality(C) - Cardinality(A)
  BY <1>9, <1>11, FS_Difference DEF D
<1>13. Cardinality(A) \in Nat /\ Cardinality(B) \in Nat /\ Cardinality(C) \in Nat
  BY <1>9, FS_CardinalityType
<1>14. Count(q, W) = Cardinality(A) /\ Count(r, W) = Cardinality(B) /\ Count(q \o r, W) = Cardinality(C)
  BY DEF Count, A, B, C
<1>15. Cardinality(C) = Cardinality(A) + Cardinality(B)
  BY <1>10, <1>12, <1>13
<1>16. QED
  BY <1>14, <1>15, Zenon

(* Short lists.                                                            *)
LEMMA CountOfShort ==
  ASSUME NEW W
  PROVE  /\ Count(<<>>, W) = 0
         /\ \A x \in Things : Count(<<x>>, W) = In(x, W)
         /\ \A x, y \in Things : Count(<<x, y>>, W) = In(x, W) + In(y, W)
         /\ \A x, y, z \in Things : Count(<<x, y, z>>, W) = In(x, W) + In(y, W) + In(z, W)
<1>1. Count(<<>>, W) = 0
  <2>1. {i \in DOMAIN <<>> : (<<>>)[i] \in W} = {}
    OBVIOUS
  <2>2. QED
    BY <2>1, FS_EmptySet DEF Count
<1>2. ASSUME NEW x \in Things PROVE Count(<<x>>, W) = In(x, W)
  <2>1. {i \in DOMAIN <<x>> : (<<x>>)[i] \in W} = IF x \in W THEN {1} ELSE {}
    OBVIOUS
  <2>2. QED
    BY <2>1, FS_EmptySet, FS_Singleton DEF Count, In
<1>3. ASSUME NEW x \in Things, NEW y \in Things
      PROVE  Count(<<x, y>>, W) = In(x, W) + In(y, W)
  <2>1. <<x>> \in Seq(Things) /\ <<y>> \in Seq(Things)
    OBVIOUS
  <2>2. <<x, y>> = <<x>> \o <<y>>
    <3>1. <<x, y>> \in Seq(Things) /\ Len(<<x, y>>) = 2
      OBVIOUS
    <3>2. /\ <<x>> \o <<y>> \in Seq(Things) /\ Len(<<x>> \o <<y>>) = 2
          /\ (<<x>> \o <<y>>)[1] = x /\ (<<x>> \o <<y>>)[2] = y
      BY <2>1
    <3> DEFINE a == <<x, y>>
               b == <<x>> \o <<y>>
    <3>3. /\ a \in Seq(Things) /\ b \in Seq(Things) /\ Len(a) = Len(b)
          /\ \A i \in 1 .. Len(a) : a[i] = b[i]
      <4>1. \A i \in 1 .. 2 : i = 1 \/ i = 2
        OBVIOUS
      <4>2. QED
        BY <3>1, <3>2, <4>1
    <3> HIDE DEF a, b
    <3>4. a = b
      BY <3>3, SeqEqual
    <3>5. QED
      BY <3>4 DEF a, b
  <2>3. Count(<<x>> \o <<y>>, W) = Count(<<x>>, W) + Count(<<y>>, W)
    BY <2>1, CountOfConcat
  <2>4. QED
    BY <1>2, <2>2, <2>3
<1>4. ASSUME NEW x \in Things, NEW y \in Things, NEW z \in Things
      PROVE  Count(<<x, y, z>>, W) = In(x, W) + In(y, W) + In(z, W)
  <2>1. <<x>> \in Seq(Things) /\ <<y, z>> \in Seq(Things)
    OBVIOUS
  <2>2. <<x, y, z>> = <<x>> \o <<y, z>>
    OBVIOUS
  <2>3. Count(<<x>> \o <<y, z>>, W) = Count(<<x>>, W) + Count(<<y, z>>, W)
    BY <2>1, CountOfConcat
  <2>4. Count(<<x>>, W) = In(x, W) /\ Count(<<y, z>>, W) = In(y, W) + In(z, W)
    BY <1>2, <1>3
  <2>5. In(x, W) \in Nat /\ In(y, W) \in Nat /\ In(z, W) \in Nat
    BY DEF In
  <2>6. Count(<<x, y, z>>, W) = In(x, W) + (In(y, W) + In(z, W))
    BY <2>2, <2>3, <2>4, Zenon
  <2>7. QED
    BY <2>5, <2>6
<1>5. QED
  BY <1>1, <1>2, <1>3, <1>4

(* A list is its head and the rest.                                        *)
LEMMA HeadAndTail ==
  ASSUME NEW q \in Seq(Things), q # <<>>
  PROVE  /\ Head(q) = q[1] /\ Head(q) \in Things /\ Tail(q) \in Seq(Things)
         /\ q = <<Head(q)>> \o Tail(q)
         /\ Len(q) \in Nat \ {0} /\ DOMAIN q = 1 .. Len(q) /\ Len(Tail(q)) = Len(q) - 1
         /\ \A i \in 1 .. Len(q) - 1 : Tail(q)[i] = q[i + 1]
<1>1. /\ Head(q) = q[1] /\ Head(q) \in Things /\ Tail(q) \in Seq(Things)
      /\ Len(q) \in Nat \ {0} /\ DOMAIN q = 1 .. Len(q) /\ Len(Tail(q)) = Len(q) - 1
      /\ \A i \in 1 .. Len(q) - 1 : Tail(q)[i] = q[i + 1]
  OBVIOUS
<1>2. q = <<Head(q)>> \o Tail(q)
  <2>1. <<Head(q)>> \o Tail(q) \in Seq(Things) /\ Len(<<Head(q)>> \o Tail(q)) = Len(q)
    BY <1>1
  <2>2. \A i \in 1 .. Len(q) : (<<Head(q)>> \o Tail(q))[i] = q[i]
    BY <1>1
  <2>3. QED
    BY <2>1, <2>2, SeqEqual
<1>3. QED
  BY <1>1, <1>2

(* A list r whose first thing is done, with more in front of the rest.     *)
After(q, more, r) ==
  /\ r \in Seq(Things) /\ Len(r) = Len(more) + Len(q) - 1
  /\ DOMAIN r = 1 .. Len(r) /\ Len(r) \in Nat /\ Len(more) \in Nat
  /\ DOMAIN q = 1 .. Len(q) /\ Len(q) \in Nat \ {0}
  /\ \A i \in 1 .. Len(more) : r[i] = more[i]
  /\ \A i \in Len(more) + 1 .. Len(r) : r[i] = q[i - Len(more) + 1]

(* What comes of a list when its head is done and more is put in front.    *)
LEMMA Continued ==
  ASSUME NEW q \in Seq(Things), q # <<>>, NEW more \in Seq(Things)
  PROVE  /\ After(q, more, more \o Tail(q))
         /\ \A W : Count(more \o Tail(q), W) = Count(q, W) - In(q[1], W) + Count(more, W)
<1> DEFINE r == more \o Tail(q)
<1>1. /\ Head(q) = q[1] /\ Head(q) \in Things /\ Tail(q) \in Seq(Things)
      /\ Len(q) \in Nat \ {0} /\ Len(Tail(q)) = Len(q) - 1 /\ DOMAIN q = 1 .. Len(q)
      /\ \A i \in 1 .. Len(q) - 1 : Tail(q)[i] = q[i + 1]
      /\ q = <<Head(q)>> \o Tail(q)
  BY HeadAndTail
<1>2. /\ r \in Seq(Things) /\ Len(r) = Len(more) + Len(q) - 1
      /\ DOMAIN r = 1 .. Len(r) /\ Len(r) \in Nat /\ Len(more) \in Nat
  BY <1>1
<1>3. \A i \in 1 .. Len(more) : r[i] = more[i]
  BY <1>1, <1>2
<1>4. ASSUME NEW i \in Len(more) + 1 .. Len(r)
      PROVE  r[i] = q[i - Len(more) + 1]
  <2>1. i - Len(more) \in 1 .. Len(q) - 1
    BY <1>1, <1>2
  <2>2. r[i] = Tail(q)[i - Len(more)]
    BY <1>1, <1>2, <2>1
  <2>3. QED
    BY <1>1, <2>1, <2>2
<1>5. ASSUME NEW W PROVE Count(r, W) = Count(q, W) - In(q[1], W) + Count(more, W)
  <2>1. Count(r, W) = Count(more, W) + Count(Tail(q), W)
    BY <1>1, CountOfConcat
  <2>2. <<Head(q)>> \in Seq(Things)
    BY <1>1
  <2>3. Count(<<Head(q)>> \o Tail(q), W) = Count(<<Head(q)>>, W) + Count(Tail(q), W)
    BY <1>1, <2>2, CountOfConcat
  <2>4. Count(<<Head(q)>>, W) = In(q[1], W)
    BY <1>1, CountOfShort
  <2>5. Count(q, W) \in Nat /\ Count(Tail(q), W) \in Nat /\ Count(more, W) \in Nat
    BY <1>1, CountIsNat
  <2>6. Count(q, W) = Count(<<Head(q)>>, W) + Count(Tail(q), W)
    BY <1>1, <2>3
  <2>7. In(q[1], W) \in Nat
    BY DEF In
  <2>8. QED
    BY <2>1, <2>4, <2>5, <2>6, <2>7
<1> HIDE DEF r
<1>6. After(q, more, r)
  BY <1>1, <1>2, <1>3, <1>4 DEF After
<1>7. QED
  BY <1>5, <1>6 DEF r

(* When a thread's list changes, so does how often something is to be done *)
(* in all.                                                                 *)
LEMMA Counting ==
  ASSUME NEW c \in [Threads -> Seq(Things)], NEW t \in Threads, NEW q \in Seq(Things), NEW W
  PROVE  /\ Often(c, W) \in Nat
         /\ Often([c EXCEPT ![t] = q], W) = Often(c, W) - Count(c[t], W) + Count(q, W)
<1> DEFINE e == [c EXCEPT ![t] = q]
           P(d) == {l \in UNION {{u} \X DOMAIN d[u] : u \in Threads} : d[l[1]][l[2]] \in W}
           Others == {l \in P(c) : l[1] # t}
           Mine(d) == {l \in {t} \X DOMAIN d[t] : d[l[1]][l[2]] \in W}
<1>1. e \in [Threads -> Seq(Things)] /\ e[t] = q /\ \A u \in Threads \ {t} : e[u] = c[u]
  OBVIOUS
<1>2. ASSUME NEW d \in [Threads -> Seq(Things)]
      PROVE  /\ IsFiniteSet(P(d))
             /\ IsFiniteSet(Mine(d)) /\ Cardinality(Mine(d)) = Count(d[t], W)
             /\ P(d) = {l \in P(d) : l[1] # t} \cup Mine(d)
  <2>1. \A u \in Threads : d[u] \in Seq(Things) /\ DOMAIN d[u] = 1 .. Len(d[u]) /\ Len(d[u]) \in Nat
    BY LenProperties
  <2>2. ASSUME NEW u \in Threads
        PROVE  IsFiniteSet({u} \X DOMAIN d[u])
    <3>1. IsFiniteSet({u})
      BY FS_Singleton
    <3>3. IsFiniteSet(1 .. Len(d[u]))
      BY <2>1, FS_Interval
    <3>2. QED
      BY <2>1, <3>1, <3>3, FS_Product
  <2>3. IsFiniteSet({{u} \X DOMAIN d[u] : u \in Threads})
    <3> DEFINE T == {{u} \X DOMAIN d[u] : u \in Threads}
               g == [u \in Threads |-> {u} \X DOMAIN d[u]]
    <3>1. g \in [Threads -> T] /\ \A x \in T : \E u \in Threads : g[u] = x
      OBVIOUS
    <3> HIDE DEF T, g
    <3>2. g \in Surjection(Threads, T)
      BY <3>1 DEF Surjection
    <3>3. IsFiniteSet(T)
      BY <3>2, ObjectsAssumption, FS_Surjection
    <3>4. QED
      BY <3>3 DEF T
  <2>4. IsFiniteSet(UNION {{u} \X DOMAIN d[u] : u \in Threads})
    BY <2>2, <2>3, FS_UNION
  <2>5. IsFiniteSet(P(d))
    BY <2>4, FS_Subset
  <2>6. IsFiniteSet(Mine(d)) /\ Cardinality(Mine(d)) = Count(d[t], W)
    <3> DEFINE A == {i \in DOMAIN d[t] : d[t][i] \in W}
               f == [i \in A |-> <<t, i>>]
    <3>1. f \in [A -> Mine(d)] /\ \A i, j \in A : f[i] = f[j] => i = j
      OBVIOUS
    <3>2. \A l \in Mine(d) : l[2] \in A /\ f[l[2]] = l
      OBVIOUS
    <3>3. d[t] \in Seq(Things)
      OBVIOUS
    <3>4. IsFiniteSet(A)
      BY <3>3, CountIsNat
    <3> DEFINE M == Mine(d)
    <3> HIDE DEF f, A, M
    <3>5. f \in Injection(A, M) /\ f \in Surjection(A, M)
      BY <3>1, <3>2 DEF Injection, Surjection, IsInjective, M
    <3>6. ExistsBijection(A, M)
      BY <3>5 DEF ExistsBijection, Bijection
    <3>7. QED
      BY <3>4, <3>6, FS_Bijection DEF Count, A, M
  <2>7. P(d) = {l \in P(d) : l[1] # t} \cup Mine(d)
    OBVIOUS
  <2>8. QED
    BY <2>5, <2>6, <2>7
<1> HIDE DEF e
<1>3. {l \in P(e) : l[1] # t} = Others
  BY <1>1
<1>4. Often(c, W) = Cardinality(P(c)) /\ Often(e, W) = Cardinality(P(e))
  BY DEF Often
<1>5. /\ P(c) = Others \cup Mine(c) /\ IsFiniteSet(Mine(c)) /\ IsFiniteSet(P(c))
      /\ Cardinality(Mine(c)) = Count(c[t], W)
  BY <1>2
<1>6. /\ P(e) = Others \cup Mine(e) /\ IsFiniteSet(Mine(e)) /\ IsFiniteSet(P(e))
      /\ Cardinality(Mine(e)) = Count(q, W)
  BY <1>1, <1>2, <1>3
<1>7. Others \cap Mine(c) = {} /\ Others \cap Mine(e) = {}
  OBVIOUS
<1>8. IsFiniteSet(Others)
  BY <1>5, FS_Subset
<1> HIDE DEF P, Others, Mine
<1>9. /\ Cardinality(P(c)) = Cardinality(Others) + Cardinality(Mine(c)) - Cardinality({})
      /\ Cardinality(P(e)) = Cardinality(Others) + Cardinality(Mine(e)) - Cardinality({})
  <2>1. /\ Cardinality(Others \cup Mine(c)) = Cardinality(Others) + Cardinality(Mine(c))
                                                   - Cardinality(Others \cap Mine(c))
        /\ Cardinality(Others \cup Mine(e)) = Cardinality(Others) + Cardinality(Mine(e))
                                                    - Cardinality(Others \cap Mine(e))
    BY <1>5, <1>6, <1>8, FS_Union
  <2>2. QED
    BY <1>5, <1>6, <1>7, <2>1
<1>10. /\ Cardinality({}) = 0 /\ Cardinality(Others) \in Nat
       /\ Cardinality(Mine(c)) \in Nat /\ Cardinality(Mine(e)) \in Nat
  BY <1>5, <1>6, <1>8, FS_EmptySet, FS_CardinalityType
<1>11. Often(c, W) \in Nat /\ Often(e, W) = Often(c, W) - Count(c[t], W) + Count(q, W)
  BY <1>4, <1>5, <1>6, <1>9, <1>10
<1>12. QED
  BY <1>11 DEF e

(* What is to be done in all is finite, positive when something is to be   *)
(* done, and what is to be done once is in one place.                      *)
LEMMA OftenIs ==
  ASSUME NEW c \in [Threads -> Seq(Things)], NEW W
  PROVE  /\ Often(c, W) \in Nat
         /\ Often(c, W) > 0 <=> \E t \in Threads : \E i \in DOMAIN c[t] : c[t][i] \in W
         /\ Often(c, W) <= 1 =>
              \A t, u \in Threads : \A i \in DOMAIN c[t], j \in DOMAIN c[u] :
                c[t][i] \in W /\ c[u][j] \in W => t = u /\ i = j
<1> DEFINE P == {l \in UNION {{t} \X DOMAIN c[t] : t \in Threads} : c[l[1]][l[2]] \in W}
<1>1. IsFiniteSet(P)
  <2>1. \A u \in Threads : c[u] \in Seq(Things) /\ DOMAIN c[u] = 1 .. Len(c[u]) /\ Len(c[u]) \in Nat
    BY LenProperties
  <2>2. ASSUME NEW u \in Threads
        PROVE  IsFiniteSet({u} \X DOMAIN c[u])
    <3>1. IsFiniteSet({u})
      BY FS_Singleton
    <3>3. IsFiniteSet(1 .. Len(c[u]))
      BY <2>1, FS_Interval
    <3>2. QED
      BY <2>1, <3>1, <3>3, FS_Product
  <2> DEFINE T == {{u} \X DOMAIN c[u] : u \in Threads}
             g == [u \in Threads |-> {u} \X DOMAIN c[u]]
  <2>3. g \in [Threads -> T] /\ \A x \in T : \E u \in Threads : g[u] = x
    OBVIOUS
  <2>4. \A x \in T : IsFiniteSet(x)
    BY <2>2
  <2> HIDE DEF T, g
  <2>5. g \in Surjection(Threads, T)
    BY <2>3 DEF Surjection
  <2>6. IsFiniteSet(UNION T)
    BY <2>4, <2>5, ObjectsAssumption, FS_Surjection, FS_UNION
  <2>7. QED
    BY <2>6, FS_Subset DEF T
<1>2. Often(c, W) = Cardinality(P)
  BY DEF Often
<1>3. \A t \in Threads : \A i \in DOMAIN c[t] : c[t][i] \in W => <<t, i>> \in P
  OBVIOUS
<1>4. \A l \in P : l[1] \in Threads /\ l[2] \in DOMAIN c[l[1]] /\ c[l[1]][l[2]] \in W
  OBVIOUS
<1> HIDE DEF P
<1>5. Often(c, W) \in Nat
  BY <1>1, <1>2, FS_CardinalityType
<1>6. Often(c, W) > 0 <=> P # {}
  <2>1. Cardinality(P) = 0 <=> P = {}
    BY <1>1, FS_EmptySet
  <2>2. QED
    BY <1>2, <1>5, <2>1
<1>7. ASSUME Often(c, W) <= 1, NEW l \in P, NEW m \in P PROVE l = m
  <2>1. Cardinality(P \ {l}) = Cardinality(P) - 1 /\ IsFiniteSet(P \ {l})
    BY <1>1, FS_RemoveElement
  <2>2. Cardinality(P \ {l}) \in Nat
    BY <2>1, FS_CardinalityType
  <2>3. Cardinality(P \ {l}) = 0
    BY <1>2, <1>5, <1>7, <2>1, <2>2
  <2>4. P \ {l} = {}
    BY <2>1, <2>3, FS_EmptySet
  <2>5. QED
    BY <2>4
<1>8. (\E t \in Threads : \E i \in DOMAIN c[t] : c[t][i] \in W) <=> P # {}
  BY <1>3, <1>4
<1>9. ASSUME Often(c, W) <= 1, NEW t \in Threads, NEW u \in Threads,
             NEW i \in DOMAIN c[t], NEW j \in DOMAIN c[u], c[t][i] \in W, c[u][j] \in W
      PROVE  t = u /\ i = j
  <2>1. <<t, i>> \in P /\ <<u, j>> \in P
    BY <1>3, <1>9
  <2>2. <<t, i>> = <<u, j>>
    BY <1>7, <1>9, <2>1
  <2>3. QED
    BY <2>2
<1>10. QED
  BY <1>5, <1>6, <1>8, <1>9

(* What is nowhere is not to be done.                                      *)
LEMMA NeverDone ==
  ASSUME NEW c \in [Threads -> Seq(Things)], NEW W,
         \A t \in Threads : \A i \in DOMAIN c[t] : c[t][i] \notin W
  PROVE  Often(c, W) = 0
<1>1. Often(c, W) \in Nat /\ ~ (Often(c, W) > 0)
  BY OftenIs
<1>2. \A n \in Nat : ~ (n > 0) => n = 0
  OBVIOUS
<1>3. QED
  BY <1>1, <1>2

(* A list on which something is to be done is not empty.                   *)
LEMMA NotEmpty ==
  ASSUME NEW q \in Seq(Things), NEW i, i \in DOMAIN q
  PROVE  q # <<>> /\ q[i] \in Things
<1>1. DOMAIN q = 1 .. Len(q) /\ Len(q) \in Nat
  BY LenProperties
<1>2. q # <<>>
  <2> SUFFICES ASSUME q = <<>> PROVE FALSE
    OBVIOUS
  <2>1. Len(<<>>) = 0 /\ 1 .. 0 = {}
    OBVIOUS
  <2>2. QED
    BY <1>1, <2>1
<1>3. QED
  BY <1>1, <1>2

(* Where what is to be done then comes from.                               *)
LEMMA Places ==
  ASSUME NEW q, NEW more, NEW r, After(q, more, r), NEW i \in DOMAIN r
  PROVE  \/ i \in 1 .. Len(more) /\ r[i] = more[i]
         \/ /\ i > Len(more) /\ i - Len(more) + 1 \in DOMAIN q
            /\ r[i] = q[i - Len(more) + 1]
            /\ i < Len(r) =>
                 i - Len(more) + 1 < Len(q) /\ r[i + 1] = q[i - Len(more) + 2]
<1> DEFINE l == Len(more)
           m == Len(q)
           n == Len(r)
<1>1. l \in Nat /\ m \in Nat \ {0} /\ n = l + m - 1 /\ i \in 1 .. n /\ DOMAIN q = 1 .. m
  BY DEF After
<1>2. (\A k \in 1 .. l : r[k] = more[k]) /\ \A k \in l + 1 .. n : r[k] = q[k - l + 1]
  BY DEF After
<1> HIDE DEF l, m, n
<1>3. CASE i <= l
  BY <1>1, <1>2, <1>3 DEF l
<1>4. CASE i > l
  <2>1. i - l + 1 \in 1 .. m /\ i \in l + 1 .. n /\ (i < n => i + 1 \in l + 1 .. n /\ i - l + 1 < m)
    BY <1>1, <1>4
  <2>2. (i + 1) - l + 1 = i - l + 2
    BY <1>1
  <2>3. r[i] = q[i - l + 1] /\ (i < n => r[i + 1] = q[i - l + 2])
    BY <1>2, <2>1, <2>2
  <2>4. QED
    BY <1>1, <1>4, <2>1, <2>3 DEF l, m, n
<1>5. QED
  BY <1>1, <1>3, <1>4

(* What may be put in front of a list.                                     *)
MayPrecede(more, q) ==
  \A i \in 1 .. Len(more) :
    /\ more[i].do = "take out" => i = 1
    /\ more[i].do # "item"
    /\ more[i].do = "node" => i < Len(more) /\ more[i + 1].do = "graph"
    /\ more[i].do = "graph" =>
         \/ i < Len(more) /\ more[i + 1] = Release(more[i].ref)
         \/ i = Len(more) /\ Len(q) > 1 /\ q[2] = Release(more[i].ref)
    /\ more[i].do = "collect" => i = Len(more) /\ Len(q) = 1

(* The shape of a list after its first thing is done.                      *)
LEMMA ShapeContinued ==
  ASSUME NEW q, NEW more, NEW r, After(q, more, r), Shape(q), MayPrecede(more, q)
  PROVE  Shape(r)
<1> DEFINE l == Len(more)
           m == Len(q)
           n == Len(r)
<1>1. l \in Nat /\ m \in Nat \ {0} /\ n = l + m - 1 /\ DOMAIN r = 1 .. n /\ DOMAIN q = 1 .. m
  BY DEF After
<1>2. (\A k \in 1 .. l : r[k] = more[k]) /\ \A k \in l + 1 .. n : r[k] = q[k - l + 1]
  BY DEF After
<1>3. \A i \in 1 .. m :
        /\ q[i].do = "take out" => i = 1
        /\ q[i].do = "item" => m = 1
        /\ q[i].do = "node" => i < m /\ q[i + 1].do = "graph"
        /\ q[i].do = "graph" => i < m /\ q[i + 1] = Release(q[i].ref)
        /\ q[i].do = "collect" => i = m
  BY <1>1 DEF Shape
<1>4. \A i \in 1 .. l :
        /\ more[i].do = "take out" => i = 1
        /\ more[i].do # "item"
        /\ more[i].do = "node" => i < l /\ more[i + 1].do = "graph"
        /\ more[i].do = "graph" =>
             \/ i < l /\ more[i + 1] = Release(more[i].ref)
             \/ i = l /\ m > 1 /\ q[2] = Release(more[i].ref)
        /\ more[i].do = "collect" => i = l /\ m = 1
  BY DEF MayPrecede
<1> HIDE DEF l, m, n
<1>5. ASSUME NEW i \in 1 .. n
      PROVE  /\ r[i].do = "take out" => i = 1
             /\ r[i].do = "item" => n = 1
             /\ r[i].do = "node" => i < n /\ r[i + 1].do = "graph"
             /\ r[i].do = "graph" => i < n /\ r[i + 1] = Release(r[i].ref)
             /\ r[i].do = "collect" => i = n
  <2>1. CASE i <= l
    <3>1. r[i] = more[i] /\ (i < l => i < n /\ r[i + 1] = more[i + 1])
      BY <1>1, <1>2, <2>1
    <3>2. ASSUME i = l, m > 1 PROVE i < n /\ r[i + 1] = q[2]
      <4>1. i + 1 \in l + 1 .. n /\ (i + 1) - l + 1 = 2 /\ i < n
        BY <1>1, <3>2
      <4>2. QED
        BY <1>2, <4>1
    <3>3. i \in 1 .. l
      BY <1>1, <2>1
    <3>4. r[i].do = "take out" => i = 1
      BY <1>4, <3>1, <3>3
    <3>5. r[i].do # "item"
      BY <1>4, <3>1, <3>3
    <3>6. r[i].do = "node" => i < n /\ r[i + 1].do = "graph"
      BY <1>4, <3>1, <3>3
    <3>7. r[i].do = "graph" => i < n /\ r[i + 1] = Release(r[i].ref)
      BY <1>4, <3>1, <3>2, <3>3
    <3>8. r[i].do = "collect" => i = n
      <4>1. more[i].do = "collect" => i = l /\ m = 1
        BY <1>4, <3>3
      <4>2. i = l /\ m = 1 => i = n
        BY <1>1
      <4>3. QED
        BY <3>1, <4>1, <4>2
    <3>9. QED
      BY <3>4, <3>5, <3>6, <3>7, <3>8
  <2>2. CASE i > l
    <3> DEFINE j == i - l + 1
    <3>1. j \in 2 .. m /\ j \in 1 .. m /\ i \in l + 1 .. n /\ (j = m <=> i = n)
      BY <1>1, <2>2
    <3>2. ASSUME j < m PROVE i < n /\ r[i + 1] = q[j + 1]
      <4>1. i + 1 \in l + 1 .. n /\ (i + 1) - l + 1 = j + 1 /\ i < n
        BY <1>1, <2>2, <3>2
      <4>2. QED
        BY <1>2, <4>1
    <3>3. r[i] = q[j]
      BY <1>2, <3>1
    <3> HIDE DEF j
    <3>4. /\ q[j].do = "take out" => j = 1
          /\ q[j].do = "item" => m = 1
          /\ q[j].do = "node" => j < m /\ q[j + 1].do = "graph"
          /\ q[j].do = "graph" => j < m /\ q[j + 1] = Release(q[j].ref)
          /\ q[j].do = "collect" => j = m
      BY <1>3, <3>1
    <3>5. j # 1 /\ m # 1
      BY <1>1, <3>1
    <3>6. QED
      BY <3>1, <3>2, <3>3, <3>4, <3>5
  <2>3. i <= l \/ i > l
    BY <1>1
  <2>4. QED
    BY <2>1, <2>2, <2>3
<1>6. QED
  BY <1>1, <1>5 DEF Shape, n

(* Which thing counts as which.                                            *)
LEMMA InIs ==
  ASSUME NEW x \in Things
  PROVE  /\ \A o, k : In(x, Decrements(o, k)) =
              IF x.do = "decrement" /\ x.ref = o /\ x.kind = k THEN 1 ELSE 0
         /\ \A o \in Objects : In(x, IncrementsOf(o)) = IF x.do = "increment" /\ x.ref = o THEN 1 ELSE 0
         /\ \A n \in Nodes : In(x, IncrementsBy(n)) = IF x.do = "increment" /\ x.by = n THEN 1 ELSE 0
         /\ \A o : In(x, TakeOuts(o)) = IF x.do = "take out" /\ x.ref = o THEN 1 ELSE 0
         /\ \A o : In(x, Frees(o)) = IF x.do = "free" /\ x.ref = o THEN 1 ELSE 0
         /\ \A o : In(x, Destructs(o)) = IF x.do = "graph" /\ x.ref = o THEN 1 ELSE 0
<1>1. ASSUME NEW o, NEW k
      PROVE  x = Decrement(o, k) <=> x.do = "decrement" /\ x.ref = o /\ x.kind = k
  <2>1. x.do = "decrement" => x = Decrement(x.ref, x.kind)
    BY ThingsOf
  <2>2. QED
    BY <2>1 DEF Decrement
<1>2. ASSUME NEW o
      PROVE  /\ x = TakeOut(o) <=> x.do = "take out" /\ x.ref = o
             /\ x = Release(o) <=> x.do = "free" /\ x.ref = o
             /\ x = DestructGraph(o) <=> x.do = "graph" /\ x.ref = o
  <2>1. /\ x.do = "take out" => x = TakeOut(x.ref)
        /\ x.do = "free" => x = Release(x.ref)
        /\ x.do = "graph" => x = DestructGraph(x.ref)
    BY ThingsOf
  <2>2. x = TakeOut(o) <=> x.do = "take out" /\ x.ref = o
    <3>1. x.do = "take out" => x = TakeOut(x.ref)
      BY <2>1
    <3>2. TakeOut(o).do = "take out" /\ TakeOut(o).ref = o
      BY DEF TakeOut
    <3>3. QED
      BY <3>1, <3>2
  <2>3. x = Release(o) <=> x.do = "free" /\ x.ref = o
    <3>1. x.do = "free" => x = Release(x.ref)
      BY <2>1
    <3>2. Release(o).do = "free" /\ Release(o).ref = o
      BY DEF Release
    <3>3. QED
      BY <3>1, <3>2
  <2>4. x = DestructGraph(o) <=> x.do = "graph" /\ x.ref = o
    <3>1. x.do = "graph" => x = DestructGraph(x.ref)
      BY <2>1
    <3>2. DestructGraph(o).do = "graph" /\ DestructGraph(o).ref = o
      BY DEF DestructGraph
    <3>3. QED
      BY <3>1, <3>2
  <2>5. QED
    BY <2>2, <2>3, <2>4
<1>3. \A n, o : Increment(n, o).do = "increment" /\ Increment(n, o).ref = o /\ Increment(n, o).by = n
  BY DEF Increment
<1>4. x.do = "increment" => x.ref \in Parameters /\ x.by \in Nodes /\ x = Increment(x.by, x.ref)
  BY ThingsOf
<1>5. \A o \in Objects : x \in IncrementsOf(o) <=> x.do = "increment" /\ x.ref = o
  BY <1>3, <1>4 DEF IncrementsOf
<1>6. \A n \in Nodes : x \in IncrementsBy(n) <=> x.do = "increment" /\ x.by = n
  BY <1>3, <1>4 DEF IncrementsBy
<1>7. QED
  BY <1>1, <1>2, <1>5, <1>6 DEF In, Decrements, TakeOuts, Frees, Destructs

(* What a decrement counts as.                                             *)
LEMMA InDecrement ==
  ASSUME NEW x \in Things, x.do = "decrement"
  PROVE  /\ \A p, k : In(x, Decrements(p, k)) = IF p = x.ref /\ k = x.kind THEN 1 ELSE 0
         /\ \A p \in Objects : In(x, IncrementsOf(p)) = 0
         /\ \A n \in Nodes : In(x, IncrementsBy(n)) = 0
         /\ \A p : In(x, TakeOuts(p)) = 0
         /\ \A p : In(x, Frees(p)) = 0
         /\ \A p : In(x, Destructs(p)) = 0
<1>1. /\ \A p, k : In(x, Decrements(p, k)) =
            IF x.do = "decrement" /\ x.ref = p /\ x.kind = k THEN 1 ELSE 0
      /\ \A p \in Objects : In(x, IncrementsOf(p)) = IF x.do = "increment" /\ x.ref = p THEN 1 ELSE 0
      /\ \A n \in Nodes : In(x, IncrementsBy(n)) = IF x.do = "increment" /\ x.by = n THEN 1 ELSE 0
      /\ \A p : In(x, TakeOuts(p)) = IF x.do = "take out" /\ x.ref = p THEN 1 ELSE 0
      /\ \A p : In(x, Frees(p)) = IF x.do = "free" /\ x.ref = p THEN 1 ELSE 0
      /\ \A p : In(x, Destructs(p)) = IF x.do = "graph" /\ x.ref = p THEN 1 ELSE 0
  BY InIs
<1>2. QED
  BY <1>1

(* What an increment counts as.                                            *)
LEMMA InIncrement ==
  ASSUME NEW x \in Things, x.do = "increment"
  PROVE  /\ \A p, k : In(x, Decrements(p, k)) = 0
         /\ \A p \in Objects : In(x, IncrementsOf(p)) = IF p = x.ref THEN 1 ELSE 0
         /\ \A n \in Nodes : In(x, IncrementsBy(n)) = IF n = x.by THEN 1 ELSE 0
         /\ \A p : In(x, TakeOuts(p)) = 0
         /\ \A p : In(x, Frees(p)) = 0
         /\ \A p : In(x, Destructs(p)) = 0
<1>1. /\ \A p, k : In(x, Decrements(p, k)) =
            IF x.do = "decrement" /\ x.ref = p /\ x.kind = k THEN 1 ELSE 0
      /\ \A p \in Objects : In(x, IncrementsOf(p)) = IF x.do = "increment" /\ x.ref = p THEN 1 ELSE 0
      /\ \A n \in Nodes : In(x, IncrementsBy(n)) = IF x.do = "increment" /\ x.by = n THEN 1 ELSE 0
      /\ \A p : In(x, TakeOuts(p)) = IF x.do = "take out" /\ x.ref = p THEN 1 ELSE 0
      /\ \A p : In(x, Frees(p)) = IF x.do = "free" /\ x.ref = p THEN 1 ELSE 0
      /\ \A p : In(x, Destructs(p)) = IF x.do = "graph" /\ x.ref = p THEN 1 ELSE 0
  BY InIs
<1>2. QED
  BY <1>1

(* What taking out counts as.                                              *)
LEMMA InTakeOut ==
  ASSUME NEW x \in Things, x.do = "take out"
  PROVE  /\ \A p, k : In(x, Decrements(p, k)) = 0
         /\ \A p \in Objects : In(x, IncrementsOf(p)) = 0
         /\ \A n \in Nodes : In(x, IncrementsBy(n)) = 0
         /\ \A p : In(x, TakeOuts(p)) = IF p = x.ref THEN 1 ELSE 0
         /\ \A p : In(x, Frees(p)) = 0
         /\ \A p : In(x, Destructs(p)) = 0
<1>1. /\ \A p, k : In(x, Decrements(p, k)) =
            IF x.do = "decrement" /\ x.ref = p /\ x.kind = k THEN 1 ELSE 0
      /\ \A p \in Objects : In(x, IncrementsOf(p)) = IF x.do = "increment" /\ x.ref = p THEN 1 ELSE 0
      /\ \A n \in Nodes : In(x, IncrementsBy(n)) = IF x.do = "increment" /\ x.by = n THEN 1 ELSE 0
      /\ \A p : In(x, TakeOuts(p)) = IF x.do = "take out" /\ x.ref = p THEN 1 ELSE 0
      /\ \A p : In(x, Frees(p)) = IF x.do = "free" /\ x.ref = p THEN 1 ELSE 0
      /\ \A p : In(x, Destructs(p)) = IF x.do = "graph" /\ x.ref = p THEN 1 ELSE 0
  BY InIs
<1>2. QED
  BY <1>1

(* What freeing counts as.                                                 *)
LEMMA InFree ==
  ASSUME NEW x \in Things, x.do = "free"
  PROVE  /\ \A p, k : In(x, Decrements(p, k)) = 0
         /\ \A p \in Objects : In(x, IncrementsOf(p)) = 0
         /\ \A n \in Nodes : In(x, IncrementsBy(n)) = 0
         /\ \A p : In(x, TakeOuts(p)) = 0
         /\ \A p : In(x, Frees(p)) = IF p = x.ref THEN 1 ELSE 0
         /\ \A p : In(x, Destructs(p)) = 0
<1>1. /\ \A p, k : In(x, Decrements(p, k)) =
            IF x.do = "decrement" /\ x.ref = p /\ x.kind = k THEN 1 ELSE 0
      /\ \A p \in Objects : In(x, IncrementsOf(p)) = IF x.do = "increment" /\ x.ref = p THEN 1 ELSE 0
      /\ \A n \in Nodes : In(x, IncrementsBy(n)) = IF x.do = "increment" /\ x.by = n THEN 1 ELSE 0
      /\ \A p : In(x, TakeOuts(p)) = IF x.do = "take out" /\ x.ref = p THEN 1 ELSE 0
      /\ \A p : In(x, Frees(p)) = IF x.do = "free" /\ x.ref = p THEN 1 ELSE 0
      /\ \A p : In(x, Destructs(p)) = IF x.do = "graph" /\ x.ref = p THEN 1 ELSE 0
  BY InIs
<1>2. QED
  BY <1>1

(* What destroying a graph counts as.                                      *)
LEMMA InGraph ==
  ASSUME NEW x \in Things, x.do = "graph"
  PROVE  /\ \A p, k : In(x, Decrements(p, k)) = 0
         /\ \A p \in Objects : In(x, IncrementsOf(p)) = 0
         /\ \A n \in Nodes : In(x, IncrementsBy(n)) = 0
         /\ \A p : In(x, TakeOuts(p)) = 0
         /\ \A p : In(x, Frees(p)) = 0
         /\ \A p : In(x, Destructs(p)) = IF p = x.ref THEN 1 ELSE 0
<1>1. /\ \A p, k : In(x, Decrements(p, k)) =
            IF x.do = "decrement" /\ x.ref = p /\ x.kind = k THEN 1 ELSE 0
      /\ \A p \in Objects : In(x, IncrementsOf(p)) = IF x.do = "increment" /\ x.ref = p THEN 1 ELSE 0
      /\ \A n \in Nodes : In(x, IncrementsBy(n)) = IF x.do = "increment" /\ x.by = n THEN 1 ELSE 0
      /\ \A p : In(x, TakeOuts(p)) = IF x.do = "take out" /\ x.ref = p THEN 1 ELSE 0
      /\ \A p : In(x, Frees(p)) = IF x.do = "free" /\ x.ref = p THEN 1 ELSE 0
      /\ \A p : In(x, Destructs(p)) = IF x.do = "graph" /\ x.ref = p THEN 1 ELSE 0
  BY InIs
<1>2. QED
  BY <1>1

(* What the other things count as: nothing.                                *)
LEMMA InOther ==
  ASSUME NEW x \in Things, x.do \in {"node", "item", "collect"}
  PROVE  /\ \A p, k : In(x, Decrements(p, k)) = 0
         /\ \A p \in Objects : In(x, IncrementsOf(p)) = 0
         /\ \A n \in Nodes : In(x, IncrementsBy(n)) = 0
         /\ \A p : In(x, TakeOuts(p)) = 0
         /\ \A p : In(x, Frees(p)) = 0
         /\ \A p : In(x, Destructs(p)) = 0
<1>1. /\ \A p, k : In(x, Decrements(p, k)) =
            IF x.do = "decrement" /\ x.ref = p /\ x.kind = k THEN 1 ELSE 0
      /\ \A p \in Objects : In(x, IncrementsOf(p)) = IF x.do = "increment" /\ x.ref = p THEN 1 ELSE 0
      /\ \A n \in Nodes : In(x, IncrementsBy(n)) = IF x.do = "increment" /\ x.by = n THEN 1 ELSE 0
      /\ \A p : In(x, TakeOuts(p)) = IF x.do = "take out" /\ x.ref = p THEN 1 ELSE 0
      /\ \A p : In(x, Frees(p)) = IF x.do = "free" /\ x.ref = p THEN 1 ELSE 0
      /\ \A p : In(x, Destructs(p)) = IF x.do = "graph" /\ x.ref = p THEN 1 ELSE 0
  BY InIs
<1>2. QED
  BY <1>1

-----------------------------------------------------------------------------
(* References, of the application and of other objects.                    *)

(* The references the application has, when one thread's number changes.   *)
LEMMA HandsChange ==
  ASSUME NEW h \in [Threads -> [Objects -> 0 .. MaxHandles]], NEW o \in Objects, NEW t \in Threads,
         NEW k \in [Threads -> [Objects -> 0 .. MaxHandles]],
         \A u \in Threads \ {t} : k[u][o] = h[u][o]
  PROVE  /\ Hands(h, o) \in Nat
         /\ Hands(k, o) = Hands(h, o) - h[t][o] + k[t][o]
<1> DEFINE P(d) == {l \in Threads \X (1 .. MaxHandles) : l[2] <= d[l[1]][o]}
           Mine(d) == {l \in {t} \X (1 .. MaxHandles) : l[2] <= d[t][o]}
           Others == {l \in P(h) : l[1] # t}
<1>1. ASSUME NEW d \in [Threads -> [Objects -> 0 .. MaxHandles]]
      PROVE  /\ IsFiniteSet(P(d)) /\ IsFiniteSet(Mine(d)) /\ Cardinality(Mine(d)) = d[t][o]
             /\ P(d) = {l \in P(d) : l[1] # t} \cup Mine(d)
             /\ Hands(d, o) = Cardinality(P(d))
  <2>1. IsFiniteSet(Threads) /\ MaxHandles \in Nat
    BY ObjectsAssumption, BoundsAssumption
  <2>2. IsFiniteSet(1 .. MaxHandles)
    BY <2>1, FS_Interval
  <2>3. IsFiniteSet(Threads \X (1 .. MaxHandles))
    BY <2>1, <2>2, FS_Product
  <2>4. IsFiniteSet(P(d))
    BY <2>3, FS_Subset
  <2>5. P(d) = {l \in P(d) : l[1] # t} \cup Mine(d)
    OBVIOUS
  <2>6. IsFiniteSet(Mine(d))
    BY <2>4, <2>5, FS_Subset
  <2> DEFINE n == d[t][o]
             M == Mine(d)
             f == [i \in 1 .. n |-> <<t, i>>]
  <2>7. n \in 0 .. MaxHandles
    OBVIOUS
  <2>8. M = {l \in {t} \X (1 .. MaxHandles) : l[2] <= n}
    OBVIOUS
  <2> HIDE DEF n, M
  <2>9. f \in [1 .. n -> M] /\ \A i, j \in 1 .. n : f[i] = f[j] => i = j
    BY <2>1, <2>7, <2>8
  <2>10. \A l \in M : l[2] \in 1 .. n /\ f[l[2]] = l
    BY <2>1, <2>7, <2>8
  <2> HIDE DEF f
  <2>11. f \in Injection(1 .. n, M) /\ f \in Surjection(1 .. n, M)
    BY <2>9, <2>10 DEF Injection, Surjection, IsInjective
  <2>12. ExistsBijection(1 .. n, M)
    BY <2>11 DEF ExistsBijection, Bijection
  <2>13. n \in Nat
    BY <2>1, <2>7
  <2>14. IsFiniteSet(1 .. n) /\ Cardinality(1 .. n) = n
    <3>1. 1 \in Int /\ n \in Int
      BY <2>13
    <3>2. IsFiniteSet(1 .. n) /\ Cardinality(1 .. n) = IF 1 > n THEN 0 ELSE n - 1 + 1
      BY <3>1, FS_Interval
    <3>3. QED
      BY <2>13, <3>2
  <2>15. Cardinality(M) = n
    BY <2>12, <2>14, FS_Bijection
  <2>16. Hands(d, o) = Cardinality(P(d))
    BY DEF Hands
  <2>17. QED
    BY <2>4, <2>5, <2>6, <2>15, <2>16 DEF n, M
<1>2. {l \in P(k) : l[1] # t} = Others
  OBVIOUS
<1>3. /\ P(h) = Others \cup Mine(h) /\ IsFiniteSet(P(h)) /\ IsFiniteSet(Mine(h))
      /\ Cardinality(Mine(h)) = h[t][o] /\ Hands(h, o) = Cardinality(P(h))
  BY <1>1
<1>4. /\ P(k) = Others \cup Mine(k) /\ IsFiniteSet(P(k)) /\ IsFiniteSet(Mine(k))
      /\ Cardinality(Mine(k)) = k[t][o] /\ Hands(k, o) = Cardinality(P(k))
  BY <1>1, <1>2
<1>5. Others \cap Mine(h) = {} /\ Others \cap Mine(k) = {}
  OBVIOUS
<1>6. IsFiniteSet(Others)
  BY <1>3, FS_Subset
<1>7. h[t][o] \in Nat /\ k[t][o] \in Nat
  BY BoundsAssumption
<1> HIDE DEF P, Mine, Others
<1>8. Cardinality(P(h)) = Cardinality(Others) + Cardinality(Mine(h)) - Cardinality({})
  BY <1>3, <1>5, <1>6, FS_Union
<1>9. Cardinality(P(k)) = Cardinality(Others) + Cardinality(Mine(k)) - Cardinality({})
  BY <1>4, <1>5, <1>6, FS_Union
<1>10. Cardinality({}) = 0 /\ Cardinality(Others) \in Nat /\ Cardinality(P(h)) \in Nat
  BY <1>3, <1>6, FS_EmptySet, FS_CardinalityType
<1>11. QED
  BY <1>3, <1>4, <1>7, <1>8, <1>9, <1>10

(* They are counted where they are.                                        *)
LEMMA HandsAre ==
  ASSUME NEW h \in [Threads -> [Objects -> 0 .. MaxHandles]], NEW o \in Objects
  PROVE  /\ Hands(h, o) \in Nat
         /\ Hands(h, o) > 0 <=> \E t \in Threads : h[t][o] > 0
<1> DEFINE P == {l \in Threads \X (1 .. MaxHandles) : l[2] <= h[l[1]][o]}
<1>1. IsFiniteSet(Threads) /\ MaxHandles \in Nat
  BY ObjectsAssumption, BoundsAssumption
<1>2. IsFiniteSet(1 .. MaxHandles)
  BY <1>1, FS_Interval
<1>3. IsFiniteSet(Threads \X (1 .. MaxHandles))
  BY <1>1, <1>2, FS_Product
<1>4. IsFiniteSet(P)
  BY <1>3, FS_Subset
<1>5. P # {} <=> \E t \in Threads : h[t][o] > 0
  <2>1. ASSUME NEW t \in Threads, h[t][o] > 0 PROVE <<t, 1>> \in P
    BY <1>1, <2>1
  <2>2. ASSUME NEW l \in P PROVE l[1] \in Threads /\ h[l[1]][o] > 0
    BY <1>1
  <2>3. QED
    BY <2>1, <2>2
<1>6. Hands(h, o) = Cardinality(P)
  BY DEF Hands
<1> HIDE DEF P
<1>7. Cardinality(P) \in Nat /\ (Cardinality(P) = 0 <=> P = {})
  BY <1>4, FS_EmptySet, FS_CardinalityType
<1>8. QED
  BY <1>5, <1>6, <1>7

(* Whether a refers to o, with a reference of this kind.                   *)
Refers(r, a, o, k) == IF <<a, o>> \in r /\ HeldKind(a) = k THEN 1 ELSE 0

(* The objects that refer to one, when what another refers to changes.     *)
LEMMA HoldersChange ==
  ASSUME NEW r, NEW s, NEW o, NEW k, NEW a \in Objects,
         \A p \in Objects \ {a} : <<p, o>> \in s <=> <<p, o>> \in r
  PROVE  /\ Holders(r, o, k) \in Nat
         /\ Holders(s, o, k) = Holders(r, o, k) - Refers(r, a, o, k) + Refers(s, a, o, k)
<1> DEFINE P(d) == {p \in Objects : <<p, o>> \in d /\ HeldKind(p) = k}
           Others == P(r) \ {a}
<1>1. P(s) \ {a} = Others
  OBVIOUS
<1>2. a \in P(r) <=> Refers(r, a, o, k) = 1
  BY DEF Refers
<1>3. a \in P(s) <=> Refers(s, a, o, k) = 1
  BY DEF Refers
<1>4. \A d : Refers(d, a, o, k) \in {0, 1}
  BY DEF Refers
<1>5. \A d : IsFiniteSet(P(d))
  <2> TAKE d
  <2>1. P(d) \subseteq Objects
    OBVIOUS
  <2>2. QED
    BY <2>1, ObjectsAssumption, FS_Subset
<1>6. Holders(r, o, k) = Cardinality(P(r)) /\ Holders(s, o, k) = Cardinality(P(s))
  BY DEF Holders
<1> HIDE DEF P
<1>7. ASSUME NEW d
      PROVE  /\ Cardinality(P(d)) \in Nat
             /\ Cardinality(P(d) \ {a}) = IF a \in P(d) THEN Cardinality(P(d)) - 1 ELSE Cardinality(P(d))
  BY <1>5, FS_RemoveElement, FS_CardinalityType
<1>8. /\ Cardinality(Others) = IF a \in P(r) THEN Cardinality(P(r)) - 1 ELSE Cardinality(P(r))
      /\ Cardinality(Others) = IF a \in P(s) THEN Cardinality(P(s)) - 1 ELSE Cardinality(P(s))
      /\ Cardinality(P(r)) \in Nat /\ Cardinality(P(s)) \in Nat
  BY <1>1, <1>7
<1>9. QED
  BY <1>2, <1>3, <1>4, <1>6, <1>8

(* They are counted where they are.                                        *)
LEMMA HoldersAre ==
  ASSUME NEW r, NEW o, NEW k
  PROVE  /\ Holders(r, o, k) \in Nat
         /\ Holders(r, o, k) > 0 <=> \E p \in Objects : <<p, o>> \in r /\ HeldKind(p) = k
<1> DEFINE P == {p \in Objects : <<p, o>> \in r /\ HeldKind(p) = k}
<1>1. IsFiniteSet(P)
  BY ObjectsAssumption, FS_Subset
<1>2. P # {} <=> \E p \in Objects : <<p, o>> \in r /\ HeldKind(p) = k
  OBVIOUS
<1>3. Holders(r, o, k) = Cardinality(P)
  BY DEF Holders
<1> HIDE DEF P
<1>4. Cardinality(P) \in Nat /\ (Cardinality(P) = 0 <=> P = {})
  BY <1>1, FS_EmptySet, FS_CardinalityType
<1>5. QED
  BY <1>2, <1>3, <1>4

(* A set of objects, listed, and the references to them that are released. *)
LEMMA Listed ==
  ASSUME NEW S \in SUBSET Objects, NEW k \in Kinds
  PROVE  LET l == SetToSeq(S)
             r == [i \in DOMAIN l |-> Decrement(l[i], k)]
         IN /\ r \in Seq(Things)
            /\ \A i \in 1 .. Len(r) : \E p \in S : r[i] = Decrement(p, k)
            /\ \A p \in Objects : Count(r, Decrements(p, k)) = IF p \in S THEN 1 ELSE 0
            /\ \A W : (\A p \in S : Decrement(p, k) \notin W) => Count(r, W) = 0
<1> DEFINE l == SetToSeq(S)
           r == [i \in DOMAIN l |-> Decrement(l[i], k)]
           n == Cardinality(S)
<1>1. IsFiniteSet(S)
  BY ObjectsAssumption, FS_Subset
<1>2. n \in Nat /\ ExistsBijection(1 .. n, S)
  BY <1>1, FS_CardinalityType
<1>3. \E f \in [1 .. n -> S] : IsInjective(f)
  BY <1>2 DEF ExistsBijection, Bijection, Injection, IsInjective
<1>4. l \in [1 .. n -> S] /\ IsInjective(l)
  BY <1>3 DEF SetToSeq
<1> HIDE DEF l, n
<1>5. \A p \in S : \E i \in 1 .. n : l[i] = p
  <2>1. l \in Injection(1 .. n, S)
    BY <1>4 DEF Injection, IsInjective
  <2>2. IsFiniteSet(1 .. n) /\ Cardinality(1 .. n) = n
    <3>1. IsFiniteSet(1 .. n) /\ Cardinality(1 .. n) = IF 1 > n THEN 0 ELSE n - 1 + 1
      BY <1>2, FS_Interval
    <3>2. QED
      BY <1>2, <3>1
  <2>3. l \in Surjection(1 .. n, S)
    BY <1>1, <2>1, <2>2, FS_Injection DEF n
  <2>4. QED
    BY <2>3 DEF Surjection
<1>6. /\ DOMAIN l = 1 .. n /\ \A i \in 1 .. n : l[i] \in S
      /\ \A i, j \in 1 .. n : l[i] = l[j] => i = j
  BY <1>4 DEF IsInjective
<1>7. \A p \in S : Decrement(p, k) \in Things
  BY ThingsTyped
<1>8. r \in [1 .. n -> Things] /\ \A i \in 1 .. n : r[i] = Decrement(l[i], k)
  BY <1>6, <1>7
<1> HIDE DEF r
<1>9. r \in Seq(Things) /\ Len(r) = n /\ DOMAIN r = 1 .. n
  BY <1>2, <1>8, SeqDef
<1>10. \A i \in 1 .. Len(r) : \E p \in S : r[i] = Decrement(p, k)
  BY <1>6, <1>8, <1>9
<1>11. ASSUME NEW p \in Objects
       PROVE  Count(r, Decrements(p, k)) = IF p \in S THEN 1 ELSE 0
  <2>1. \A i \in 1 .. n : r[i] = Decrement(p, k) <=> l[i] = p
    BY <1>8 DEF Decrement
  <2>2. {i \in DOMAIN r : r[i] \in Decrements(p, k)} = {i \in 1 .. n : l[i] = p}
    BY <1>9, <2>1 DEF Decrements
  <2>3. CASE p \in S
    <3>1. PICK i \in 1 .. n : l[i] = p
      BY <1>5, <2>3
    <3>2. {j \in 1 .. n : l[j] = p} = {i}
      BY <1>6, <3>1
    <3>3. QED
      BY <2>2, <2>3, <3>2, FS_Singleton DEF Count
  <2>4. CASE p \notin S
    <3>1. {j \in 1 .. n : l[j] = p} = {}
      BY <1>6, <2>4
    <3>2. QED
      BY <2>2, <2>4, <3>1, FS_EmptySet DEF Count
  <2>5. QED
    BY <2>3, <2>4
<1>12. ASSUME NEW W, \A p \in S : Decrement(p, k) \notin W PROVE Count(r, W) = 0
  <2>1. {i \in DOMAIN r : r[i] \in W} = {}
    BY <1>9, <1>10, <1>12
  <2>2. QED
    BY <2>1, FS_EmptySet DEF Count
<1>13. QED
  BY <1>9, <1>10, <1>11, <1>12 DEF r, l

-----------------------------------------------------------------------------
(* The types of objects, and the table.                                    *)

(* Every object has one type.                                              *)
LEMMA OneType ==
  /\ \A o \in Graphs : o \notin Nodes /\ o \notin Parameters /\ o \notin Regions /\ o \notin Images
                       /\ o \notin Arrays /\ o \notin Items
  /\ \A o \in Nodes : o \notin Parameters /\ o \notin Regions /\ o \notin Images
                      /\ o \notin Arrays /\ o \notin Items
  /\ \A o \in Regions : o \notin Images /\ o \notin Arrays /\ o \notin Items
  /\ \A o \in Images : o \notin Arrays /\ o \notin Items
  /\ \A o \in Arrays : o \notin Items
  /\ \A o \in Parameters : o \notin Items /\ o \in Objects
  /\ Graphs \subseteq Objects /\ Nodes \subseteq Objects /\ Images \subseteq Objects
  /\ Regions \subseteq Objects /\ Arrays \subseteq Objects /\ Items \subseteq Objects
  BY KindsAssumption DEF Parameters, Objects

(* References are external or internal.                                    *)
LEMMA HeldKinds ==
  /\ \A o : HeldKind(o) \in Kinds
  /\ \A o : HeldKind(o) = "external" <=> o \in Arrays
  /\ \A o : HeldKind(o) = "internal" <=> o \notin Arrays
  BY DEF HeldKind, Kinds

(* The entries of a table are finite.                                      *)
LEMMA SlotsFinite == IsFiniteSet(Slots) /\ Cardinality(Slots) = NumSlots /\ NumSlots \in Nat
<1>1. NumSlots \in Nat /\ 1 \in Int /\ NumSlots \in Int /\ NumSlots > 0
  BY BoundsAssumption
<1>2. IsFiniteSet(1 .. NumSlots) /\ Cardinality(1 .. NumSlots) = IF 1 > NumSlots THEN 0 ELSE NumSlots - 1 + 1
  BY <1>1, FS_Interval
<1>3. QED
  BY <1>1, <1>2 DEF Slots

(* What is live is what the table has.                                     *)
LEMMA LiveIsInTable ==
  ASSUME TypeOK, TableInv, NEW o \in Objects
  PROVE  phase[o] = "live" <=> \E s \in Slots : reftable[s] = o
<1>1. IsFiniteSet(Entry(o))
  BY SlotsFinite, FS_Subset DEF Entry
<1>2. Cardinality(Entry(o)) = 0 <=> Entry(o) = {}
  BY <1>1, FS_EmptySet
<1>3. phase[o] = "live" <=> Entry(o) # {}
  BY <1>2 DEF TableInv
<1>4. QED
  BY <1>3 DEF Entry

(* The smallest of some numbers is one of them.                            *)
LEMMA MinInSet ==
  ASSUME NEW S \in SUBSET Nat, S # {}
  PROVE  Min(S) \in S
<1>1. PICK x \in S : \A y \in S : ~ (<<y, x>> \in OpToRel(<, Nat))
  BY NatLessThanWellFounded, WFMin
<1>2. ASSUME NEW y \in S PROVE x <= y
  <2>1. <<y, x>> \in Nat \X Nat /\ <<y, x>>[1] = y /\ <<y, x>>[2] = x
    OBVIOUS
  <2>2. <<y, x>> \in OpToRel(<, Nat) <=> y < x
    BY <2>1 DEF OpToRel
  <2>3. ~ (y < x)
    BY <1>1, <2>2, Zenon
  <2>4. QED
    BY <2>3
<1>3. QED
  BY <1>2 DEF Min

(* ownAddReference of a new object.                                        *)
LEMMA TableAdds ==
  ASSUME TypeOK, TableInv, NEW o \in Objects, phase[o] # "live", Room, AddReference(o),
         phase' = [phase EXCEPT ![o] = "live"]
  PROVE  /\ reftable' \in [Slots -> Objects \cup {Null}] /\ num_references' \in 0 .. NumSlots
         /\ TableInv'
<1> DEFINE e == FreeSlot
<1>1. e \in Slots /\ reftable[e] = Null
  <2> DEFINE S == {s \in Slots : reftable[s] = Null}
  <2>1. S \in SUBSET Nat /\ S # {}
    BY DEF Room, Slots
  <2>2. Min(S) \in S
    BY <2>1, MinInSet
  <2>3. QED
    BY <2>2 DEF FreeSlot
<1>2. reftable' = [reftable EXCEPT ![e] = o] /\ num_references' = num_references + 1
  BY DEF AddReference
<1> HIDE DEF e
<1>3. reftable \in [Slots -> Objects \cup {Null}] /\ phase \in [Objects -> {"none", "live", "dying", "freed"}]
      /\ Null \notin Objects
  BY ObjectsAssumption DEF TypeOK
<1>4. reftable' \in [Slots -> Objects \cup {Null}]
  BY <1>1, <1>2, <1>3
<1> DEFINE E(f, p) == {s \in Slots : f[s] = p}
           U(f) == {s \in Slots : f[s] # Null}
<1>5. \A f, p : IsFiniteSet(E(f, p)) /\ IsFiniteSet(U(f))
  <2> TAKE f, p
  <2>1. E(f, p) \subseteq Slots /\ U(f) \subseteq Slots
    OBVIOUS
  <2>2. QED
    BY <2>1, SlotsFinite, FS_Subset
<1>6. \A p \in Objects \ {o} : E(reftable', p) = E(reftable, p)
  BY <1>1, <1>2, <1>3
<1>7. E(reftable', o) = E(reftable, o) \cup {e} /\ e \notin E(reftable, o)
  BY <1>1, <1>2, <1>3
<1>8. U(reftable') = U(reftable) \cup {e} /\ e \notin U(reftable)
  BY <1>1, <1>2, <1>3
<1>9. /\ \A p \in Objects : Cardinality(E(reftable, p)) = IF phase[p] = "live" THEN 1 ELSE 0
      /\ num_references = Cardinality(U(reftable))
  BY DEF TableInv, Entry
<1>10. U(reftable') \subseteq Slots
  OBVIOUS
<1> HIDE DEF E, U
<1>11. Cardinality(E(reftable', o)) = Cardinality(E(reftable, o)) + 1
  BY <1>5, <1>7, FS_AddElement
<1>12. Cardinality(U(reftable')) = Cardinality(U(reftable)) + 1
  BY <1>5, <1>8, FS_AddElement
<1>13. Cardinality(U(reftable')) <= NumSlots
  BY <1>10, SlotsFinite, FS_Subset
<1>14. num_references' = Cardinality(U(reftable')) /\ num_references' \in 0 .. NumSlots
  <2>1. Cardinality(U(reftable)) \in Nat
    BY <1>5, FS_CardinalityType
  <2>2. QED
    BY <1>2, <1>9, <1>12, <1>13, <2>1, SlotsFinite
<1>15. \A p \in Objects : Cardinality(E(reftable', p)) = IF phase'[p] = "live" THEN 1 ELSE 0
  BY <1>3, <1>6, <1>9, <1>11
<1>16. TableInv'
  BY <1>14, <1>15 DEF TableInv, Entry, E, U
<1>17. QED
  BY <1>4, <1>14, <1>16

(* ownRemoveReference of a live object.                                    *)
LEMMA TableTakes ==
  ASSUME TypeOK, TableInv, NEW o \in Objects, phase[o] = "live",
         reftable' = [s \in Slots |-> IF s \in Entry(o) THEN Null ELSE reftable[s]],
         num_references' = num_references - 1,
         phase' = [phase EXCEPT ![o] = "dying"]
  PROVE  /\ reftable' \in [Slots -> Objects \cup {Null}] /\ num_references' \in 0 .. NumSlots
         /\ TableInv'
<1>1. reftable \in [Slots -> Objects \cup {Null}] /\ phase \in [Objects -> {"none", "live", "dying", "freed"}]
      /\ num_references \in 0 .. NumSlots /\ Null \notin Objects
  BY ObjectsAssumption DEF TypeOK
<1>2. reftable' \in [Slots -> Objects \cup {Null}]
  BY <1>1
<1> DEFINE E(f, p) == {s \in Slots : f[s] = p}
           U(f) == {s \in Slots : f[s] # Null}
<1>3. \A f, p : IsFiniteSet(E(f, p)) /\ IsFiniteSet(U(f))
  <2> TAKE f, p
  <2>1. E(f, p) \subseteq Slots /\ U(f) \subseteq Slots
    OBVIOUS
  <2>2. QED
    BY <2>1, SlotsFinite, FS_Subset
<1>4. /\ \A p \in Objects : Cardinality(E(reftable, p)) = IF phase[p] = "live" THEN 1 ELSE 0
      /\ num_references = Cardinality(U(reftable))
  BY DEF TableInv, Entry
<1>5. PICK e : E(reftable, o) = {e}
  <2> HIDE DEF E
  <2>1. Cardinality(E(reftable, o)) = 1
    BY <1>4
  <2>2. IsFiniteSet(E(reftable, o))
    BY <1>3
  <2>3. QED
    BY <2>1, <2>2, FS_Singleton
<1>6. e \in Slots /\ reftable[e] = o /\ \A s \in Slots : reftable[s] = o => s = e
  BY <1>5
<1>7. reftable' = [s \in Slots |-> IF s = e THEN Null ELSE reftable[s]]
  BY <1>6 DEF Entry
<1>8. \A p \in Objects \ {o} : E(reftable', p) = E(reftable, p)
  BY <1>1, <1>6, <1>7
<1>9. E(reftable', o) = {}
  BY <1>1, <1>6, <1>7
<1>10. U(reftable') = U(reftable) \ {e} /\ e \in U(reftable)
  BY <1>1, <1>6, <1>7
<1> HIDE DEF E, U
<1>11. Cardinality(U(reftable')) = Cardinality(U(reftable)) - 1
  BY <1>3, <1>10, FS_RemoveElement
<1>12. num_references' = Cardinality(U(reftable')) /\ num_references' \in 0 .. NumSlots
  <2>1. Cardinality(U(reftable')) \in Nat
    BY <1>3, FS_CardinalityType
  <2>2. QED
    BY <1>1, <1>4, <1>11, <2>1, SlotsFinite
<1>13. Cardinality(E(reftable', o)) = 0
  BY <1>9, FS_EmptySet
<1>14. \A p \in Objects : Cardinality(E(reftable', p)) = IF phase'[p] = "live" THEN 1 ELSE 0
  BY <1>1, <1>4, <1>8, <1>13
<1>15. TableInv'
  BY <1>12, <1>14 DEF TableInv, Entry, E, U
<1>16. QED
  BY <1>2, <1>12, <1>15

(* A step that neither makes nor takes out an object.                      *)
LEMMA TableStays ==
  ASSUME TypeOK, TableInv, UNCHANGED table,
         \A o \in Objects : phase'[o] = "live" <=> phase[o] = "live"
  PROVE  TableInv'
  BY DEF TableInv, Entry, table

-----------------------------------------------------------------------------
(* What the invariant says of an object.                                   *)

(* The types of the variables, one by one.                                 *)
LEMMA TypesAre ==
  ASSUME TypeOK
  PROVE  /\ todo \in [Threads -> Seq(Things)]
         /\ handles \in [Threads -> [Objects -> 0 .. MaxHandles]]
         /\ MaxHandles \in Nat /\ Null \notin Objects
         /\ \A t \in Threads, o \in Objects : handles[t][o] \in Nat
         /\ \A o \in Objects : external[o] \in Nat /\ internal[o] \in Nat
         /\ \A W : Often(todo, W) \in Nat
         /\ \A o \in Objects : Hands(handles, o) \in Nat
         /\ \A o, k : Holders(holds, o, k) \in Nat
<1>1. /\ todo \in [Threads -> Seq(Things)] /\ handles \in [Threads -> [Objects -> 0 .. MaxHandles]]
      /\ external \in [Objects -> Nat] /\ internal \in [Objects -> Nat]
  BY DEF TypeOK
<1>2. MaxHandles \in Nat /\ Null \notin Objects
  BY BoundsAssumption, ObjectsAssumption
<1>3. \A W : Often(todo, W) \in Nat
  BY <1>1, OftenIs
<1>4. \A o \in Objects : Hands(handles, o) \in Nat
  BY <1>1, HandsAre
<1>5. \A o, k : Holders(holds, o, k) \in Nat
  BY HoldersAre
<1>6. \A t \in Threads, o \in Objects : handles[t][o] \in Nat
  BY <1>1, <1>2
<1>7. \A o \in Objects : external[o] \in Nat /\ internal[o] \in Nat
  BY <1>1
<1>8. QED
  BY <1>1, <1>2, <1>3, <1>4, <1>5, <1>6, <1>7

(* An entry of a list that is to be done: what it is counted under.        *)
LEMMA Entries ==
  ASSUME TypeOK, NEW t \in Threads, NEW i, i \in DOMAIN todo[t]
  PROVE  /\ todo[t][i] \in Things
         /\ \A W : todo[t][i] \in W => Often(todo, W) > 0
<1>1. todo \in [Threads -> Seq(Things)]
  BY DEF TypeOK
<1>2. todo[t] \in Seq(Things)
  BY <1>1
<1>3. todo[t][i] \in Things
  BY <1>2, LenProperties
<1>4. QED
  BY <1>1, <1>3, OftenIs

(* What the application has is live, and counted.                          *)
LEMMA HasCounted ==
  ASSUME IInv, NEW t \in Threads, NEW o \in Objects, handles[t][o] > 0
  PROVE  /\ context = "live" /\ phase[o] = "live"
         /\ external[o] > 0 /\ Often(todo, TakeOuts(o)) = 0
<1>1. phase[o] = "live"
  BY DEF IInv, HandlesInv
<1>2. context = "live"
  <2>1. context # "live" => handles[t][o] = 0
    BY DEF IInv, CollectInv
  <2>2. QED
    BY <2>1
<1>3. handles \in [Threads -> [Objects -> 0 .. MaxHandles]]
  BY DEF IInv, TypeOK
<1>4. Hands(handles, o) > 0
  BY <1>3, HandsAre
<1>5. external[o] = Hands(handles, o) + Holders(holds, o, "external") + Often(todo, Decrements(o, "external"))
      /\ (external[o] + internal[o] = 0 <=> Often(todo, TakeOuts(o)) > 0)
  BY <1>1, <1>2 DEF IInv, CountInv, CountOf
<1>6. TypeOK
  BY DEF IInv
<1>7. /\ external[o] \in Nat /\ internal[o] \in Nat /\ Often(todo, TakeOuts(o)) \in Nat
      /\ Hands(handles, o) \in Nat /\ Holders(holds, o, "external") \in Nat
      /\ Often(todo, Decrements(o, "external")) \in Nat
  BY <1>6, TypesAre
<1>8. QED
  BY <1>1, <1>2, <1>4, <1>5, <1>7

(* What is being counted as a parameter is something a thread has.         *)
LEMMA IncrementsAreHeld ==
  ASSUME IInv, NEW o \in Objects, Often(todo, IncrementsOf(o)) > 0
  PROVE  \E t \in Threads : handles[t][o] > 0
<1>1. TypeOK /\ todo \in [Threads -> Seq(Things)]
  BY DEF IInv, TypeOK
<1>2. PICK t \in Threads : \E i \in DOMAIN todo[t] : todo[t][i] \in IncrementsOf(o)
  BY <1>1, OftenIs
<1>6. PICK i \in DOMAIN todo[t] : todo[t][i] \in IncrementsOf(o)
  BY <1>2
<1>3. todo[t][i].do = "increment" /\ todo[t][i].ref = o
  BY <1>6 DEF IncrementsOf, Increment
<1>4. Reason(handles, holds, phase, context, t, todo[t][i])
  BY <1>2 DEF IInv, TodoInv
<1>5. QED
  BY <1>3, <1>4 DEF Reason

(* It is counted for as many nodes as hold it.                             *)
LEMMA IncrementsHold ==
  ASSUME IInv, NEW o \in Objects
  PROVE  Often(todo, IncrementsOf(o)) <= Holders(holds, o, "internal")
<1> DEFINE P == {l \in UNION {{t} \X DOMAIN todo[t] : t \in Threads} : todo[l[1]][l[2]] \in IncrementsOf(o)}
           H == {p \in Objects : <<p, o>> \in holds /\ HeldKind(p) = "internal"}
           f == [l \in P |-> todo[l[1]][l[2]].by]
<1>1. TypeOK /\ todo \in [Threads -> Seq(Things)]
  BY DEF IInv, TypeOK
<1>2. ASSUME NEW l \in P
      PROVE  /\ l[1] \in Threads /\ l[2] \in DOMAIN todo[l[1]] /\ l = <<l[1], l[2]>>
             /\ f[l] \in Nodes /\ todo[l[1]][l[2]] \in IncrementsBy(f[l])
             /\ f[l] \in H
  <2>1. PICK t \in Threads : \E i \in DOMAIN todo[t] : l = <<t, i>> /\ todo[t][i] \in IncrementsOf(o)
    OBVIOUS
  <2>12. PICK i \in DOMAIN todo[t] : l = <<t, i>> /\ todo[t][i] \in IncrementsOf(o)
    BY <2>1
  <2> DEFINE x == todo[t][i]
  <2>11. x \in IncrementsOf(o) /\ f[l] = x.by /\ l[1] = t /\ l[2] = i
    BY <2>12
  <2> HIDE DEF f, P, H
  <2>2. PICK n \in Nodes : x = Increment(n, o)
    BY <2>11 DEF IncrementsOf
  <2>3. x.by = n /\ x.ref = o /\ x.do = "increment"
    BY <2>2 DEF Increment
  <2>4. x \in Things
    BY <1>1, <2>1, Entries
  <2>5. o \in Parameters
    BY <2>3, <2>4, ThingsOf
  <2>6. x \in IncrementsBy(n)
    BY <2>2, <2>5 DEF IncrementsBy
  <2>7. Reason(handles, holds, phase, context, t, x)
    BY <2>1 DEF IInv, TodoInv
  <2>8. <<n, o>> \in holds
    BY <2>3, <2>7 DEF Reason
  <2>9. n \in Objects /\ HeldKind(n) = "internal"
    BY <2>2, OneType, HeldKinds
  <2>10. QED
    BY <2>3, <2>6, <2>8, <2>9, <2>11, <2>12 DEF H
<1>3. ASSUME NEW l \in P, NEW m \in P, f[l] = f[m] PROVE l = m
  <2>1. Often(todo, IncrementsBy(f[l])) <= 1
    BY <1>2 DEF IInv, OnceInv
  <2> HIDE DEF f, P
  <2>2. /\ l[1] \in Threads /\ l[2] \in DOMAIN todo[l[1]] /\ l = <<l[1], l[2]>>
        /\ todo[l[1]][l[2]] \in IncrementsBy(f[l])
    BY <1>2
  <2>3. /\ m[1] \in Threads /\ m[2] \in DOMAIN todo[m[1]] /\ m = <<m[1], m[2]>>
        /\ todo[m[1]][m[2]] \in IncrementsBy(f[l])
    BY <1>2, <1>3
  <2>4. l[1] = m[1] /\ l[2] = m[2]
    BY <1>1, <2>1, <2>2, <2>3, OftenIs
  <2>5. QED
    BY <2>2, <2>3, <2>4, Zenon
<1>4. IsFiniteSet(H)
  BY ObjectsAssumption, FS_Subset
<1>5. f \in [P -> H]
  BY <1>2
<1>6. Often(todo, IncrementsOf(o)) = Cardinality(P) /\ Holders(holds, o, "internal") = Cardinality(H)
  BY DEF Often, Holders
<1> HIDE DEF f, P, H
<1>7. f \in Injection(P, H)
  BY <1>3, <1>5 DEF Injection, IsInjective
<1>8. QED
  BY <1>4, <1>6, <1>7, FS_Injection

(* An object that does not exist yet: nothing refers to it.                *)
LEMMA NothingRefersToNew ==
  ASSUME IInv, context = "live", NEW o \in Objects, phase[o] = "none"
  PROVE  /\ internal[o] = 0 /\ Hands(handles, o) = 0
         /\ \A t \in Threads : handles[t][o] = 0
         /\ \A p \in Objects : <<p, o>> \notin holds
         /\ \A p \in Objects : o \notin Graphs => <<o, p>> \notin holds
         /\ \A k : Holders(holds, o, k) = 0 /\ Often(todo, Decrements(o, k)) = 0
         /\ Often(todo, IncrementsOf(o)) = 0 /\ Often(todo, TakeOuts(o)) = 0
<1>1. TypeOK /\ todo \in [Threads -> Seq(Things)] /\ handles \in [Threads -> [Objects -> 0 .. MaxHandles]]
  BY DEF IInv, TypeOK
<1>2. internal[o] = 0
  BY DEF IInv, CountInv, CountOf
<1>3. \A t \in Threads : handles[t][o] = 0
  <2>1. \A t \in Threads : handles[t][o] \in Nat
    BY <1>1, TypesAre
  <2>2. \A t \in Threads : ~ (handles[t][o] > 0)
    BY DEF IInv, HandlesInv
  <2>3. QED
    BY <2>1, <2>2
<1>4. Hands(handles, o) = 0
  BY <1>1, <1>3, HandsAre
<1>5. \A p \in Objects : <<p, o>> \notin holds /\ (o \notin Graphs => <<o, p>> \notin holds)
  BY DEF IInv, HoldsInv
<1>6. \A k : Holders(holds, o, k) = 0
  <2> TAKE k
  <2>1. ~ \E p \in Objects : <<p, o>> \in holds /\ HeldKind(p) = k
    BY <1>5
  <2>2. Holders(holds, o, k) \in Nat /\ ~ (Holders(holds, o, k) > 0)
    BY <2>1, HoldersAre
  <2>3. QED
    BY <2>2
<1>7. \A t \in Threads : \A i \in DOMAIN todo[t] :
        ~ (todo[t][i].do \in {"decrement", "take out"} /\ todo[t][i].ref = o)
  BY DEF IInv, TodoInv, Reason
<1>8. ASSUME NEW k PROVE Often(todo, Decrements(o, k)) = 0
  <2>1. Decrement(o, k).do = "decrement" /\ Decrement(o, k).ref = o
    BY DEF Decrement
  <2>2. \A t \in Threads : \A i \in DOMAIN todo[t] : todo[t][i] \notin Decrements(o, k)
    BY <1>7, <2>1 DEF Decrements
  <2>3. Often(todo, Decrements(o, k)) \in Nat /\ ~ (Often(todo, Decrements(o, k)) > 0)
    BY <1>1, <2>2, OftenIs
  <2>4. QED
    BY <2>3
<1>9. Often(todo, TakeOuts(o)) = 0
  <2>1. TakeOut(o).do = "take out" /\ TakeOut(o).ref = o
    BY DEF TakeOut
  <2>2. \A t \in Threads : \A i \in DOMAIN todo[t] : todo[t][i] \notin TakeOuts(o)
    BY <1>7, <2>1 DEF TakeOuts
  <2>3. Often(todo, TakeOuts(o)) \in Nat /\ ~ (Often(todo, TakeOuts(o)) > 0)
    BY <1>1, <2>2, OftenIs
  <2>4. QED
    BY <2>3
<1>10. Often(todo, IncrementsOf(o)) = 0
  <2>1. ~ (Often(todo, IncrementsOf(o)) > 0)
    BY <1>3, IncrementsAreHeld
  <2>2. QED
    BY <1>1, <2>1, OftenIs
<1>11. \A k : Holders(holds, o, k) = 0 /\ Often(todo, Decrements(o, k)) = 0
  BY <1>6, <1>8
<1>12. QED
  BY <1>2, <1>3, <1>4, <1>5, <1>9, <1>10, <1>11

(* While the context is in use an object that another one holds is live,   *)
(* and has a count.                                                        *)
LEMMA HeldHasCount ==
  ASSUME IInv, context = "live", NEW p \in Objects, NEW o \in Objects, <<p, o>> \in holds
  PROVE  /\ phase[o] = "live" /\ external[o] + internal[o] > 0
         /\ Often(todo, TakeOuts(o)) = 0
<1>1. phase[o] = "live"
  BY DEF IInv, HoldsInv
<1>2. TypeOK
  BY DEF IInv
<1>3. /\ external[o] \in Nat /\ internal[o] \in Nat /\ Often(todo, TakeOuts(o)) \in Nat
      /\ Hands(handles, o) \in Nat /\ Holders(holds, o, "external") \in Nat /\ Holders(holds, o, "internal") \in Nat
      /\ Often(todo, Decrements(o, "external")) \in Nat /\ Often(todo, Decrements(o, "internal")) \in Nat
      /\ Often(todo, IncrementsOf(o)) \in Nat
  BY <1>2, TypesAre
<1>4. /\ external[o] = Hands(handles, o) + Holders(holds, o, "external") + Often(todo, Decrements(o, "external"))
      /\ internal[o] + Often(todo, IncrementsOf(o))
           = Holders(holds, o, "internal") + Often(todo, Decrements(o, "internal"))
      /\ external[o] + internal[o] = 0 <=> Often(todo, TakeOuts(o)) > 0
  BY <1>1 DEF IInv, CountInv, CountOf
<1>5. CASE HeldKind(p) = "external"
  <2>1. Holders(holds, o, "external") > 0
    BY <1>5, HoldersAre
  <2>2. QED
    BY <1>1, <1>3, <1>4, <2>1
<1>6. CASE HeldKind(p) = "internal"
  <2>1. Holders(holds, o, "internal") > 0
    BY <1>6, HoldersAre
  <2>2. CASE Often(todo, IncrementsOf(o)) > 0
    <3>1. external[o] > 0
      BY <2>2, IncrementsAreHeld, HasCounted
    <3>2. QED
      BY <1>1, <1>3, <1>4, <3>1
  <2>3. CASE Often(todo, IncrementsOf(o)) = 0
    BY <1>1, <1>3, <1>4, <2>1, <2>3
  <2>4. QED
    BY <1>3, <2>2, <2>3
<1>7. QED
  BY <1>5, <1>6, HeldKinds DEF Kinds

-----------------------------------------------------------------------------
(* What every step of a call does to the lists.                            *)

(* The first thing to do.                                                  *)
LEMMA StepBegins ==
  ASSUME TypeOK, NEW t \in Threads, NEW what, Doing(t, what)
  PROVE  /\ todo[t] # <<>> /\ todo[t] \in Seq(Things) /\ First(t) = todo[t][1]
         /\ First(t) \in Things /\ First(t).do = what
         /\ DOMAIN todo[t] = 1 .. Len(todo[t]) /\ Len(todo[t]) \in Nat \ {0} /\ 1 \in DOMAIN todo[t]
<1>1. todo[t] # <<>> /\ Head(todo[t]).do = what
  BY DEF Doing
<1>2. todo[t] \in Seq(Things)
  BY DEF TypeOK
<1>3. /\ Head(todo[t]) = todo[t][1] /\ Head(todo[t]) \in Things
      /\ Len(todo[t]) \in Nat \ {0} /\ DOMAIN todo[t] = 1 .. Len(todo[t])
  BY <1>1, <1>2, HeadAndTail
<1>4. 1 \in DOMAIN todo[t]
  BY <1>3
<1>5. QED
  BY <1>1, <1>2, <1>3, <1>4 DEF First

(* The first thing on a list is done, and more put in front.               *)
LEMMA ContinuedCounts ==
  ASSUME TypeOK, NEW t \in Threads, todo[t] # <<>>, NEW more \in Seq(Things), Continue(t, more)
  PROVE  /\ todo' \in [Threads -> Seq(Things)]
         /\ After(todo[t], more, todo'[t]) /\ \A u \in Threads \ {t} : todo'[u] = todo[u]
         /\ \A W : Often(todo', W) = Often(todo, W) - In(todo[t][1], W) + Count(more, W)
<1> DEFINE q == todo[t]
           r == more \o Tail(q)
<1>8. todo \in [Threads -> Seq(Things)]
  BY DEF TypeOK
<1>1. q \in Seq(Things) /\ q # <<>>
  BY <1>8
<1>2. todo' = [todo EXCEPT ![t] = r]
  BY DEF Continue
<1> HIDE DEF q
<1>3. /\ After(q, more, r)
      /\ \A W : Count(r, W) = Count(q, W) - In(q[1], W) + Count(more, W)
  BY <1>1, Continued
<1> HIDE DEF r
<1>4. r \in Seq(Things)
  BY <1>3 DEF After
<1>5. todo' \in [Threads -> Seq(Things)] /\ todo'[t] = r /\ \A u \in Threads \ {t} : todo'[u] = todo[u]
  BY <1>2, <1>4, <1>8
<1>6. ASSUME NEW W
      PROVE  Often(todo', W) = Often(todo, W) - In(q[1], W) + Count(more, W)
  <2>1. /\ Often(todo, W) \in Nat
        /\ Often([todo EXCEPT ![t] = r], W) = Often(todo, W) - Count(todo[t], W) + Count(r, W)
    BY <1>4, <1>8, Counting
  <2>2. Count(q, W) \in Nat /\ Count(more, W) \in Nat /\ In(q[1], W) \in Nat
    BY <1>1, CountIsNat DEF In
  <2>3. Count(todo[t], W) = Count(q, W)
    BY DEF q
  <2>4. Count(r, W) = Count(q, W) - In(q[1], W) + Count(more, W)
    BY <1>3
  <2>5. Often(todo', W) = Often([todo EXCEPT ![t] = r], W)
    BY <1>2
  <2>6. QED
    BY <2>1, <2>2, <2>3, <2>4, <2>5
<1>7. QED
  BY <1>3, <1>5, <1>6 DEF q

(* A call counts what it puts on an empty list.                            *)
LEMMA NewCounts ==
  ASSUME TypeOK, NEW t \in Threads, todo[t] = <<>>, NEW q \in Seq(Things),
         todo' = [todo EXCEPT ![t] = q]
  PROVE  /\ todo' \in [Threads -> Seq(Things)] /\ todo'[t] = q
         /\ \A u \in Threads \ {t} : todo'[u] = todo[u]
         /\ \A W : Often(todo', W) = Often(todo, W) + Count(q, W)
<1>3. todo \in [Threads -> Seq(Things)]
  BY DEF TypeOK
<1>1. ASSUME NEW W
      PROVE  Often(todo', W) = Often(todo, W) + Count(q, W)
  <2>1. /\ Often(todo, W) \in Nat
        /\ Often([todo EXCEPT ![t] = q], W) = Often(todo, W) - Count(todo[t], W) + Count(q, W)
    BY <1>3, Counting
  <2>2. Count(todo[t], W) = Count(<<>>, W)
    OBVIOUS
  <2>3. Count(<<>>, W) = 0 /\ Count(q, W) \in Nat
    BY CountOfShort, CountIsNat
  <2>4. QED
    BY <2>1, <2>2, <2>3
<1>2. QED
  BY <1>1, <1>3

(* A step counts what it did, and what it puts in front.                   *)
LEMMA StepCounts ==
  ASSUME TypeOK, NEW t \in Threads, todo[t] # <<>>,
         NEW more \in Seq(Things), Continue(t, more)
  PROVE  /\ todo' \in [Threads -> Seq(Things)]
         /\ After(todo[t], more, todo'[t]) /\ \A u \in Threads \ {t} : todo'[u] = todo[u]
         /\ \A W : Often(todo, W) \in Nat /\ In(todo[t][1], W) \in Nat /\ Count(more, W) \in Nat
         /\ \A W : Often(todo', W) = Often(todo, W) - In(todo[t][1], W) + Count(more, W)
         /\ \A u \in Threads : \A i \in DOMAIN todo'[u] :
              \/ \E j \in 1 .. Len(more) : u = t /\ i = j /\ todo'[u][i] = more[j]
              \/ \E j \in DOMAIN todo[u] :
                   /\ todo'[u][i] = todo[u][j] /\ (u = t => j # 1)
                   /\ i < Len(todo'[u]) => j < Len(todo[u]) /\ todo'[u][i + 1] = todo[u][j + 1]
<1>1. todo \in [Threads -> Seq(Things)]
  BY DEF TypeOK
<1>3. /\ todo' \in [Threads -> Seq(Things)]
      /\ After(todo[t], more, todo'[t]) /\ \A u \in Threads \ {t} : todo'[u] = todo[u]
      /\ \A W : Often(todo', W) = Often(todo, W) - In(todo[t][1], W) + Count(more, W)
  BY ContinuedCounts
<1>4. \A W : Often(todo, W) \in Nat /\ In(todo[t][1], W) \in Nat /\ Count(more, W) \in Nat
  BY <1>1, OftenIs, CountIsNat DEF In
<1>5. ASSUME NEW u \in Threads, NEW i, i \in DOMAIN todo'[u]
      PROVE  \/ \E j \in 1 .. Len(more) : u = t /\ i = j /\ todo'[u][i] = more[j]
             \/ \E j \in DOMAIN todo[u] :
                  /\ todo'[u][i] = todo[u][j] /\ (u = t => j # 1)
                  /\ i < Len(todo'[u]) => j < Len(todo[u]) /\ todo'[u][i + 1] = todo[u][j + 1]
  <2>1. CASE u # t
    BY <1>3, <1>5, <2>1
  <2>2. CASE u = t
    <3> DEFINE q == todo[t]
               r == todo'[t]
               l == Len(more)
    <3>1. After(q, more, r) /\ i \in DOMAIN r
      BY <1>3, <1>5, <2>2
    <3>2. l \in Nat /\ DOMAIN r = 1 .. Len(r) /\ Len(r) \in Nat /\ DOMAIN q = 1 .. Len(q)
      BY <3>1 DEF After
    <3> HIDE DEF q, r
    <3>3. \/ i \in 1 .. l /\ r[i] = more[i]
          \/ /\ i > l /\ i - l + 1 \in DOMAIN q /\ r[i] = q[i - l + 1]
             /\ i < Len(r) => i - l + 1 < Len(q) /\ r[i + 1] = q[i - l + 2]
      BY <3>1, Places
    <3> HIDE DEF l
    <3>4. CASE i \in 1 .. l /\ r[i] = more[i]
      BY <2>2, <3>4 DEF r, l
    <3>5. CASE /\ i > l /\ i - l + 1 \in DOMAIN q /\ r[i] = q[i - l + 1]
               /\ i < Len(r) => i - l + 1 < Len(q) /\ r[i + 1] = q[i - l + 2]
      <4> DEFINE j == i - l + 1
      <4>1. j # 1 /\ j + 1 = i - l + 2
        BY <3>1, <3>2, <3>5
      <4>2. /\ j \in DOMAIN q /\ r[i] = q[j]
            /\ i < Len(r) => j < Len(q) /\ r[i + 1] = q[j + 1]
        BY <3>5, <4>1
      <4> HIDE DEF j
      <4>3. QED
        BY <2>2, <4>1, <4>2 DEF r, q
    <3>6. QED
      BY <3>3, <3>4, <3>5
  <2>3. QED
    BY <2>1, <2>2
<1>6. QED
  BY <1>3, <1>4, <1>5

(* What is counted when at most three things are put in front.             *)
LEMMA CountsOfShort ==
  /\ <<>> \in Seq(Things) /\ Len(<<>>) = 0 /\ \A W : Count(<<>>, W) = 0
  /\ \A x \in Things : /\ <<x>> \in Seq(Things) /\ Len(<<x>>) = 1 /\ <<x>>[1] = x
                       /\ \A W : Count(<<x>>, W) = In(x, W)
  /\ \A x, y \in Things : /\ <<x, y>> \in Seq(Things) /\ Len(<<x, y>>) = 2
                          /\ <<x, y>>[1] = x /\ <<x, y>>[2] = y
                          /\ \A W : Count(<<x, y>>, W) = In(x, W) + In(y, W)
  /\ \A x, y, z \in Things : /\ <<x, y, z>> \in Seq(Things) /\ Len(<<x, y, z>>) = 3
                             /\ <<x, y, z>>[1] = x /\ <<x, y, z>>[2] = y /\ <<x, y, z>>[3] = z
                             /\ \A W : Count(<<x, y, z>>, W) = In(x, W) + In(y, W) + In(z, W)
<1>1. /\ \A W : Count(<<>>, W) = 0
      /\ \A x \in Things : \A W : Count(<<x>>, W) = In(x, W)
      /\ \A x, y \in Things : \A W : Count(<<x, y>>, W) = In(x, W) + In(y, W)
      /\ \A x, y, z \in Things : \A W : Count(<<x, y, z>>, W) = In(x, W) + In(y, W) + In(z, W)
  BY CountOfShort
<1>2. <<>> \in Seq(Things) /\ Len(<<>>) = 0
  OBVIOUS
<1>3. \A x \in Things : <<x>> \in Seq(Things) /\ Len(<<x>>) = 1 /\ <<x>>[1] = x
  OBVIOUS
<1>4. \A x, y \in Things : /\ <<x, y>> \in Seq(Things) /\ Len(<<x, y>>) = 2
                           /\ <<x, y>>[1] = x /\ <<x, y>>[2] = y
  OBVIOUS
<1>5. \A x, y, z \in Things : /\ <<x, y, z>> \in Seq(Things) /\ Len(<<x, y, z>>) = 3
                              /\ <<x, y, z>>[1] = x /\ <<x, y, z>>[2] = y /\ <<x, y, z>>[3] = z
  OBVIOUS
<1>6. QED
  BY <1>1, <1>2, <1>3, <1>4, <1>5

(* What is counted when nothing is put in front.                           *)
LEMMA StepNone ==
  ASSUME TypeOK, NEW t \in Threads, todo[t] # <<>>, Continue(t, <<>>)
  PROVE  /\ todo' \in [Threads -> Seq(Things)]
         /\ \A W : /\ Often(todo, W) \in Nat /\ Often(todo', W) \in Nat
                  /\ Often(todo', W) = Often(todo, W) - In(todo[t][1], W)
<1>1. <<>> \in Seq(Things)
  BY CountsOfShort
<1>2. \A W : Count(<<>>, W) = 0
  BY CountsOfShort
<1>3. /\ todo' \in [Threads -> Seq(Things)]
      /\ \A W : Often(todo, W) \in Nat
      /\ \A W : Often(todo', W) = Often(todo, W) - In(todo[t][1], W) + Count(<<>>, W)
  BY <1>1, StepCounts
<1>4. \A W : Often(todo', W) \in Nat
  BY <1>3, OftenIs
<1>5. \A W : In(todo[t][1], W) \in Nat
  BY DEF In
<1>6. QED
  BY <1>2, <1>3, <1>4, <1>5

(* What is counted when one thing is put in front.                         *)
LEMMA StepOne ==
  ASSUME TypeOK, NEW t \in Threads, todo[t] # <<>>, NEW y \in Things, Continue(t, <<y>>)
  PROVE  /\ todo' \in [Threads -> Seq(Things)]
         /\ \A W : /\ Often(todo, W) \in Nat /\ Often(todo', W) \in Nat
                  /\ Often(todo', W) = Often(todo, W) - In(todo[t][1], W) + In(y, W)
<1>1. <<y>> \in Seq(Things)
  BY CountsOfShort
<1>2. \A W : Count(<<y>>, W) = In(y, W)
  BY CountsOfShort
<1>3. /\ todo' \in [Threads -> Seq(Things)]
      /\ \A W : Often(todo, W) \in Nat
      /\ \A W : Often(todo', W) = Often(todo, W) - In(todo[t][1], W) + Count(<<y>>, W)
  BY <1>1, StepCounts
<1>4. \A W : Often(todo', W) \in Nat
  BY <1>3, OftenIs
<1>5. \A W : In(todo[t][1], W) \in Nat /\ In(y, W) \in Nat
  BY DEF In
<1>6. QED
  BY <1>2, <1>3, <1>4, <1>5

(* When two things are.                                                    *)
LEMMA StepTwo ==
  ASSUME TypeOK, NEW t \in Threads, todo[t] # <<>>, NEW y \in Things, NEW z \in Things, Continue(t, <<y, z>>)
  PROVE  /\ todo' \in [Threads -> Seq(Things)]
         /\ \A W : /\ Often(todo, W) \in Nat /\ Often(todo', W) \in Nat
                  /\ Often(todo', W) = Often(todo, W) - In(todo[t][1], W) + In(y, W) + In(z, W)
<1>1. <<y, z>> \in Seq(Things)
  BY CountsOfShort
<1>2. \A W : Count(<<y, z>>, W) = In(y, W) + In(z, W)
  BY CountsOfShort
<1>3. /\ todo' \in [Threads -> Seq(Things)]
      /\ \A W : Often(todo, W) \in Nat
      /\ \A W : Often(todo', W) = Often(todo, W) - In(todo[t][1], W) + Count(<<y, z>>, W)
  BY <1>1, StepCounts
<1>4. \A W : Often(todo', W) \in Nat
  BY <1>3, OftenIs
<1>5. \A W : In(todo[t][1], W) \in Nat /\ In(y, W) \in Nat /\ In(z, W) \in Nat
  BY DEF In
<1>6. ASSUME NEW W
      PROVE  /\ Often(todo, W) \in Nat /\ Often(todo', W) \in Nat
             /\ Often(todo', W) = Often(todo, W) - In(todo[t][1], W) + In(y, W) + In(z, W)
  <2> DEFINE m == Count(<<y, z>>, W)
  <2>1. m = In(y, W) + In(z, W)
    BY <1>2
  <2>2. /\ Often(todo, W) \in Nat /\ Often(todo', W) \in Nat
        /\ Often(todo', W) = Often(todo, W) - In(todo[t][1], W) + m
    BY <1>3, <1>4
  <2> HIDE DEF m
  <2>3. QED
    BY <1>5, <2>1, <2>2
<1>7. QED
  BY <1>3, <1>6

(* When three things are.                                                  *)
LEMMA StepThree ==
  ASSUME TypeOK, NEW t \in Threads, todo[t] # <<>>, NEW y \in Things, NEW z \in Things, NEW w \in Things, Continue(t, <<y, z, w>>)
  PROVE  /\ todo' \in [Threads -> Seq(Things)]
         /\ \A W : /\ Often(todo, W) \in Nat /\ Often(todo', W) \in Nat
                  /\ Often(todo', W) = Often(todo, W) - In(todo[t][1], W) + In(y, W) + In(z, W) + In(w, W)
<1>1. <<y, z, w>> \in Seq(Things)
  BY CountsOfShort
<1>2. \A W : Count(<<y, z, w>>, W) = In(y, W) + In(z, W) + In(w, W)
  BY CountsOfShort
<1>3. /\ todo' \in [Threads -> Seq(Things)]
      /\ \A W : Often(todo, W) \in Nat
      /\ \A W : Often(todo', W) = Often(todo, W) - In(todo[t][1], W) + Count(<<y, z, w>>, W)
  BY <1>1, StepCounts
<1>4. \A W : Often(todo', W) \in Nat
  BY <1>3, OftenIs
<1>5. \A W : In(todo[t][1], W) \in Nat /\ In(y, W) \in Nat /\ In(z, W) \in Nat /\ In(w, W) \in Nat
  BY DEF In
<1>6. ASSUME NEW W
      PROVE  /\ Often(todo, W) \in Nat /\ Often(todo', W) \in Nat
             /\ Often(todo', W) = Often(todo, W) - In(todo[t][1], W) + In(y, W) + In(z, W) + In(w, W)
  <2> DEFINE m == Count(<<y, z, w>>, W)
  <2>1. m = In(y, W) + In(z, W) + In(w, W)
    BY <1>2
  <2>2. /\ Often(todo, W) \in Nat /\ Often(todo', W) \in Nat
        /\ Often(todo', W) = Often(todo, W) - In(todo[t][1], W) + m
    BY <1>3, <1>4
  <2> HIDE DEF m
  <2>3. QED
    BY <1>5, <2>1, <2>2
<1>7. QED
  BY <1>3, <1>6

(* Nothing, or one thing, put in front.                                    *)
LEMMA ShortPrecedes ==
  /\ \A q : MayPrecede(<<>>, q)
  /\ \A i \in 1 .. Len(<<>>) : FALSE
  /\ \A x \in Things : \A i \in 1 .. Len(<<x>>) : i = 1 /\ <<x>>[i] = x
  /\ \A q : \A x \in Things : x.do \in {"decrement", "take out"} => MayPrecede(<<x>>, q)
<1>1. Len(<<>>) = 0 /\ 1 .. 0 = {}
  OBVIOUS
<1>2. \A i \in 1 .. Len(<<>>) : FALSE
  BY <1>1
<1>3. \A q : MayPrecede(<<>>, q)
  BY <1>2 DEF MayPrecede
<1>4. \A x \in Things : \A i \in 1 .. Len(<<x>>) : i = 1 /\ <<x>>[i] = x
  <2>1. \A x \in Things : Len(<<x>>) = 1 /\ <<x>>[1] = x
    BY CountsOfShort
  <2>2. QED
    BY <2>1
<1>5. ASSUME NEW q, NEW x \in Things, x.do \in {"decrement", "take out"}
      PROVE  MayPrecede(<<x>>, q)
  BY <1>4, <1>5 DEF MayPrecede
<1>6. QED
  BY <1>2, <1>3, <1>4, <1>5

(* After a step everything that is to be done still has its reason, when   *)
(* what is put in front has and the step takes none away.                  *)
LEMMA TodoContinued ==
  ASSUME IInv, NEW t \in Threads, todo[t] # <<>>,
         NEW more \in Seq(Things), Continue(t, more), MayPrecede(more, todo[t]),
         \A i \in 1 .. Len(more) :
           /\ Reason(handles', holds', phase', context', t, more[i])
           /\ more[i].do = "node" => <<more[i + 1].ref, more[i].ref>> \in holds',
         \A u \in Threads : \A i \in DOMAIN todo[u] : (u = t => i # 1) =>
           /\ Reason(handles, holds, phase, context, u, todo[u][i])
                => Reason(handles', holds', phase', context', u, todo[u][i])
           /\ todo[u][i].do = "node" => <<todo[u][i + 1].ref, todo[u][i].ref>> \in holds'
  PROVE  TodoInv'
<1>1. /\ todo' \in [Threads -> Seq(Things)]
      /\ After(todo[t], more, todo'[t]) /\ \A u \in Threads \ {t} : todo'[u] = todo[u]
      /\ \A u \in Threads : \A i \in DOMAIN todo'[u] :
           \/ \E j \in 1 .. Len(more) : u = t /\ i = j /\ todo'[u][i] = more[j]
           \/ \E j \in DOMAIN todo[u] :
                /\ todo'[u][i] = todo[u][j] /\ (u = t => j # 1)
                /\ i < Len(todo'[u]) => j < Len(todo[u]) /\ todo'[u][i + 1] = todo[u][j + 1]
  BY StepCounts DEF IInv
<1>2. \A u \in Threads : Shape(todo[u])
  BY DEF IInv, TodoInv
<1>3. \A u \in Threads : Shape(todo'[u])
  <2>1. Shape(todo'[t])
    BY <1>1, <1>2, ShapeContinued
  <2>2. QED
    BY <1>1, <1>2, <2>1
<1>4. ASSUME NEW u \in Threads, NEW i, i \in DOMAIN todo'[u]
      PROVE  /\ Reason(handles', holds', phase', context', u, todo'[u][i])
             /\ todo'[u][i].do = "node" => <<todo'[u][i + 1].ref, todo'[u][i].ref>> \in holds'
  <2>1. todo'[u][i].do = "node" => i < Len(todo'[u])
    BY <1>3, <1>4 DEF Shape
  <2>2. CASE \E j \in 1 .. Len(more) : u = t /\ i = j /\ todo'[u][i] = more[j]
    <3>1. u = t /\ i \in 1 .. Len(more) /\ todo'[u][i] = more[i]
      BY <2>2
    <3>2. more[i].do = "node" => i + 1 \in 1 .. Len(more)
      <4>1. more[i].do = "node" => i < Len(more)
        BY <3>1 DEF MayPrecede
      <4>2. QED
        BY <1>1, <3>1, <4>1 DEF After
    <3>3. more[i].do = "node" => todo'[u][i + 1] = more[i + 1]
      BY <1>1, <3>1, <3>2 DEF After
    <3>4. QED
      BY <3>1, <3>3
  <2>3. CASE \E j \in DOMAIN todo[u] :
               /\ todo'[u][i] = todo[u][j] /\ (u = t => j # 1)
               /\ i < Len(todo'[u]) => j < Len(todo[u]) /\ todo'[u][i + 1] = todo[u][j + 1]
    <3>1. PICK j \in DOMAIN todo[u] :
               /\ todo'[u][i] = todo[u][j] /\ (u = t => j # 1)
               /\ i < Len(todo'[u]) => j < Len(todo[u]) /\ todo'[u][i + 1] = todo[u][j + 1]
      BY <2>3
    <3>2. Reason(handles, holds, phase, context, u, todo[u][j])
      BY DEF IInv, TodoInv
    <3>3. /\ Reason(handles', holds', phase', context', u, todo[u][j])
          /\ todo[u][j].do = "node" => <<todo[u][j + 1].ref, todo[u][j].ref>> \in holds'
      BY <3>1, <3>2
    <3>4. QED
      BY <2>1, <3>1, <3>3
  <2>4. QED
    BY <1>1, <1>4, <2>2, <2>3
<1>5. QED
  BY <1>3, <1>4 DEF TodoInv

(* After a call everything that is to be done has its reason.              *)
LEMMA TodoCalled ==
  ASSUME IInv, NEW t \in Threads, todo[t] = <<>>, NEW q \in Seq(Things),
         todo' = [todo EXCEPT ![t] = q], Shape(q),
         \A i \in 1 .. Len(q) :
           Reason(handles', holds', phase', context', t, q[i]) /\ q[i].do # "node",
         \A u \in Threads \ {t} : \A i \in DOMAIN todo[u] :
           /\ Reason(handles, holds, phase, context, u, todo[u][i])
                => Reason(handles', holds', phase', context', u, todo[u][i])
           /\ todo[u][i].do = "node" => <<todo[u][i + 1].ref, todo[u][i].ref>> \in holds'
  PROVE  TodoInv'
<1>1. todo'[t] = q /\ \A u \in Threads \ {t} : todo'[u] = todo[u]
  BY NewCounts DEF IInv
<1>2. DOMAIN q = 1 .. Len(q)
  BY LenProperties
<1>3. \A u \in Threads : Shape(todo'[u])
  BY <1>1 DEF IInv, TodoInv
<1>4. ASSUME NEW u \in Threads, NEW i, i \in DOMAIN todo'[u]
      PROVE  /\ Reason(handles', holds', phase', context', u, todo'[u][i])
             /\ todo'[u][i].do = "node" => <<todo'[u][i + 1].ref, todo'[u][i].ref>> \in holds'
  <2>1. CASE u = t
    BY <1>1, <1>2, <1>4, <2>1
  <2>2. CASE u # t
    <3>1. Reason(handles, holds, phase, context, u, todo[u][i])
      BY <1>1, <1>4, <2>2 DEF IInv, TodoInv
    <3>2. QED
      BY <1>1, <1>4, <2>2, <3>1
  <2>3. QED
    BY <2>1, <2>2
<1>5. QED
  BY <1>3, <1>4 DEF TodoInv

(* No image becomes a part of another one.                                 *)
LEMMA PartsKept ==
  ASSUME PartsInv, \A p, r \in Regions : <<p, r>> \in holds' => <<p, r>> \in holds
  PROVE  PartsInv'
<1> SUFFICES ASSUME NEW S \in SUBSET Regions, S # {}
             PROVE  \E r \in S : \A p \in S : <<p, r>> \notin holds'
  BY DEF PartsInv
<1>1. PICK r \in S : \A p \in S : <<p, r>> \notin holds
  BY DEF PartsInv
<1>2. QED
  BY <1>1

(* While the context is in use nothing is said of its collection.          *)
LEMMA NotCollecting ==
  ASSUME context' = "live"
  PROVE  CollectInv'
  BY DEF CollectInv

(* A step of the collection, other than the loop over the table.           *)
LEMMA CollectContinued ==
  ASSUME IInv, context' = context, NEW t \in Threads, todo[t] # <<>>,
         NEW more \in Seq(Things), Continue(t, more),
         todo[t][1].do # "collect",
         \A i \in 1 .. Len(more) : more[i].do # "collect",
         context # "live" => handles' = handles,
         context # "live" =>
           \A i \in 1 .. Len(more) :
             more[i].do = "decrement" /\ more[i].kind = "external" /\ more[i].ref \notin Items =>
               i = 1 /\ external'[more[i].ref] > 0,
         context # "live" =>
           \A s \in Slots : reftable'[s] # Null /\ external'[reftable'[s]] # 0 =>
             /\ reftable[s] # Null /\ external[reftable[s]] # 0
             /\ external[reftable[s]] = 1 => todo[t][1] # Decrement(reftable[s], "external")
  PROVE  CollectInv'
<1>1. /\ todo' \in [Threads -> Seq(Things)]
      /\ After(todo[t], more, todo'[t]) /\ \A u \in Threads \ {t} : todo'[u] = todo[u]
      /\ \A u \in Threads : \A i \in DOMAIN todo'[u] :
           \/ \E j \in 1 .. Len(more) : u = t /\ i = j /\ todo'[u][i] = more[j]
           \/ \E j \in DOMAIN todo[u] :
                /\ todo'[u][i] = todo[u][j] /\ (u = t => j # 1)
                /\ i < Len(todo'[u]) => j < Len(todo[u]) /\ todo'[u][i + 1] = todo[u][j + 1]
  BY StepCounts DEF IInv
<1>2. CASE context = "live"
  BY <1>2, NotCollecting
<1>3. CASE context = "collecting"
  <2>1. /\ \A u \in Threads, o \in Objects : handles[u][o] = 0
        /\ \A u, v \in Threads : todo[u] # <<>> /\ todo[v] # <<>> => u = v
    BY <1>3 DEF IInv, CollectInv
  <2>2. \A u \in Threads \ {t} : todo[u] = <<>> /\ todo'[u] = <<>>
    BY <1>1, <2>1
  <2>3. todo[t][Len(todo[t])].do = "collect"
    BY <1>3, <2>2 DEF IInv, CollectInv
  <2>4. todo'[t] # <<>> /\ todo'[t][Len(todo'[t])].do = "collect"
    <3> DEFINE q == todo[t]
               r == todo'[t]
               l == Len(more)
               m == Len(q)
               n == Len(r)
    <3>1. /\ l \in Nat /\ m \in Nat \ {0} /\ n = l + m - 1 /\ r \in Seq(Things)
          /\ \A k \in l + 1 .. n : r[k] = q[k - l + 1]
      BY <1>1 DEF After
    <3>2. m # 1
      BY <2>3
    <3> HIDE DEF l, m, n, q, r
    <3>3. n \in l + 1 .. n /\ n - l + 1 = m
      BY <3>1, <3>2
    <3>4. r[n] = q[m]
      BY <3>1, <3>3
    <3>5. Len(<<>>) = 0 /\ n # 0
      BY <3>1, <3>2
    <3>6. r # <<>>
      BY <3>5 DEF n
    <3>7. QED
      BY <2>3, <3>4, <3>6 DEF q, r, m, n
  <2>5. ASSUME NEW u \in Threads, NEW i, i \in DOMAIN todo'[u]
        PROVE  LET x == todo'[u][i] IN
               /\ x.do = "decrement" /\ x.kind = "external" /\ x.ref \notin Items =>
                    i = 1 /\ external'[x.ref] > 0
               /\ x.do = "collect" =>
                    \A s \in Slots : s < x.slot /\ reftable'[s] # Null /\ external'[reftable'[s]] # 0 =>
                      external'[reftable'[s]] = 1 /\ todo'[u][1] = Decrement(reftable'[s], "external")
    <3>1. CASE \E j \in 1 .. Len(more) : u = t /\ i = j /\ todo'[u][i] = more[j]
      BY <1>3, <3>1
    <3>2. CASE \E j \in DOMAIN todo[u] : todo'[u][i] = todo[u][j] /\ (u = t => j # 1)
      <4>1. PICK j \in DOMAIN todo[u] : todo'[u][i] = todo[u][j] /\ (u = t => j # 1)
        BY <3>2
      <4>2. u = t
        BY <1>1, <2>2, <2>5
      <4> DEFINE x == todo[u][j]
      <4>3. /\ x.do = "decrement" /\ x.kind = "external" /\ x.ref \notin Items => j = 1
            /\ x.do = "collect" =>
                 \A s \in Slots : s < x.slot /\ reftable[s] # Null /\ external[reftable[s]] # 0 =>
                   external[reftable[s]] = 1 /\ todo[u][1] = Decrement(reftable[s], "external")
        BY <1>3, <4>1 DEF IInv, CollectInv
      <4>4. QED
        BY <1>3, <4>1, <4>2, <4>3
    <3>3. QED
      BY <1>1, <2>5, <3>1, <3>2
  <2>6. /\ \A u \in Threads, o \in Objects : handles'[u][o] = 0
        /\ \A u, v \in Threads : todo'[u] # <<>> /\ todo'[v] # <<>> => u = v
    BY <1>3, <2>1, <2>2
  <2>7. QED
    BY <1>3, <2>4, <2>5, <2>6 DEF CollectInv
<1>4. CASE context = "gone"
  BY <1>4 DEF IInv, CollectInv
<1>5. QED
  BY <1>2, <1>3, <1>4 DEF IInv, TypeOK

-----------------------------------------------------------------------------
(* Every step keeps the invariant.                                         *)

(* ownIncrementReference.                                                  *)
LEMMA IncrementKeeps ==
  ASSUME IInv, NEW t \in Threads, IncrementReference(t)
  PROVE  IInv'
<1> DEFINE x == First(t)
           o == x.ref
<1>1. TypeOK /\ Doing(t, "increment")
  BY DEF IInv, IncrementReference
<1>2. /\ todo[t] # <<>> /\ x = todo[t][1] /\ x \in Things /\ x.do = "increment" /\ 1 \in DOMAIN todo[t]
      /\ x.ref \in Parameters /\ x.by \in Nodes
  BY <1>1, StepBegins, ThingsOf
<1>3. o \in Objects
  BY <1>2, OneType
<1>4. /\ internal' = [internal EXCEPT ![o] = @ + 1] /\ Continue(t, <<>>)
      /\ UNCHANGED <<context, phase, external, reftable, num_references, holds, handles>>
  BY DEF IncrementReference, table
<1>5. handles[t][o] > 0
  BY <1>2 DEF IInv, TodoInv, Reason
<1>6. context = "live" /\ phase[o] = "live" /\ external[o] > 0
  BY <1>3, <1>5, HasCounted
<1>7. /\ todo' \in [Threads -> Seq(Things)]
      /\ \A W : Often(todo, W) \in Nat /\ Often(todo', W) = Often(todo, W) - In(x, W)
  BY <1>1, <1>2, <1>4, StepNone
<1> HIDE DEF x
<1>8. /\ \A p, k : In(x, Decrements(p, k)) = 0
      /\ \A p \in Objects : In(x, IncrementsOf(p)) = IF p = o THEN 1 ELSE 0
      /\ \A n \in Nodes : In(x, IncrementsBy(n)) \in {0, 1}
      /\ \A p : In(x, TakeOuts(p)) = 0 /\ In(x, Frees(p)) = 0 /\ In(x, Destructs(p)) = 0
  BY <1>2, InIncrement
<1>9. TypeOK'
  BY <1>1, <1>3, <1>4, <1>7 DEF TypeOK
<1>10. TableInv'
  BY <1>1, <1>4, TableStays DEF IInv, table
<1>11. TodoInv'
  <2>1. <<>> \in Seq(Things)
    BY CountsOfShort
  <2>2. MayPrecede(<<>>, todo[t]) /\ \A i \in 1 .. Len(<<>>) : FALSE
    BY ShortPrecedes
  <2>3. \A u \in Threads : \A i \in DOMAIN todo[u] :
          todo[u][i].do = "node" => <<todo[u][i + 1].ref, todo[u][i].ref>> \in holds'
    BY <1>4 DEF IInv, TodoInv
  <2>4. QED
    BY <1>2, <1>4, <2>1, <2>2, <2>3, TodoContinued
<1>12. OnceInv'
  BY <1>7, <1>8 DEF IInv, OnceInv
<1>13. HoldsInv'
  BY <1>4, <1>7, <1>8 DEF IInv, HoldsInv
<1>14. PartsInv'
  BY <1>4, PartsKept DEF IInv
<1>15. HandlesInv'
  BY <1>4 DEF IInv, HandlesInv
<1>16. CountInv'
  <2> SUFFICES ASSUME NEW p \in Objects
               PROVE  /\ phase[p] = "none" => internal'[p] = 0
                      /\ phase[p] = "live" =>
                           /\ external[p] = Hands(handles, p) + Holders(holds, p, "external")
                                              + Often(todo', Decrements(p, "external"))
                           /\ internal'[p] + Often(todo', IncrementsOf(p))
                                = Holders(holds, p, "internal") + Often(todo', Decrements(p, "internal"))
                           /\ external[p] + internal'[p] = 0 <=> Often(todo', TakeOuts(p)) > 0
                      /\ phase[p] = "dying" => Often(todo', Frees(p)) > 0
    BY <1>4, <1>6 DEF CountInv, CountOf
  <2>1. /\ phase[p] = "none" => internal[p] = 0
        /\ phase[p] = "live" =>
             /\ external[p] = Hands(handles, p) + Holders(holds, p, "external")
                                + Often(todo, Decrements(p, "external"))
             /\ internal[p] + Often(todo, IncrementsOf(p))
                  = Holders(holds, p, "internal") + Often(todo, Decrements(p, "internal"))
             /\ external[p] + internal[p] = 0 <=> Often(todo, TakeOuts(p)) > 0
        /\ phase[p] = "dying" => Often(todo, Frees(p)) > 0
    BY <1>6 DEF IInv, CountInv, CountOf
  <2>2. /\ internal'[p] = IF p = o THEN internal[p] + 1 ELSE internal[p]
        /\ internal[p] \in Nat /\ external[p] \in Nat
    BY <1>1, <1>3, <1>4 DEF TypeOK
  <2>3. /\ Often(todo', Decrements(p, "external")) = Often(todo, Decrements(p, "external"))
        /\ Often(todo', Decrements(p, "internal")) = Often(todo, Decrements(p, "internal"))
        /\ Often(todo', TakeOuts(p)) = Often(todo, TakeOuts(p))
        /\ Often(todo', Frees(p)) = Often(todo, Frees(p))
        /\ Often(todo', IncrementsOf(p))
             = IF p = o THEN Often(todo, IncrementsOf(p)) - 1 ELSE Often(todo, IncrementsOf(p))
        /\ Often(todo, IncrementsOf(p)) \in Nat
    BY <1>7, <1>8
  <2>4. CASE p = o
    BY <1>6, <2>1, <2>2, <2>3, <2>4
  <2>5. CASE p # o
    BY <2>1, <2>2, <2>3, <2>5
  <2>6. QED
    BY <2>4, <2>5
<1>17. CollectInv'
  BY <1>4, <1>6, NotCollecting
<1>18. QED
  BY <1>9, <1>10, <1>11, <1>12, <1>13, <1>14, <1>15, <1>16, <1>17 DEF IInv

(* A thing that a thread has begun is the only one of its list that takes  *)
(* out an object; once the context is not in use, of all lists.            *)
LEMMA NoneTakenOut ==
  ASSUME IInv, context # "live", NEW t \in Threads, todo[t] # <<>>, todo[t][1].do # "take out", NEW o
  PROVE  Often(todo, TakeOuts(o)) = 0
<1>1. todo \in [Threads -> Seq(Things)]
  BY DEF IInv, TypeOK
<1>2. ASSUME NEW u \in Threads, NEW i, i \in DOMAIN todo[u]
      PROVE  todo[u][i] \notin TakeOuts(o)
  <2> SUFFICES ASSUME todo[u][i] = TakeOut(o) PROVE FALSE
    BY DEF TakeOuts
  <2>6. TakeOut(o).do = "take out"
    BY DEF TakeOut
  <2>1. todo[u][i].do = "take out"
    BY <2>6
  <2>2. i = 1
    BY <1>2, <2>1 DEF IInv, TodoInv, Shape
  <2>3. todo[u] # <<>>
    BY <1>1, <1>2, NotEmpty
  <2>4. u = t
    BY <2>3 DEF IInv, CollectInv
  <2>5. QED
    BY <2>1, <2>2, <2>4
<1>3. QED
  BY <1>1, <1>2, NeverDone

(* No count is clamped: a reference that is released was counted.          *)
LEMMA DecrementsWereCounted ==
  ASSUME IInv, NEW t \in Threads, todo[t] # <<>>, NEW o \in Objects, NEW k \in Kinds,
         todo[t][1] = Decrement(o, k), phase[o] = "live"
  PROVE  /\ k = "external" => external[o] > 0
         /\ k = "internal" => internal[o] > 0
<1>1. TypeOK /\ todo[t] \in Seq(Things)
  BY DEF IInv, TypeOK
<1>2. 1 \in DOMAIN todo[t] /\ todo[t][1].do = "decrement" /\ todo[t][1].ref = o /\ todo[t][1].kind = k
  BY <1>1, HeadAndTail DEF Decrement
<1>3. Often(todo, Decrements(o, k)) > 0
  BY <1>1, <1>2, Entries DEF Decrements
<1>4. /\ external[o] \in Nat /\ internal[o] \in Nat /\ Often(todo, TakeOuts(o)) \in Nat
      /\ Hands(handles, o) \in Nat /\ Holders(holds, o, "external") \in Nat /\ Holders(holds, o, "internal") \in Nat
      /\ Often(todo, Decrements(o, "external")) \in Nat /\ Often(todo, Decrements(o, "internal")) \in Nat
      /\ Often(todo, IncrementsOf(o)) \in Nat
  BY <1>1, TypesAre
<1>5. /\ context = "live" =>
           external[o] = Hands(handles, o) + Holders(holds, o, "external") + Often(todo, Decrements(o, "external"))
      /\ internal[o] + Often(todo, IncrementsOf(o))
           = Holders(holds, o, "internal") + Often(todo, Decrements(o, "internal"))
      /\ external[o] + internal[o] = 0 <=> Often(todo, TakeOuts(o)) > 0
  BY DEF IInv, CountInv, CountOf
<1>6. CASE k = "internal"
  <2>1. Often(todo, IncrementsOf(o)) <= Holders(holds, o, "internal")
    BY IncrementsHold
  <2>2. QED
    BY <1>3, <1>4, <1>5, <1>6, <2>1
<1>7. CASE k = "external"
  <2>1. CASE context = "live"
    BY <1>3, <1>4, <1>5, <1>7, <2>1
  <2>2. CASE context = "collecting" /\ o \notin Items
    <3>1. external[todo[t][1].ref] > 0
      BY <1>2, <1>7, <2>2 DEF IInv, CollectInv
    <3>2. QED
      BY <1>2, <1>7, <3>1
  <2>3. CASE context = "collecting" /\ o \in Items
    <3>1. Often(todo, TakeOuts(o)) = 0
      BY <1>2, <2>3, NoneTakenOut
    <3>2. Holders(holds, o, "internal") = 0
      <4>1. ASSUME NEW p \in Objects, <<p, o>> \in holds PROVE HeldKind(p) # "internal"
        <5>1. p \in Arrays
          BY <2>3, <4>1, OneType DEF IInv, HoldsInv
        <5>2. QED
          BY <5>1, HeldKinds
      <4>2. ~ (Holders(holds, o, "internal") > 0)
        BY <4>1, HoldersAre
      <4>3. QED
        BY <1>4, <4>2
    <3>3. Often(todo, Decrements(o, "internal")) = 0
      <4>1. todo \in [Threads -> Seq(Things)]
        BY DEF IInv, TypeOK
      <4>2. ASSUME NEW u \in Threads, NEW i, i \in DOMAIN todo[u] PROVE todo[u][i] \notin Decrements(o, "internal")
        <5>1. Reason(handles, holds, phase, context, u, todo[u][i])
          BY <4>2 DEF IInv, TodoInv
        <5>2. ~ (todo[u][i].do = "decrement" /\ todo[u][i].ref = o /\ todo[u][i].kind = "internal")
          BY <2>3, <5>1 DEF Reason
        <5>3. QED
          BY <5>2 DEF Decrements, Decrement
      <4>3. QED
        BY <4>1, <4>2, NeverDone
    <3>4. ~ (external[o] + internal[o] = 0)
      BY <1>4, <1>5, <3>1
    <3>5. internal[o] = 0
      <4>1. internal[o] + Often(todo, IncrementsOf(o)) = 0
        BY <1>5, <3>2, <3>3
      <4>2. QED
        BY <1>4, <4>1
    <3>6. QED
      BY <1>4, <1>7, <3>4, <3>5
  <2>4. CASE context = "gone"
    BY <2>4 DEF IInv, CollectInv
  <2>5. QED
    BY <1>1, <2>1, <2>2, <2>3, <2>4 DEF TypeOK
<1>8. QED
  BY <1>6, <1>7 DEF Kinds

(* ownReleaseReferenceInt up to the count.                                 *)
LEMMA DecrementKeeps ==
  ASSUME IInv, NEW t \in Threads, DecrementReference(t)
  PROVE  IInv'
<1> DEFINE x == First(t)
           o == x.ref
           k == x.kind
           out == phase[o] # "freed" /\ external'[o] + internal'[o] = 0
<1>1. TypeOK /\ Doing(t, "decrement")
  BY DEF IInv, DecrementReference
<1>2. /\ todo[t] # <<>> /\ x = todo[t][1] /\ x \in Things /\ x.do = "decrement" /\ 1 \in DOMAIN todo[t]
      /\ o \in Objects /\ k \in Kinds /\ x = Decrement(o, k)
  BY <1>1, StepBegins, ThingsOf
<1>3. UNCHANGED <<context, phase, reftable, num_references, holds, handles>>
  BY DEF DecrementReference, table
<1>4. Reason(handles, holds, phase, context, t, x)
  BY <1>2 DEF IInv, TodoInv
<1>5. /\ external \in [Objects -> Nat] /\ internal \in [Objects -> Nat]
      /\ \A p \in Objects : external[p] \in Nat /\ internal[p] \in Nat
  BY <1>1 DEF TypeOK
<1>6. \/ phase[o] = "freed" /\ Continue(t, <<>>) /\ UNCHANGED <<external, internal>>
      \/ /\ phase[o] # "freed"
         /\ external' = [external EXCEPT ![o] = IF k = "external" THEN Less(external[o]) ELSE external[o]]
         /\ internal' = [internal EXCEPT ![o] = IF k = "internal" THEN Less(internal[o]) ELSE internal[o]]
         /\ Continue(t, IF LastOf(external'[o], internal'[o]) THEN <<TakeOut(o)>> ELSE <<>>)
  <2> HIDE DEF x
  <2>1. \/ phase[o] = "freed" /\ Continue(t, <<>>) /\ UNCHANGED <<external, internal>>
        \/ LET ext == IF k = "external" THEN Less(external[o]) ELSE external[o]
               int == IF k = "internal" THEN Less(internal[o]) ELSE internal[o]
           IN /\ phase[o] # "freed"
              /\ external' = [external EXCEPT ![o] = ext]
              /\ internal' = [internal EXCEPT ![o] = int]
              /\ Continue(t, IF LastOf(ext, int) THEN <<TakeOut(o)>> ELSE <<>>)
    BY DEF DecrementReference, counts, x
  <2>2. QED
    BY <1>2, <1>5, <2>1
<1> HIDE DEF x
<1>7. /\ \A p \in Objects \ {o} : external'[p] = external[p] /\ internal'[p] = internal[p]
      /\ phase[o] = "freed" => external'[o] = external[o] /\ internal'[o] = internal[o]
      /\ phase[o] # "freed" =>
           /\ external'[o] = IF k = "external" THEN Less(external[o]) ELSE external[o]
           /\ internal'[o] = IF k = "internal" THEN Less(internal[o]) ELSE internal[o]
      /\ external' \in [Objects -> Nat] /\ internal' \in [Objects -> Nat]
  BY <1>2, <1>5, <1>6 DEF Less
<1>8. /\ out => Continue(t, <<TakeOut(o)>>)
      /\ ~ out => Continue(t, <<>>)
  BY <1>6 DEF LastOf
<1>9. /\ TakeOut(o) \in Things /\ TakeOut(o).do = "take out" /\ TakeOut(o).ref = o
  BY <1>2, ThingsTyped DEF TakeOut
<1>10. /\ todo' \in [Threads -> Seq(Things)]
       /\ \A W : /\ Often(todo, W) \in Nat /\ Often(todo', W) \in Nat
                 /\ Often(todo', W) = Often(todo, W) - In(x, W) + IF out THEN In(TakeOut(o), W) ELSE 0
  <2>1. CASE out
    BY <1>1, <1>2, <1>8, <1>9, <2>1, StepOne
  <2>2. CASE ~ out
    <3>1. /\ todo' \in [Threads -> Seq(Things)]
          /\ \A W : /\ Often(todo, W) \in Nat /\ Often(todo', W) \in Nat
                    /\ Often(todo', W) = Often(todo, W) - In(x, W)
      BY <1>1, <1>2, <1>8, <2>2, StepNone
    <3>2. \A W : In(x, W) \in Nat
      BY DEF In
    <3>3. QED
      BY <2>2, <3>1, <3>2
  <2>3. QED
    BY <2>1, <2>2
<1> HIDE DEF out
<1>11. /\ \A p \in Objects, j \in Kinds : Often(todo', Decrements(p, j)) =
             Often(todo, Decrements(p, j)) - IF p = o /\ j = k THEN 1 ELSE 0
       /\ \A p \in Objects : Often(todo', IncrementsOf(p)) = Often(todo, IncrementsOf(p))
       /\ \A n \in Nodes : Often(todo', IncrementsBy(n)) = Often(todo, IncrementsBy(n))
       /\ \A p \in Objects : Often(todo', TakeOuts(p)) =
             Often(todo, TakeOuts(p)) + IF p = o /\ out THEN 1 ELSE 0
       /\ \A p \in Objects : Often(todo', Frees(p)) = Often(todo, Frees(p))
       /\ \A p \in Objects : Often(todo', Destructs(p)) = Often(todo, Destructs(p))
  <2>1. /\ \A p, j : In(x, Decrements(p, j)) = IF p = o /\ j = k THEN 1 ELSE 0
        /\ \A p \in Objects : In(x, IncrementsOf(p)) = 0
        /\ \A n \in Nodes : In(x, IncrementsBy(n)) = 0
        /\ \A p : In(x, TakeOuts(p)) = 0
        /\ \A p : In(x, Frees(p)) = 0
        /\ \A p : In(x, Destructs(p)) = 0
    BY <1>2, InDecrement
  <2>2. /\ \A p, j : In(TakeOut(o), Decrements(p, j)) = 0
        /\ \A p \in Objects : In(TakeOut(o), IncrementsOf(p)) = 0
        /\ \A n \in Nodes : In(TakeOut(o), IncrementsBy(n)) = 0
        /\ \A p : In(TakeOut(o), TakeOuts(p)) = IF p = o THEN 1 ELSE 0
        /\ \A p : In(TakeOut(o), Frees(p)) = 0
        /\ \A p : In(TakeOut(o), Destructs(p)) = 0
    BY <1>9, InTakeOut
  <2>3. QED
    BY <1>10, <2>1, <2>2
<1>12. phase[o] # "live" => context = "collecting" /\ o \in Items /\ k = "external"
  BY <1>2, <1>4 DEF Reason
<1>13. phase[o] = "live" => (k = "external" => external[o] > 0) /\ (k = "internal" => internal[o] > 0)
  BY <1>2, DecrementsWereCounted
<1>14. Often(todo, TakeOuts(o)) = 0
  <2>1. CASE phase[o] = "live"
    <3>1. external[o] + internal[o] > 0
      BY <1>2, <1>5, <1>13, <2>1 DEF Kinds
    <3>2. external[o] + internal[o] = 0 <=> Often(todo, TakeOuts(o)) > 0
      BY <1>2, <2>1 DEF IInv, CountInv, CountOf
    <3>3. QED
      BY <1>2, <1>10, <3>1, <3>2
  <2>2. CASE phase[o] # "live"
    BY <1>2, <1>12, <2>2, NoneTakenOut
  <2>3. QED
    BY <2>1, <2>2
<1>15. TypeOK'
  BY <1>1, <1>3, <1>7, <1>10 DEF TypeOK
<1>16. TableInv'
  BY <1>1, <1>3, TableStays DEF IInv, table
<1>17. TodoInv'
  <2>1. \A u \in Threads : \A i \in DOMAIN todo[u] :
          todo[u][i].do = "node" => <<todo[u][i + 1].ref, todo[u][i].ref>> \in holds'
    BY <1>3 DEF IInv, TodoInv
  <2>2. CASE out
    <3>1. <<TakeOut(o)>> \in Seq(Things)
      BY <1>9, CountsOfShort
    <3>2. MayPrecede(<<TakeOut(o)>>, todo[t])
          /\ \A i \in 1 .. Len(<<TakeOut(o)>>) : <<TakeOut(o)>>[i] = TakeOut(o)
      BY <1>9, ShortPrecedes
    <3>3. Reason(handles', holds', phase', context', t, TakeOut(o))
      BY <1>3, <1>9, <1>12 DEF Reason
    <3>4. Continue(t, <<TakeOut(o)>>)
      BY <1>8, <2>2
    <3>5. QED
      BY <1>2, <1>3, <1>9, <2>1, <3>1, <3>2, <3>3, <3>4, TodoContinued
  <2>3. CASE ~ out
    <3>1. <<>> \in Seq(Things)
      BY CountsOfShort
    <3>2. MayPrecede(<<>>, todo[t]) /\ \A i \in 1 .. Len(<<>>) : FALSE
      BY ShortPrecedes
    <3>3. QED
      BY <1>2, <1>3, <1>8, <2>1, <2>3, <3>1, <3>2, TodoContinued
  <2>4. QED
    BY <2>2, <2>3
<1>18. OnceInv'
  <2>1. \A p \in Objects : Often(todo', TakeOuts(p)) <= 1 /\ Often(todo', Frees(p)) <= 1
    <3> SUFFICES ASSUME NEW p \in Objects
                 PROVE  Often(todo', TakeOuts(p)) <= 1 /\ Often(todo', Frees(p)) <= 1
      OBVIOUS
    <3>1. Often(todo, TakeOuts(p)) <= 1 /\ Often(todo, Frees(p)) <= 1 /\ Often(todo, TakeOuts(p)) \in Nat
      BY <1>10 DEF IInv, OnceInv
    <3>2. /\ Often(todo', TakeOuts(p)) = Often(todo, TakeOuts(p)) + IF p = o /\ out THEN 1 ELSE 0
          /\ Often(todo', Frees(p)) = Often(todo, Frees(p))
      BY <1>11
    <3>3. p = o => Often(todo, TakeOuts(p)) = 0
      BY <1>14
    <3>4. QED
      BY <3>1, <3>2, <3>3
  <2>2. \A n \in Nodes : Often(todo', IncrementsBy(n)) <= 1
    BY <1>11 DEF IInv, OnceInv
  <2>3. QED
    BY <2>1, <2>2 DEF OnceInv
<1>19. HoldsInv'
  BY <1>3, <1>11 DEF IInv, HoldsInv
<1>20. PartsInv'
  BY <1>3, PartsKept DEF IInv
<1>21. HandlesInv'
  BY <1>3 DEF IInv, HandlesInv
<1>22. CountInv'
  <2> SUFFICES ASSUME NEW p \in Objects
               PROVE  /\ phase[p] = "none" => internal'[p] = 0
                      /\ phase[p] = "live" =>
                           /\ context = "live" =>
                                external'[p] = Hands(handles, p) + Holders(holds, p, "external")
                                                 + Often(todo', Decrements(p, "external"))
                           /\ internal'[p] + Often(todo', IncrementsOf(p))
                                = Holders(holds, p, "internal") + Often(todo', Decrements(p, "internal"))
                           /\ external'[p] + internal'[p] = 0 <=> Often(todo', TakeOuts(p)) > 0
                      /\ phase[p] = "dying" => Often(todo', Frees(p)) > 0
    BY <1>3 DEF CountInv, CountOf
  <2>1. /\ phase[p] = "none" => internal[p] = 0
        /\ phase[p] = "live" =>
             /\ context = "live" =>
                  external[p] = Hands(handles, p) + Holders(holds, p, "external")
                                  + Often(todo, Decrements(p, "external"))
             /\ internal[p] + Often(todo, IncrementsOf(p))
                  = Holders(holds, p, "internal") + Often(todo, Decrements(p, "internal"))
             /\ external[p] + internal[p] = 0 <=> Often(todo, TakeOuts(p)) > 0
        /\ phase[p] = "dying" => Often(todo, Frees(p)) > 0
    BY DEF IInv, CountInv, CountOf
  <2>2. /\ Often(todo', IncrementsOf(p)) = Often(todo, IncrementsOf(p))
        /\ Often(todo', Frees(p)) = Often(todo, Frees(p))
        /\ \A j \in Kinds : Often(todo', Decrements(p, j)) =
             Often(todo, Decrements(p, j)) - IF p = o /\ j = k THEN 1 ELSE 0
        /\ Often(todo', TakeOuts(p)) = Often(todo, TakeOuts(p)) + IF p = o /\ out THEN 1 ELSE 0
    BY <1>11
  <2>3. /\ Hands(handles, p) \in Nat /\ Holders(holds, p, "external") \in Nat
        /\ Holders(holds, p, "internal") \in Nat
        /\ \A W : Often(todo, W) \in Nat
    BY <1>1, TypesAre
  <2>4. CASE p # o
    <3>1. /\ external'[p] = external[p] /\ internal'[p] = internal[p]
          /\ Often(todo', Decrements(p, "external")) = Often(todo, Decrements(p, "external"))
          /\ Often(todo', Decrements(p, "internal")) = Often(todo, Decrements(p, "internal"))
          /\ Often(todo', TakeOuts(p)) = Often(todo, TakeOuts(p))
      BY <1>7, <2>2, <2>3, <2>4 DEF Kinds
    <3>2. QED
      BY <2>1, <2>2, <3>1
  <2>5. CASE p = o
    <3>1. CASE phase[p] = "live"
      <4>1. /\ external'[p] = external[p] - IF k = "external" THEN 1 ELSE 0
            /\ internal'[p] = internal[p] - IF k = "internal" THEN 1 ELSE 0
        BY <1>5, <1>7, <1>13, <2>5, <3>1 DEF Less
      <4>2. /\ Often(todo', Decrements(p, "external")) =
                 Often(todo, Decrements(p, "external")) - IF k = "external" THEN 1 ELSE 0
            /\ Often(todo', Decrements(p, "internal")) =
                 Often(todo, Decrements(p, "internal")) - IF k = "internal" THEN 1 ELSE 0
        BY <2>2, <2>5 DEF Kinds
      <4>3. external'[p] + internal'[p] = 0 <=> Often(todo', TakeOuts(p)) > 0
        BY <1>14, <2>2, <2>5, <3>1 DEF out
      <4>4. internal'[p] + Often(todo', IncrementsOf(p))
              = Holders(holds, p, "internal") + Often(todo', Decrements(p, "internal"))
        BY <1>5, <2>1, <2>2, <2>3, <3>1, <4>1, <4>2
      <4>5. context = "live" => external'[p] = Hands(handles, p) + Holders(holds, p, "external")
                                                 + Often(todo', Decrements(p, "external"))
        BY <1>5, <2>1, <2>3, <3>1, <4>1, <4>2
      <4>6. QED
        BY <3>1, <4>3, <4>4, <4>5
    <3>2. CASE phase[p] = "none"
      BY <1>7, <1>12, <2>1, <2>5, <3>2
    <3>3. CASE phase[p] = "dying" \/ phase[p] = "freed"
      BY <2>1, <2>2, <3>3
    <3>4. QED
      BY <1>1, <3>1, <3>2, <3>3 DEF TypeOK
  <2>6. QED
    BY <2>4, <2>5
<1>23. CollectInv'
  <2>1. ASSUME NEW s \in Slots, reftable'[s] # Null, external'[reftable'[s]] # 0
        PROVE  /\ reftable[s] # Null /\ external[reftable[s]] # 0
               /\ external[reftable[s]] = 1 => todo[t][1] # Decrement(reftable[s], "external")
    <3> DEFINE r == reftable[s]
    <3>1. r \in Objects /\ r # Null
      BY <1>1, <1>3, <2>1 DEF TypeOK
    <3>2. phase[r] = "live"
      BY <1>1, <3>1, LiveIsInTable DEF IInv
    <3>3. external'[r] # 0
      BY <1>3, <2>1
    <3> HIDE DEF r
    <3>4. external[r] # 0
      BY <1>5, <1>7, <3>1, <3>3 DEF Less
    <3>5. ASSUME external[r] = 1, x = Decrement(r, "external") PROVE FALSE
      <4>1. r = o /\ k = "external"
        BY <3>5 DEF Decrement
      <4>2. external'[r] = 0
        BY <1>7, <3>2, <3>5, <4>1 DEF Less
      <4>3. QED
        BY <3>3, <4>2
    <3>6. QED
      BY <1>2, <3>1, <3>4, <3>5 DEF r
  <2>2. CASE out
    <3>1. <<TakeOut(o)>> \in Seq(Things)
      BY <1>9, CountsOfShort
    <3>2. \A i \in 1 .. Len(<<TakeOut(o)>>) : <<TakeOut(o)>>[i] = TakeOut(o)
      BY <1>9, ShortPrecedes
    <3>3. Continue(t, <<TakeOut(o)>>)
      BY <1>8, <2>2
    <3>4. QED
      BY <1>2, <1>3, <1>9, <2>1, <3>1, <3>2, <3>3, CollectContinued
  <2>3. CASE ~ out
    <3>1. <<>> \in Seq(Things) /\ \A i \in 1 .. Len(<<>>) : FALSE
      BY CountsOfShort, ShortPrecedes
    <3>2. Continue(t, <<>>)
      BY <1>8, <2>3
    <3>3. QED
      BY <1>2, <1>3, <2>1, <3>1, <3>2, CollectContinued
  <2>4. QED
    BY <2>2, <2>3
<1>24. QED
  BY <1>15, <1>16, <1>17, <1>18, <1>19, <1>20, <1>21, <1>22, <1>23 DEF IInv

(* What the invariant says of the counts of an object.                     *)
LEMMA Counts ==
  ASSUME IInv, NEW p \in Objects
  PROVE  /\ external[p] \in Nat /\ internal[p] \in Nat
         /\ Hands(handles, p) \in Nat
         /\ Holders(holds, p, "external") \in Nat /\ Holders(holds, p, "internal") \in Nat
         /\ \A W : Often(todo, W) \in Nat
         /\ phase[p] = "none" => internal[p] = 0
         /\ phase[p] = "live" =>
              /\ context = "live" =>
                   external[p] = Hands(handles, p) + Holders(holds, p, "external")
                                   + Often(todo, Decrements(p, "external"))
              /\ internal[p] + Often(todo, IncrementsOf(p))
                   = Holders(holds, p, "internal") + Often(todo, Decrements(p, "internal"))
              /\ external[p] + internal[p] = 0 <=> Often(todo, TakeOuts(p)) > 0
         /\ phase[p] = "dying" => Often(todo, Frees(p)) > 0
<1>1. TypeOK
  BY DEF IInv
<1>2. CountOf(p)
  BY DEF IInv, CountInv
<1>3. QED
  BY <1>1, <1>2, TypesAre DEF CountOf

(* The counts of an object that a step has nothing to do with.             *)
LEMMA CountStays ==
  ASSUME IInv, NEW p \in Objects,
         context' = context, phase'[p] = phase[p],
         external'[p] = external[p], internal'[p] = internal[p],
         Hands(handles', p) = Hands(handles, p),
         \A k \in Kinds : /\ Holders(holds', p, k) = Holders(holds, p, k)
                          /\ Often(todo', Decrements(p, k)) = Often(todo, Decrements(p, k)),
         Often(todo', IncrementsOf(p)) = Often(todo, IncrementsOf(p)),
         Often(todo', TakeOuts(p)) = Often(todo, TakeOuts(p)),
         Often(todo', Frees(p)) = Often(todo, Frees(p))
  PROVE  CountOf(p)'
<1>1. CountOf(p)
  BY DEF IInv, CountInv
<1>2. /\ Holders(holds', p, "external") = Holders(holds, p, "external")
      /\ Holders(holds', p, "internal") = Holders(holds, p, "internal")
      /\ Often(todo', Decrements(p, "external")) = Often(todo, Decrements(p, "external"))
      /\ Often(todo', Decrements(p, "internal")) = Often(todo, Decrements(p, "internal"))
  BY DEF Kinds
<1>3. QED
  BY <1>1, <1>2 DEF CountOf

(* A reason stays one when objects stay what they are, and a thread keeps  *)
(* what it needs.                                                          *)
LEMMA ReasonStays ==
  ASSUME NEW u \in Threads, NEW x \in Things, Reason(handles, holds, phase, context, u, x),
         context' = context,
         \A o \in Objects : /\ phase[o] = "live" => phase'[o] = "live"
                            /\ phase[o] \in {"dying", "freed"} => phase'[o] \in {"dying", "freed"},
         x.do = "increment" =>
           /\ handles'[u][x.ref] > 0 /\ handles'[u][x.by] > 0 /\ <<x.by, x.ref>> \in holds'
           /\ \A g \in Graphs : <<g, x.by>> \in holds' => handles'[u][g] > 0,
         x.do = "item" => handles'[u][x.ref] > 0
  PROVE  Reason(handles', holds', phase', context', u, x)
<1>1. x.do \in {"decrement", "take out", "free", "graph"} => x.ref \in Objects
  BY ThingsOf, OneType
<1>2. QED
  BY <1>1 DEF Reason

(* A thread gets a reference.                                              *)
LEMMA Taken ==
  ASSUME TypeOK, NEW t \in Threads, NEW o \in Objects, handles[t][o] < MaxHandles, Take(t, o)
  PROVE  /\ handles' \in [Threads -> [Objects -> 0 .. MaxHandles]]
         /\ \A u \in Threads, p \in Objects : handles[u][p] > 0 => handles'[u][p] > 0
         /\ \A u \in Threads, p \in Objects \ {o} : handles'[u][p] = handles[u][p]
         /\ Hands(handles', o) = Hands(handles, o) + 1
         /\ \A p \in Objects \ {o} : Hands(handles', p) = Hands(handles, p)
<1>1. /\ handles \in [Threads -> [Objects -> 0 .. MaxHandles]] /\ MaxHandles \in Nat
      /\ \A u \in Threads, p \in Objects : handles[u][p] \in Nat
      /\ \A p \in Objects : Hands(handles, p) \in Nat
  BY TypesAre
<1>2. handles' = [handles EXCEPT ![t][o] = handles[t][o] + 1]
  BY DEF Take
<1>3. /\ handles' \in [Threads -> [Objects -> 0 .. MaxHandles]]
      /\ handles'[t][o] = handles[t][o] + 1
      /\ \A u \in Threads, p \in Objects : u # t \/ p # o => handles'[u][p] = handles[u][p]
  BY <1>1, <1>2
<1>4. Hands(handles', o) = Hands(handles, o) - handles[t][o] + handles'[t][o]
  BY <1>1, <1>3, HandsChange
<1>5. ASSUME NEW p \in Objects \ {o}
      PROVE  Hands(handles', p) = Hands(handles, p)
  <2>1. /\ \A u \in Threads \ {t} : handles'[u][p] = handles[u][p]
        /\ handles'[t][p] = handles[t][p]
    BY <1>3
  <2>2. Hands(handles', p) = Hands(handles, p) - handles[t][p] + handles'[t][p]
    BY <1>1, <1>3, <2>1, HandsChange
  <2>3. QED
    BY <1>1, <2>1, <2>2
<1>6. \A u \in Threads, p \in Objects : handles[u][p] > 0 => handles'[u][p] > 0
  BY <1>1, <1>3
<1>7. Hands(handles', o) = Hands(handles, o) + 1
  BY <1>1, <1>3, <1>4
<1>8. QED
  BY <1>3, <1>5, <1>6, <1>7

(* A thread gives one up.                                                  *)
Give(t, o) == handles' = [handles EXCEPT ![t][o] = @ - 1]

LEMMA Given ==
  ASSUME TypeOK, NEW t \in Threads, NEW o \in Objects, handles[t][o] > 0, Give(t, o)
  PROVE  /\ handles' \in [Threads -> [Objects -> 0 .. MaxHandles]]
         /\ \A u \in Threads, p \in Objects : handles'[u][p] > 0 => handles[u][p] > 0
         /\ \A u \in Threads, p \in Objects : u # t \/ p # o => handles'[u][p] = handles[u][p]
         /\ Hands(handles, o) > 0 /\ Hands(handles', o) = Hands(handles, o) - 1
         /\ \A p \in Objects \ {o} : Hands(handles', p) = Hands(handles, p)
<1>1. /\ handles \in [Threads -> [Objects -> 0 .. MaxHandles]] /\ MaxHandles \in Nat
      /\ \A u \in Threads, p \in Objects : handles[u][p] \in Nat
      /\ \A p \in Objects : Hands(handles, p) \in Nat
  BY TypesAre
<1>2. handles' = [handles EXCEPT ![t][o] = handles[t][o] - 1]
  BY DEF Give
<1>3. /\ handles' \in [Threads -> [Objects -> 0 .. MaxHandles]]
      /\ handles'[t][o] = handles[t][o] - 1
      /\ \A u \in Threads, p \in Objects : u # t \/ p # o => handles'[u][p] = handles[u][p]
  BY <1>1, <1>2
<1>4. Hands(handles', o) = Hands(handles, o) - handles[t][o] + handles'[t][o]
  BY <1>1, <1>3, HandsChange
<1>5. ASSUME NEW p \in Objects \ {o}
      PROVE  Hands(handles', p) = Hands(handles, p)
  <2>1. /\ \A u \in Threads \ {t} : handles'[u][p] = handles[u][p]
        /\ handles'[t][p] = handles[t][p]
    BY <1>3
  <2>2. Hands(handles', p) = Hands(handles, p) - handles[t][p] + handles'[t][p]
    BY <1>1, <1>3, <2>1, HandsChange
  <2>3. QED
    BY <1>1, <2>1, <2>2
<1>6. \A u \in Threads, p \in Objects : handles'[u][p] > 0 => handles[u][p] > 0
  BY <1>1, <1>3
<1>7. Hands(handles', o) = Hands(handles, o) - 1
  BY <1>1, <1>3, <1>4
<1>8. Hands(handles, o) > 0
  BY <1>1, HandsAre
<1>9. QED
  BY <1>3, <1>5, <1>6, <1>7, <1>8

(* An object is made: nothing referred to it, and everything that is to be *)
(* done keeps its reason.                                                  *)
LEMMA Creating ==
  ASSUME IInv, context = "live", context' = context, NEW o \in Objects, New(o), AddReference(o),
         phase' = [phase EXCEPT ![o] = "live"],
         \A u \in Threads, p \in Objects : handles[u][p] > 0 => handles'[u][p] > 0,
         \A u \in Threads, p \in Objects : p # o => handles'[u][p] = handles[u][p],
         \A a, b \in Objects : <<a, b>> \in holds => <<a, b>> \in holds',
         \A a, b \in Objects : <<a, b>> \in holds' =>
           <<a, b>> \in holds \/ (a = o /\ a \notin Graphs) \/ b = o
  PROVE  /\ reftable' \in [Slots -> Objects \cup {Null}] /\ num_references' \in 0 .. NumSlots
         /\ phase' \in [Objects -> {"none", "live", "dying", "freed"}]
         /\ TableInv' /\ HandlesInv'
         /\ phase[o] = "none" /\ phase'[o] = "live"
         /\ \A p \in Objects \ {o} : phase'[p] = phase[p]
         /\ \A u \in Threads : \A i \in DOMAIN todo[u] :
              /\ Reason(handles', holds', phase', context', u, todo[u][i])
              /\ todo[u][i].do = "node" => <<todo[u][i + 1].ref, todo[u][i].ref>> \in holds'
<1>1. TypeOK /\ TableInv /\ phase[o] = "none" /\ Room
  BY DEF IInv, New
<1>2. reftable' \in [Slots -> Objects \cup {Null}] /\ num_references' \in 0 .. NumSlots /\ TableInv'
  BY <1>1, TableAdds
<1>3. /\ phase' \in [Objects -> {"none", "live", "dying", "freed"}] /\ phase'[o] = "live"
      /\ \A p \in Objects \ {o} : phase'[p] = phase[p]
  BY <1>1 DEF TypeOK
<1>4. HandlesInv'
  BY <1>3 DEF IInv, HandlesInv
<1>5. ASSUME NEW u \in Threads, NEW i, i \in DOMAIN todo[u]
      PROVE  /\ Reason(handles', holds', phase', context', u, todo[u][i])
             /\ todo[u][i].do = "node" => <<todo[u][i + 1].ref, todo[u][i].ref>> \in holds'
  <2> DEFINE x == todo[u][i]
  <2>1. x \in Things /\ Reason(handles, holds, phase, context, u, x)
    BY <1>1, <1>5, Entries DEF IInv, TodoInv
  <2>2. ASSUME x.do = "node" PROVE <<todo[u][i + 1].ref, x.ref>> \in holds'
    <3>1. <<todo[u][i + 1].ref, x.ref>> \in holds
      BY <1>5, <2>2 DEF IInv, TodoInv
    <3>2. holds \subseteq Objects \X Objects
      BY <1>1 DEF TypeOK
    <3>3. QED
      BY <3>1, <3>2
  <2> HIDE DEF x
  <2>3. \A p \in Objects : /\ phase[p] = "live" => phase'[p] = "live"
                           /\ phase[p] \in {"dying", "freed"} => phase'[p] \in {"dying", "freed"}
    BY <1>1, <1>3
  <2>4. ASSUME x.do = "increment"
        PROVE  /\ handles'[u][x.ref] > 0 /\ handles'[u][x.by] > 0 /\ <<x.by, x.ref>> \in holds'
               /\ \A g \in Graphs : <<g, x.by>> \in holds' => handles'[u][g] > 0
    <3>1. /\ handles[u][x.ref] > 0 /\ handles[u][x.by] > 0 /\ <<x.by, x.ref>> \in holds
          /\ \A g \in Graphs : <<g, x.by>> \in holds => handles[u][g] > 0
      BY <2>1, <2>4 DEF Reason
    <3>2. x.ref \in Objects /\ x.by \in Objects
      BY <2>1, <2>4, ThingsOf, OneType
    <3>3. x.by # o
      <4>1. phase[x.by] = "live"
        BY <3>1, <3>2 DEF IInv, HandlesInv
      <4>2. QED
        BY <1>1, <4>1
    <3>4. \A g \in Graphs : <<g, x.by>> \in holds' => <<g, x.by>> \in holds
      BY <3>2, <3>3, OneType
    <3>5. QED
      BY <3>1, <3>2, <3>4, OneType
  <2>5. x.do = "item" => handles'[u][x.ref] > 0
    <3>1. x.do = "item" => x.ref \in Objects
      BY <2>1, ThingsOf, OneType
    <3>2. QED
      BY <2>1, <3>1 DEF Reason
  <2>6. Reason(handles', holds', phase', context', u, x)
    BY <2>1, <2>3, <2>4, <2>5, ReasonStays
  <2>7. QED
    BY <2>2, <2>6 DEF x
<1>6. QED
  BY <1>1, <1>2, <1>3, <1>4, <1>5

(* What is no decrement.                                                   *)
LEMMA NoDecrement ==
  ASSUME NEW y, y.do # "decrement"
  PROVE  \A p, k : y # Decrement(p, k)
<1>1. \A p, k : Decrement(p, k).do = "decrement"
  BY DEF Decrement
<1>2. QED
  BY <1>1

(* The end of a destructor.                                                *)
LEMMA FreeKeeps ==
  ASSUME IInv, NEW t \in Threads, Free(t)
  PROVE  IInv'
<1> DEFINE x == First(t)
           o == x.ref
<1>1. TypeOK /\ Doing(t, "free")
  BY DEF IInv, Free
<1>2. /\ todo[t] # <<>> /\ x = todo[t][1] /\ x \in Things /\ x.do = "free" /\ 1 \in DOMAIN todo[t]
      /\ o \in Objects
  BY <1>1, StepBegins, ThingsOf
<1>3. /\ phase' = [phase EXCEPT ![o] = "freed"] /\ Continue(t, <<>>)
      /\ UNCHANGED <<context, external, internal, reftable, num_references, holds, handles>>
  BY DEF Free, table, counts
<1>4. phase[o] \in {"dying", "freed"}
  BY <1>2 DEF IInv, TodoInv, Reason
<1>5. /\ todo' \in [Threads -> Seq(Things)]
      /\ \A W : Often(todo, W) \in Nat /\ Often(todo', W) = Often(todo, W) - In(x, W)
  BY <1>1, <1>2, <1>3, StepNone
<1> HIDE DEF x
<1>6. /\ \A p, k : Often(todo', Decrements(p, k)) = Often(todo, Decrements(p, k))
      /\ \A p \in Objects : Often(todo', IncrementsOf(p)) = Often(todo, IncrementsOf(p))
      /\ \A n \in Nodes : Often(todo', IncrementsBy(n)) = Often(todo, IncrementsBy(n))
      /\ \A p : Often(todo', TakeOuts(p)) = Often(todo, TakeOuts(p))
      /\ \A p : Often(todo', Frees(p)) = Often(todo, Frees(p)) - IF p = o THEN 1 ELSE 0
      /\ \A p : Often(todo', Destructs(p)) = Often(todo, Destructs(p))
  <2>1. /\ \A p, k : In(x, Decrements(p, k)) = 0
        /\ \A p \in Objects : In(x, IncrementsOf(p)) = 0
        /\ \A n \in Nodes : In(x, IncrementsBy(n)) = 0
        /\ \A p : In(x, TakeOuts(p)) = 0
        /\ \A p : In(x, Frees(p)) = IF p = o THEN 1 ELSE 0
        /\ \A p : In(x, Destructs(p)) = 0
    BY <1>2, InFree
  <2>2. QED
    BY <1>5, <2>1
<1>7. /\ phase' \in [Objects -> {"none", "live", "dying", "freed"}]
      /\ phase'[o] = "freed" /\ \A p \in Objects \ {o} : phase'[p] = phase[p]
  BY <1>1, <1>2, <1>3 DEF TypeOK
<1>8. TypeOK'
  BY <1>1, <1>3, <1>5, <1>7 DEF TypeOK
<1>9. TableInv'
  BY <1>1, <1>3, <1>4, <1>7, TableStays DEF IInv, table
<1>10. TodoInv'
  <2>1. <<>> \in Seq(Things) /\ MayPrecede(<<>>, todo[t]) /\ \A i \in 1 .. Len(<<>>) : FALSE
    BY CountsOfShort, ShortPrecedes
  <2>2. ASSUME NEW u \in Threads, NEW i, i \in DOMAIN todo[u]
        PROVE  /\ Reason(handles, holds, phase, context, u, todo[u][i])
                    => Reason(handles', holds', phase', context', u, todo[u][i])
               /\ todo[u][i].do = "node" => <<todo[u][i + 1].ref, todo[u][i].ref>> \in holds'
    <3>1. todo[u][i] \in Things
      BY <1>1, <2>2, Entries
    <3>2. \A p \in Objects : /\ phase[p] = "live" => phase'[p] = "live"
                             /\ phase[p] \in {"dying", "freed"} => phase'[p] \in {"dying", "freed"}
      BY <1>4, <1>7
    <3> DEFINE y == todo[u][i]
    <3>3. /\ y.do = "increment" /\ Reason(handles, holds, phase, context, u, y) =>
               /\ handles'[u][y.ref] > 0 /\ handles'[u][y.by] > 0 /\ <<y.by, y.ref>> \in holds'
               /\ \A g \in Graphs : <<g, y.by>> \in holds' => handles'[u][g] > 0
          /\ y.do = "item" /\ Reason(handles, holds, phase, context, u, y) => handles'[u][y.ref] > 0
      BY <1>3 DEF Reason
    <3> HIDE DEF y
    <3>4. Reason(handles, holds, phase, context, u, y) => Reason(handles', holds', phase', context', u, y)
      BY <1>3, <3>1, <3>2, <3>3, ReasonStays DEF y
    <3>5. QED
      BY <1>3, <2>2, <3>4 DEF y, IInv, TodoInv
  <2>3. QED
    BY <1>2, <1>3, <2>1, <2>2, TodoContinued
<1>11. OnceInv'
  BY <1>5, <1>6 DEF IInv, OnceInv
<1>12. HoldsInv'
  BY <1>3, <1>4, <1>6, <1>7 DEF IInv, HoldsInv
<1>13. PartsInv'
  BY <1>3, PartsKept DEF IInv
<1>14. HandlesInv'
  BY <1>3, <1>4, <1>7 DEF IInv, HandlesInv
<1>15. CountInv'
  <2> SUFFICES ASSUME NEW p \in Objects PROVE CountOf(p)'
    BY DEF CountInv
  <2>1. CASE p = o
    BY <1>7, <2>1 DEF CountOf
  <2>2. CASE p # o
    BY <1>3, <1>5, <1>6, <1>7, <2>2, CountStays
  <2>3. QED
    BY <2>1, <2>2
<1>16. CollectInv'
  <2>1. <<>> \in Seq(Things) /\ \A i \in 1 .. Len(<<>>) : FALSE
    BY CountsOfShort, ShortPrecedes
  <2>2. \A p : todo[t][1] # Decrement(p, "external")
    BY <1>2, NoDecrement
  <2>3. QED
    BY <1>2, <1>3, <2>1, <2>2, CollectContinued
<1>17. QED
  BY <1>8, <1>9, <1>10, <1>11, <1>12, <1>13, <1>14, <1>15, <1>16 DEF IInv

(* ownInitObjectArrayInt makes the item of an object array.                *)
LEMMA InitObjectArrayKeeps ==
  ASSUME IInv, NEW t \in Threads, InitObjectArray(t)
  PROVE  IInv'
<1> DEFINE x == First(t)
           a == x.ref
           o == x.item
<1>1. TypeOK /\ Doing(t, "item")
  BY DEF IInv, InitObjectArray
<1>2. /\ todo[t] # <<>> /\ x = todo[t][1] /\ x \in Things /\ x.do = "item" /\ 1 \in DOMAIN todo[t]
      /\ a \in Arrays /\ o \in Items
  BY <1>1, StepBegins, ThingsOf
<1>3. /\ New(o) /\ phase' = [phase EXCEPT ![o] = "live"] /\ AddReference(o)
      /\ external' = [external EXCEPT ![o] = 1] /\ holds' = holds \cup {<<a, o>>}
      /\ Continue(t, <<>>)
      /\ UNCHANGED <<context, internal, handles>>
  BY DEF InitObjectArray
<1>4. handles[t][a] > 0
  BY <1>2 DEF IInv, TodoInv, Reason
<1>5. a \in Objects /\ o \in Objects
  BY <1>2, OneType
<1>6. context = "live" /\ phase[a] = "live"
  BY <1>4, <1>5, HasCounted
<1>7. /\ todo' \in [Threads -> Seq(Things)]
      /\ \A W : Often(todo, W) \in Nat /\ Often(todo', W) = Often(todo, W) - In(x, W)
  BY <1>1, <1>2, <1>3, StepNone
<1> HIDE DEF x
<1>8. /\ \A p, k : Often(todo', Decrements(p, k)) = Often(todo, Decrements(p, k))
      /\ \A p \in Objects : Often(todo', IncrementsOf(p)) = Often(todo, IncrementsOf(p))
      /\ \A n \in Nodes : Often(todo', IncrementsBy(n)) = Often(todo, IncrementsBy(n))
      /\ \A p : Often(todo', TakeOuts(p)) = Often(todo, TakeOuts(p))
      /\ \A p : Often(todo', Frees(p)) = Often(todo, Frees(p))
      /\ \A p : Often(todo', Destructs(p)) = Often(todo, Destructs(p))
  <2>1. /\ \A p, k : In(x, Decrements(p, k)) = 0
        /\ \A p \in Objects : In(x, IncrementsOf(p)) = 0
        /\ \A n \in Nodes : In(x, IncrementsBy(n)) = 0
        /\ \A p : In(x, TakeOuts(p)) = 0
        /\ \A p : In(x, Frees(p)) = 0
        /\ \A p : In(x, Destructs(p)) = 0
    BY <1>2, InOther
  <2>2. QED
    BY <1>7, <2>1
<1>9. a \notin Graphs /\ a \notin Regions /\ a \notin Nodes
  BY <1>2, OneType
<1>10. /\ reftable' \in [Slots -> Objects \cup {Null}] /\ num_references' \in 0 .. NumSlots
       /\ phase' \in [Objects -> {"none", "live", "dying", "freed"}]
       /\ TableInv' /\ HandlesInv'
       /\ phase[o] = "none" /\ phase'[o] = "live"
       /\ \A p \in Objects \ {o} : phase'[p] = phase[p]
       /\ \A u \in Threads : \A i \in DOMAIN todo[u] :
            /\ Reason(handles', holds', phase', context', u, todo[u][i])
            /\ todo[u][i].do = "node" => <<todo[u][i + 1].ref, todo[u][i].ref>> \in holds'
  <2>1. \A c, b \in Objects : <<c, b>> \in holds => <<c, b>> \in holds'
    BY <1>3
  <2>2. \A c, b \in Objects : <<c, b>> \in holds' => <<c, b>> \in holds \/ b = o
    BY <1>3
  <2>3. \A u \in Threads, p \in Objects : handles[u][p] > 0 => handles'[u][p] > 0
    BY <1>3
  <2>4. \A u \in Threads, p \in Objects : p # o => handles'[u][p] = handles[u][p]
    BY <1>3
  <2>5. QED
    BY <1>3, <1>5, <1>6, <2>1, <2>2, <2>3, <2>4, Creating
<1>11. TypeOK'
  <2>1. holds' \subseteq Objects \X Objects
    BY <1>1, <1>3, <1>5 DEF TypeOK
  <2>2. QED
    BY <1>1, <1>3, <1>7, <1>10, <2>1 DEF TypeOK
<1>12. TodoInv'
  <2>1. <<>> \in Seq(Things) /\ MayPrecede(<<>>, todo[t]) /\ \A i \in 1 .. Len(<<>>) : FALSE
    BY CountsOfShort, ShortPrecedes
  <2>2. QED
    BY <1>2, <1>3, <1>10, <2>1, TodoContinued
<1>13. OnceInv'
  BY <1>8 DEF IInv, OnceInv
<1>14. HoldsInv'
  <2>1. ASSUME NEW c \in Objects, NEW b \in Objects, <<c, b>> \in holds'
        PROVE  /\ \/ c \in Graphs /\ b \in Nodes
                  \/ c \in Nodes /\ b \in Parameters
                  \/ c \in Regions /\ b \in Images \cup Regions
                  \/ c \in Arrays /\ b \in Items
               /\ phase'[c] # "live" => c \in Graphs /\ Often(todo', Destructs(c)) > 0
               /\ phase'[b] # "live" => context' = "collecting" /\ c \in Arrays
    <3>1. CASE <<c, b>> \in holds
      BY <1>3, <1>8, <1>10, <3>1 DEF IInv, HoldsInv
    <3>2. CASE c = a /\ b = o
      BY <1>2, <1>6, <1>10, <3>2
    <3>3. QED
      BY <1>3, <2>1, <3>1, <3>2
  <2>2. \A n \in Nodes, g, k \in Graphs : <<g, n>> \in holds' /\ <<k, n>> \in holds' => g = k
    BY <1>3, <1>9 DEF IInv, HoldsInv
  <2>3. QED
    BY <2>1, <2>2 DEF HoldsInv
<1>15. PartsInv'
  BY <1>3, <1>9, PartsKept DEF IInv
<1>16. CountInv'
  <2> SUFFICES ASSUME NEW p \in Objects PROVE CountOf(p)'
    BY DEF CountInv
  <2>1. /\ external \in [Objects -> Nat] /\ external' = [external EXCEPT ![o] = 1]
    BY <1>1, <1>3 DEF TypeOK
  <2>2. \A c \in Objects \ {a} : <<c, p>> \in holds' <=> <<c, p>> \in holds
    BY <1>3
  <2>3. \A k : Holders(holds', p, k) = Holders(holds, p, k) - Refers(holds, a, p, k) + Refers(holds', a, p, k)
    BY <1>5, <2>2, HoldersChange
  <2>4. CASE p = o
    <3>1. /\ Hands(handles, p) = 0 /\ internal[p] = 0
          /\ \A k : Holders(holds, p, k) = 0 /\ Often(todo, Decrements(p, k)) = 0
          /\ Often(todo, IncrementsOf(p)) = 0 /\ Often(todo, TakeOuts(p)) = 0
          /\ <<a, p>> \notin holds
      BY <1>5, <1>6, <1>10, <2>4, NothingRefersToNew
    <3>2. \A k : Refers(holds, a, p, k) = 0
      BY <3>1 DEF Refers
    <3>3. Refers(holds', a, p, "external") = 1 /\ Refers(holds', a, p, "internal") = 0
      BY <1>2, <1>3, <2>4, HeldKinds DEF Refers
    <3>4. Holders(holds', p, "external") = 1 /\ Holders(holds', p, "internal") = 0
      BY <2>3, <3>1, <3>2, <3>3
    <3>5. external'[p] = 1 /\ internal'[p] = 0 /\ handles' = handles
      BY <1>3, <2>1, <2>4, <3>1
    <3>6. QED
      BY <1>8, <1>10, <2>4, <3>1, <3>4, <3>5 DEF CountOf
  <2>5. CASE p # o
    <3>1. \A k : Refers(holds', a, p, k) = Refers(holds, a, p, k)
      BY <1>3, <2>5 DEF Refers
    <3>2. \A k \in Kinds : Holders(holds', p, k) = Holders(holds, p, k)
      <4> TAKE k \in Kinds
      <4>1. Holders(holds, p, k) \in Nat /\ Refers(holds, a, p, k) \in Nat
        BY HoldersAre DEF Refers
      <4>2. QED
        BY <2>3, <3>1, <4>1
    <3>3. external'[p] = external[p] /\ internal'[p] = internal[p] /\ phase'[p] = phase[p]
      BY <1>3, <1>10, <2>1, <2>5
    <3>4. QED
      BY <1>3, <1>8, <3>2, <3>3, CountStays
  <2>6. QED
    BY <2>4, <2>5
<1>17. CollectInv'
  BY <1>3, <1>6, NotCollecting
<1>18. QED
  BY <1>10, <1>11, <1>12, <1>13, <1>14, <1>15, <1>16, <1>17 DEF IInv

(* Its failure gives the array back.                                       *)
LEMMA InitObjectArrayFailsKeeps ==
  ASSUME IInv, NEW t \in Threads, InitObjectArrayFails(t)
  PROVE  IInv'
<1> DEFINE x == First(t)
           a == x.ref
           y == Decrement(a, "external")
<1>1. TypeOK /\ Doing(t, "item")
  BY DEF IInv, InitObjectArrayFails
<1>2. /\ todo[t] # <<>> /\ x = todo[t][1] /\ x \in Things /\ x.do = "item" /\ 1 \in DOMAIN todo[t]
      /\ DOMAIN todo[t] = 1 .. Len(todo[t])
      /\ a \in Arrays
  BY <1>1, StepBegins, ThingsOf
<1>3. /\ Give(t, a) /\ Continue(t, <<y>>)
      /\ UNCHANGED <<context, phase, external, internal, reftable, num_references, holds>>
  BY DEF InitObjectArrayFails, Give, counts, table
<1>4. handles[t][a] > 0
  BY <1>2 DEF IInv, TodoInv, Reason
<1>5. a \in Objects /\ a \notin Nodes /\ a \notin Graphs
  BY <1>2, OneType
<1>6. context = "live" /\ phase[a] = "live" /\ external[a] > 0
  BY <1>4, <1>5, HasCounted
<1>7. y \in Things /\ y.do = "decrement" /\ y.ref = a /\ y.kind = "external"
  <2>1. y \in Things
    BY <1>5, ThingsTyped DEF Kinds
  <2>2. y.do = "decrement" /\ y.ref = a /\ y.kind = "external"
    BY DEF Decrement
  <2>3. QED
    BY <2>1, <2>2
<1>8. /\ todo' \in [Threads -> Seq(Things)]
      /\ \A W : Often(todo, W) \in Nat /\ Often(todo', W) = Often(todo, W) - In(x, W) + In(y, W)
  BY <1>1, <1>2, <1>3, <1>7, StepOne
<1> HIDE DEF x, y
<1>9. /\ \A p, k : Often(todo', Decrements(p, k)) =
           Often(todo, Decrements(p, k)) + IF p = a /\ k = "external" THEN 1 ELSE 0
      /\ \A p \in Objects : Often(todo', IncrementsOf(p)) = Often(todo, IncrementsOf(p))
      /\ \A n \in Nodes : Often(todo', IncrementsBy(n)) = Often(todo, IncrementsBy(n))
      /\ \A p : Often(todo', TakeOuts(p)) = Often(todo, TakeOuts(p))
      /\ \A p : Often(todo', Frees(p)) = Often(todo, Frees(p))
      /\ \A p : Often(todo', Destructs(p)) = Often(todo, Destructs(p))
  <2>1. /\ \A p, k : In(x, Decrements(p, k)) = 0
        /\ \A p \in Objects : In(x, IncrementsOf(p)) = 0
        /\ \A n \in Nodes : In(x, IncrementsBy(n)) = 0
        /\ \A p : In(x, TakeOuts(p)) = 0
        /\ \A p : In(x, Frees(p)) = 0
        /\ \A p : In(x, Destructs(p)) = 0
    BY <1>2, InOther
  <2>2. /\ \A p, k : In(y, Decrements(p, k)) = IF p = a /\ k = "external" THEN 1 ELSE 0
        /\ \A p \in Objects : In(y, IncrementsOf(p)) = 0
        /\ \A n \in Nodes : In(y, IncrementsBy(n)) = 0
        /\ \A p : In(y, TakeOuts(p)) = 0
        /\ \A p : In(y, Frees(p)) = 0
        /\ \A p : In(y, Destructs(p)) = 0
    BY <1>7, InDecrement
  <2>3. QED
    BY <1>8, <2>1, <2>2
<1>10. /\ handles' \in [Threads -> [Objects -> 0 .. MaxHandles]]
       /\ \A u \in Threads, p \in Objects : handles'[u][p] > 0 => handles[u][p] > 0
       /\ \A u \in Threads, p \in Objects : u # t \/ p # a => handles'[u][p] = handles[u][p]
       /\ Hands(handles, a) > 0 /\ Hands(handles', a) = Hands(handles, a) - 1
       /\ \A p \in Objects \ {a} : Hands(handles', p) = Hands(handles, p)
  BY <1>1, <1>3, <1>4, <1>5, Given
<1>11. TypeOK'
  BY <1>1, <1>3, <1>8, <1>10 DEF TypeOK
<1>12. TableInv'
  BY <1>1, <1>3, TableStays DEF IInv, table
<1>13. TodoInv'
  <2>1. <<y>> \in Seq(Things) /\ MayPrecede(<<y>>, todo[t]) /\ \A i \in 1 .. Len(<<y>>) : <<y>>[i] = y
    <3>1. <<y>> \in Seq(Things)
      BY <1>7, CountsOfShort
    <3>2. MayPrecede(<<y>>, todo[t]) /\ \A i \in 1 .. Len(<<y>>) : <<y>>[i] = y
      BY <1>7, ShortPrecedes
    <3>3. QED
      BY <3>1, <3>2
  <2>2. Len(todo[t]) = 1
    BY <1>2 DEF IInv, TodoInv, Shape
  <2>3. ASSUME NEW u \in Threads, NEW i, i \in DOMAIN todo[u], u = t => i # 1
        PROVE  /\ Reason(handles, holds, phase, context, u, todo[u][i])
                    => Reason(handles', holds', phase', context', u, todo[u][i])
               /\ todo[u][i].do = "node" => <<todo[u][i + 1].ref, todo[u][i].ref>> \in holds'
    <3>1. u # t
      BY <1>2, <2>2, <2>3
    <3>2. todo[u][i] \in Things
      BY <1>1, <2>3, Entries
    <3> DEFINE z == todo[u][i]
    <3>3. /\ z.do = "increment" /\ Reason(handles, holds, phase, context, u, z) =>
               /\ handles'[u][z.ref] > 0 /\ handles'[u][z.by] > 0 /\ <<z.by, z.ref>> \in holds'
               /\ \A g \in Graphs : <<g, z.by>> \in holds' => handles'[u][g] > 0
          /\ z.do = "item" /\ Reason(handles, holds, phase, context, u, z) => handles'[u][z.ref] > 0
      <4>1. \A p \in Objects : handles'[u][p] = handles[u][p]
        BY <1>10, <3>1
      <4>2. z.do \in {"increment", "item"} => z.ref \in Objects
        BY <3>2, ThingsOf, OneType
      <4>3. z.do = "increment" => z.by \in Objects
        BY <3>2, ThingsOf, OneType
      <4>4. QED
        BY <1>3, <4>1, <4>2, <4>3, OneType DEF Reason
    <3> HIDE DEF z
    <3>4. Reason(handles, holds, phase, context, u, z) => Reason(handles', holds', phase', context', u, z)
      BY <1>3, <3>2, <3>3, ReasonStays DEF z
    <3>5. QED
      BY <1>3, <2>3, <3>4 DEF z, IInv, TodoInv
  <2>4. Reason(handles', holds', phase', context', t, y)
    BY <1>2, <1>3, <1>6, <1>7, OneType DEF Reason
  <2>5. QED
    BY <1>2, <1>3, <1>7, <2>1, <2>3, <2>4, TodoContinued
<1>14. OnceInv'
  BY <1>9 DEF IInv, OnceInv
<1>15. HoldsInv'
  BY <1>3, <1>9 DEF IInv, HoldsInv
<1>16. PartsInv'
  BY <1>3, PartsKept DEF IInv
<1>17. HandlesInv'
  BY <1>3, <1>10 DEF IInv, HandlesInv
<1>18. CountInv'
  <2> SUFFICES ASSUME NEW p \in Objects PROVE CountOf(p)'
    BY DEF CountInv
  <2>1. CASE p = a
    <3>1. /\ external[p] = Hands(handles, p) + Holders(holds, p, "external")
                             + Often(todo, Decrements(p, "external"))
          /\ internal[p] + Often(todo, IncrementsOf(p))
               = Holders(holds, p, "internal") + Often(todo, Decrements(p, "internal"))
          /\ external[p] + internal[p] = 0 <=> Often(todo, TakeOuts(p)) > 0
          /\ Hands(handles, p) \in Nat
          /\ Holders(holds, p, "external") \in Nat /\ Holders(holds, p, "internal") \in Nat
          /\ \A W : Often(todo, W) \in Nat
      BY <1>6, <2>1, Counts
    <3>2. Often(todo', Decrements(p, "external")) = Often(todo, Decrements(p, "external")) + 1
      BY <1>9, <2>1
    <3>3. Often(todo', Decrements(p, "internal")) = Often(todo, Decrements(p, "internal"))
      BY <1>9, <3>1
    <3>4. external[p] = Hands(handles', p) + Holders(holds, p, "external")
                          + Often(todo', Decrements(p, "external"))
      BY <1>10, <2>1, <3>1, <3>2
    <3>5. QED
      BY <1>3, <1>6, <1>9, <2>1, <3>1, <3>3, <3>4 DEF CountOf
  <2>2. CASE p # a
    <3>1. \A k \in Kinds : Often(todo', Decrements(p, k)) = Often(todo, Decrements(p, k))
      BY <1>8, <1>9, <2>2
    <3>2. QED
      BY <1>3, <1>9, <1>10, <2>2, <3>1, CountStays
  <2>3. QED
    BY <2>1, <2>2
<1>19. CollectInv'
  BY <1>3, <1>6, NotCollecting
<1>20. QED
  BY <1>11, <1>12, <1>13, <1>14, <1>15, <1>16, <1>17, <1>18, <1>19 DEF IInv

(* The node that is taken out of a graph is live, and only this graph has  *)
(* it; what else takes a node out is about another node.                   *)
LEMMA NodeIsLinked ==
  ASSUME IInv, NEW t \in Threads, todo[t] # <<>>, todo[t][1].do = "node"
  PROVE  LET n == todo[t][1].ref
             g == todo[t][2].ref
         IN /\ n \in Nodes /\ g \in Graphs /\ phase[n] = "live"
            /\ <<g, n>> \in holds
            /\ \A k \in Graphs : <<k, n>> \in holds => k = g
            /\ \A u \in Threads : \A i \in DOMAIN todo[u] :
                 (u = t => i # 1) /\ todo[u][i].do = "node" => todo[u][i].ref # n
<1> DEFINE n == todo[t][1].ref
           g == todo[t][2].ref
<1>1. TypeOK /\ todo \in [Threads -> Seq(Things)]
  BY DEF IInv, TypeOK
<1>2. todo[t] \in Seq(Things)
  BY <1>1
<1>3. DOMAIN todo[t] = 1 .. Len(todo[t]) /\ Len(todo[t]) \in Nat \ {0} /\ todo[t][1] \in Things
  BY <1>2, HeadAndTail
<1>4. 1 \in DOMAIN todo[t] /\ 1 < Len(todo[t]) /\ todo[t][1 + 1].do = "graph"
  <2>1. 1 \in DOMAIN todo[t] /\ Shape(todo[t])
    BY <1>3 DEF IInv, TodoInv
  <2>2. QED
    BY <2>1 DEF Shape
<1>5. 2 \in DOMAIN todo[t] /\ todo[t][2].do = "graph"
  BY <1>3, <1>4
<1>6. 2 < Len(todo[t]) /\ todo[t][2 + 1] = Release(g)
  BY <1>5 DEF IInv, TodoInv, Shape
<1>7. 3 \in DOMAIN todo[t] /\ todo[t][3] = Release(g)
  BY <1>3, <1>6
<1>8. todo[t][2] \in Things
  BY <1>1, <1>5, Entries
<1>9. n \in Nodes /\ g \in Graphs
  BY <1>3, <1>5, <1>8, ThingsOf
<1>10. <<g, n>> \in holds
  <2>1. <<todo[t][1 + 1].ref, todo[t][1].ref>> \in holds
    BY <1>4 DEF IInv, TodoInv
  <2>2. QED
    BY <2>1
<1>11. n \in Objects /\ g \in Objects /\ g \notin Arrays
  BY <1>9, OneType
<1>12. phase[n] = "live"
  BY <1>10, <1>11 DEF IInv, HoldsInv
<1>13. \A k \in Graphs : <<k, n>> \in holds => k = g
  BY <1>9, <1>10 DEF IInv, HoldsInv
<1>14. ASSUME NEW u \in Threads, NEW i, i \in DOMAIN todo[u], todo[u][i].do = "node", todo[u][i].ref = n
       PROVE  u = t /\ i = 1
  <2>1. DOMAIN todo[u] = 1 .. Len(todo[u]) /\ Len(todo[u]) \in Nat
    <3>1. todo[u] \in Seq(Things)
      BY <1>1
    <3>2. QED
      BY <3>1, LenProperties
  <2>2. i < Len(todo[u]) /\ todo[u][i + 1].do = "graph" /\ <<todo[u][i + 1].ref, n>> \in holds
    BY <1>14 DEF IInv, TodoInv, Shape
  <2>3. i \in Nat /\ i + 1 \in DOMAIN todo[u]
    BY <1>14, <2>1, <2>2
  <2>4. todo[u][i + 1] \in Things
    BY <1>1, <2>3, Entries
  <2>5. todo[u][i + 1].ref = g
    BY <1>13, <2>2, <2>4, ThingsOf
  <2> DEFINE j == i + 1
  <2>6. j \in DOMAIN todo[u] /\ todo[u][j].do = "graph" /\ todo[u][j].ref = g
    BY <2>2, <2>3, <2>5
  <2> HIDE DEF j
  <2>7. j < Len(todo[u]) /\ todo[u][j + 1] = Release(g)
    BY <2>6 DEF IInv, TodoInv, Shape
  <2>8. j + 1 \in DOMAIN todo[u]
    BY <2>1, <2>6, <2>7
  <2>9. todo[u][j + 1] \in Frees(g) /\ todo[t][3] \in Frees(g)
    BY <1>7, <2>7 DEF Frees
  <2>10. Often(todo, Frees(g)) <= 1
    BY <1>11 DEF IInv, OnceInv
  <2>11. u = t /\ j + 1 = 3
    BY <1>1, <1>7, <2>8, <2>9, <2>10, OftenIs
  <2>12. QED
    BY <2>3, <2>11 DEF j
<1>15. QED
  BY <1>9, <1>10, <1>12, <1>13, <1>14

(* ownRemoveNodeInt.                                                       *)
LEMMA UnlinkNodeKeeps ==
  ASSUME IInv, NEW t \in Threads, UnlinkNode(t)
  PROVE  IInv'
<1> DEFINE x == First(t)
           n == x.ref
           m == todo[t][2].ref
           y == Decrement(n, "internal")
<1>1. TypeOK /\ Doing(t, "node")
  BY DEF IInv, UnlinkNode
<1>2. /\ todo[t] # <<>> /\ x = todo[t][1] /\ x \in Things /\ x.do = "node" /\ 1 \in DOMAIN todo[t]
  BY <1>1, StepBegins
<1>3. /\ n \in Nodes /\ m \in Graphs /\ phase[n] = "live"
      /\ <<m, n>> \in holds
      /\ \A k \in Graphs : <<k, n>> \in holds => k = m
      /\ \A u \in Threads : \A i \in DOMAIN todo[u] :
           (u = t => i # 1) /\ todo[u][i].do = "node" => todo[u][i].ref # n
  BY <1>2, NodeIsLinked
<1> HIDE DEF m
<1>4. /\ holds' = holds \ {<<g, n>> : g \in Graphs} /\ Continue(t, <<y>>)
      /\ UNCHANGED <<context, phase, external, internal, reftable, num_references, handles>>
  BY <1>3 DEF UnlinkNode, counts, table
<1>5. n \in Objects /\ m \in Objects /\ n \notin Items
  BY <1>3, OneType
<1>6. y \in Things /\ y.do = "decrement" /\ y.ref = n /\ y.kind = "internal"
  <2>1. y \in Things
    BY <1>5, ThingsTyped DEF Kinds
  <2>2. y.do = "decrement" /\ y.ref = n /\ y.kind = "internal"
    BY DEF Decrement
  <2>3. QED
    BY <2>1, <2>2
<1>7. /\ todo' \in [Threads -> Seq(Things)]
      /\ \A W : Often(todo, W) \in Nat /\ Often(todo', W) = Often(todo, W) - In(x, W) + In(y, W)
  BY <1>1, <1>2, <1>4, <1>6, StepOne
<1> HIDE DEF x, y
<1>8. /\ \A p, k : Often(todo', Decrements(p, k)) =
           Often(todo, Decrements(p, k)) + IF p = n /\ k = "internal" THEN 1 ELSE 0
      /\ \A p \in Objects : Often(todo', IncrementsOf(p)) = Often(todo, IncrementsOf(p))
      /\ \A p \in Nodes : Often(todo', IncrementsBy(p)) = Often(todo, IncrementsBy(p))
      /\ \A p : Often(todo', TakeOuts(p)) = Often(todo, TakeOuts(p))
      /\ \A p : Often(todo', Frees(p)) = Often(todo, Frees(p))
      /\ \A p : Often(todo', Destructs(p)) = Often(todo, Destructs(p))
  <2>1. /\ \A p, k : In(x, Decrements(p, k)) = 0
        /\ \A p \in Objects : In(x, IncrementsOf(p)) = 0
        /\ \A p \in Nodes : In(x, IncrementsBy(p)) = 0
        /\ \A p : In(x, TakeOuts(p)) = 0
        /\ \A p : In(x, Frees(p)) = 0
        /\ \A p : In(x, Destructs(p)) = 0
    BY <1>2, InOther
  <2>2. /\ \A p, k : In(y, Decrements(p, k)) = IF p = n /\ k = "internal" THEN 1 ELSE 0
        /\ \A p \in Objects : In(y, IncrementsOf(p)) = 0
        /\ \A p \in Nodes : In(y, IncrementsBy(p)) = 0
        /\ \A p : In(y, TakeOuts(p)) = 0
        /\ \A p : In(y, Frees(p)) = 0
        /\ \A p : In(y, Destructs(p)) = 0
    BY <1>6, InDecrement
  <2>3. QED
    BY <1>7, <2>1, <2>2
<1>9. /\ holds' \subseteq holds
      /\ \A a, b : <<a, b>> \in holds' <=> <<a, b>> \in holds /\ ~ (a \in Graphs /\ b = n)
  BY <1>4
<1>10. TypeOK'
  BY <1>1, <1>4, <1>7, <1>9 DEF TypeOK
<1>11. TableInv'
  BY <1>1, <1>4, TableStays DEF IInv, table
<1>12. TodoInv'
  <2>1. <<y>> \in Seq(Things) /\ MayPrecede(<<y>>, todo[t]) /\ \A i \in 1 .. Len(<<y>>) : <<y>>[i] = y
    <3>1. <<y>> \in Seq(Things)
      BY <1>6, CountsOfShort
    <3>2. MayPrecede(<<y>>, todo[t]) /\ \A i \in 1 .. Len(<<y>>) : <<y>>[i] = y
      BY <1>6, ShortPrecedes
    <3>3. QED
      BY <3>1, <3>2
  <2>2. ASSUME NEW u \in Threads, NEW i, i \in DOMAIN todo[u], u = t => i # 1
        PROVE  /\ Reason(handles, holds, phase, context, u, todo[u][i])
                    => Reason(handles', holds', phase', context', u, todo[u][i])
               /\ todo[u][i].do = "node" => <<todo[u][i + 1].ref, todo[u][i].ref>> \in holds'
    <3> DEFINE z == todo[u][i]
    <3>1. z \in Things
      BY <1>1, <2>2, Entries
    <3>2. z.do = "node" => <<todo[u][i + 1].ref, z.ref>> \in holds'
      <4>1. z.do = "node" => <<todo[u][i + 1].ref, z.ref>> \in holds
        BY <2>2 DEF IInv, TodoInv
      <4>2. z.do = "node" => z.ref # n
        BY <1>3, <2>2
      <4>3. QED
        BY <1>9, <4>1, <4>2
    <3>3. ASSUME z.do = "increment", Reason(handles, holds, phase, context, u, z)
          PROVE  /\ handles'[u][z.ref] > 0 /\ handles'[u][z.by] > 0 /\ <<z.by, z.ref>> \in holds'
                 /\ \A g \in Graphs : <<g, z.by>> \in holds' => handles'[u][g] > 0
      <4>1. z.by \notin Graphs
        BY <3>1, <3>3, ThingsOf, OneType
      <4>2. QED
        BY <1>4, <1>9, <3>3, <4>1 DEF Reason
    <3>4. z.do = "item" /\ Reason(handles, holds, phase, context, u, z) => handles'[u][z.ref] > 0
      BY <1>4 DEF Reason
    <3> HIDE DEF z
    <3>5. Reason(handles, holds, phase, context, u, z) => Reason(handles', holds', phase', context', u, z)
      BY <1>4, <3>1, <3>3, <3>4, ReasonStays DEF z
    <3>6. QED
      BY <3>2, <3>5 DEF z
  <2>3. Reason(handles', holds', phase', context', t, y)
    BY <1>3, <1>4, <1>5, <1>6 DEF Reason
  <2>4. QED
    BY <1>2, <1>4, <1>6, <2>1, <2>2, <2>3, TodoContinued
<1>13. OnceInv'
  BY <1>8 DEF IInv, OnceInv
<1>14. HoldsInv'
  BY <1>4, <1>8, <1>9 DEF IInv, HoldsInv
<1>15. PartsInv'
  BY <1>9, PartsKept DEF IInv
<1>16. HandlesInv'
  BY <1>4 DEF IInv, HandlesInv
<1>17. CountInv'
  <2> SUFFICES ASSUME NEW p \in Objects PROVE CountOf(p)'
    BY DEF CountInv
  <2>1. \A c \in Objects \ {m} : <<c, p>> \in holds' <=> <<c, p>> \in holds
    BY <1>3, <1>9
  <2>2. \A k : /\ Holders(holds, p, k) \in Nat
               /\ Holders(holds', p, k) = Holders(holds, p, k) - Refers(holds, m, p, k) + Refers(holds', m, p, k)
    BY <1>5, <2>1, HoldersChange
  <2>3. CASE p = n
    <3>1. /\ context = "live" =>
               external[p] = Hands(handles, p) + Holders(holds, p, "external")
                               + Often(todo, Decrements(p, "external"))
          /\ internal[p] + Often(todo, IncrementsOf(p))
               = Holders(holds, p, "internal") + Often(todo, Decrements(p, "internal"))
          /\ external[p] + internal[p] = 0 <=> Often(todo, TakeOuts(p)) > 0
          /\ \A W : Often(todo, W) \in Nat
      BY <1>3, <2>3, Counts
    <3>2. m \notin Arrays
      BY <1>3, OneType
    <3>3. /\ Refers(holds, m, p, "external") = 0 /\ Refers(holds', m, p, "external") = 0
          /\ Refers(holds, m, p, "internal") = 1 /\ Refers(holds', m, p, "internal") = 0
      BY <1>3, <1>9, <2>3, <3>2, HeldKinds DEF Refers
    <3>4. /\ Holders(holds', p, "external") = Holders(holds, p, "external")
          /\ Holders(holds', p, "internal") = Holders(holds, p, "internal") - 1
      BY <2>2, <3>3
    <3>5. /\ Often(todo', Decrements(p, "external")) = Often(todo, Decrements(p, "external"))
          /\ Often(todo', Decrements(p, "internal")) = Often(todo, Decrements(p, "internal")) + 1
      BY <1>8, <2>3, <3>1
    <3>6. internal[p] + Often(todo, IncrementsOf(p))
               = Holders(holds', p, "internal") + Often(todo', Decrements(p, "internal"))
      BY <2>2, <3>1, <3>4, <3>5
    <3>7. QED
      BY <1>3, <1>4, <1>8, <2>3, <3>1, <3>4, <3>5, <3>6 DEF CountOf
  <2>4. CASE p # n
    <3>1. \A k : Refers(holds', m, p, k) = Refers(holds, m, p, k) /\ Refers(holds, m, p, k) \in Nat
      BY <1>9, <2>4 DEF Refers
    <3>2. \A k \in Kinds : /\ Holders(holds', p, k) = Holders(holds, p, k)
                           /\ Often(todo', Decrements(p, k)) = Often(todo, Decrements(p, k))
      BY <1>7, <1>8, <2>2, <2>4, <3>1
    <3>3. QED
      BY <1>4, <1>8, <3>2, CountStays
  <2>5. QED
    BY <2>3, <2>4
<1>18. CollectInv'
  <2>1. <<y>> \in Seq(Things)
    BY <1>6, CountsOfShort
  <2>2. \A i \in 1 .. Len(<<y>>) : <<y>>[i] = y
    BY <1>6, ShortPrecedes
  <2>3. \A p : todo[t][1] # Decrement(p, "external")
    BY <1>2, NoDecrement
  <2>4. QED
    BY <1>2, <1>4, <1>6, <2>1, <2>2, <2>3, CollectContinued
<1>19. QED
  BY <1>10, <1>11, <1>12, <1>13, <1>14, <1>15, <1>16, <1>17, <1>18 DEF IInv

(* What ownDestructGraph does next is put in front of the rest.            *)
LEMMA NodesPrecede ==
  ASSUME NEW q, NEW x \in Things, x.do = "graph", Len(q) > 1, q[2] = Release(x.ref),
         NEW y \in Things, y.do = "node"
  PROVE  /\ MayPrecede(<<y, x>>, q)
         /\ \A i \in 1 .. Len(<<y, x>>) : (i = 1 /\ <<y, x>>[i] = y) \/ (i = 2 /\ <<y, x>>[i] = x)
<1>8. \A i \in 1 .. 2 : i = 1 \/ i = 2
  OBVIOUS
<1> DEFINE m == <<y, x>>
<1>4. Len(m) = 2 /\ m[1] = y /\ m[2] = x /\ m[1 + 1] = x
  BY CountsOfShort
<1> HIDE DEF m
<1>1. Len(m) = 2 /\ m[1] = y /\ m[2] = x /\ m[1 + 1] = x
  BY <1>4
<1>2. \A i \in 1 .. Len(m) : i = 1 \/ i = 2
  BY <1>1, <1>8
<1>3. ASSUME NEW i \in 1 .. Len(m)
      PROVE  /\ m[i].do = "take out" => i = 1
             /\ m[i].do # "item"
             /\ m[i].do = "node" => i < Len(m) /\ m[i + 1].do = "graph"
             /\ m[i].do = "graph" =>
                  \/ i < Len(m) /\ m[i + 1] = Release(m[i].ref)
                  \/ i = Len(m) /\ Len(q) > 1 /\ q[2] = Release(m[i].ref)
             /\ m[i].do = "collect" => i = Len(m) /\ Len(q) = 1
  <2>1. CASE i = 1
    BY <1>1, <2>1
  <2>2. CASE i = 2
    BY <1>1, <2>2
  <2>3. QED
    BY <1>2, <2>1, <2>2
<1>5. MayPrecede(m, q)
  BY <1>3 DEF MayPrecede
<1>6. \A i \in 1 .. Len(m) : (i = 1 /\ m[i] = y) \/ (i = 2 /\ m[i] = x)
  BY <1>1, <1>2
<1>7. QED
  BY <1>5, <1>6 DEF m

(* With the release of the application's reference before it.              *)
LEMMA ReleasePrecedes ==
  ASSUME NEW q, NEW x \in Things, x.do = "graph", Len(q) > 1, q[2] = Release(x.ref),
         NEW y \in Things, y.do = "node", NEW z \in Things, z.do = "decrement"
  PROVE  /\ MayPrecede(<<z, y, x>>, q)
         /\ \A i \in 1 .. Len(<<z, y, x>>) :
              \/ i = 1 /\ <<z, y, x>>[i] = z
              \/ i = 2 /\ <<z, y, x>>[i] = y
              \/ i = 3 /\ <<z, y, x>>[i] = x
<1>8. \A i \in 1 .. 3 : i = 1 \/ i = 2 \/ i = 3
  OBVIOUS
<1> DEFINE m == <<z, y, x>>
<1>4. Len(m) = 3 /\ m[1] = z /\ m[2] = y /\ m[3] = x /\ m[2 + 1] = x
  BY CountsOfShort
<1> HIDE DEF m
<1>1. Len(m) = 3 /\ m[1] = z /\ m[2] = y /\ m[3] = x /\ m[2 + 1] = x
  BY <1>4
<1>2. \A i \in 1 .. Len(m) : i = 1 \/ i = 2 \/ i = 3
  BY <1>1, <1>8
<1>3. ASSUME NEW i \in 1 .. Len(m)
      PROVE  /\ m[i].do = "take out" => i = 1
             /\ m[i].do # "item"
             /\ m[i].do = "node" => i < Len(m) /\ m[i + 1].do = "graph"
             /\ m[i].do = "graph" =>
                  \/ i < Len(m) /\ m[i + 1] = Release(m[i].ref)
                  \/ i = Len(m) /\ Len(q) > 1 /\ q[2] = Release(m[i].ref)
             /\ m[i].do = "collect" => i = Len(m) /\ Len(q) = 1
  <2>1. CASE i = 1
    BY <1>1, <2>1
  <2>2. CASE i = 2
    <3>1. m[i] = y /\ m[i + 1] = x /\ i < Len(m)
      BY <1>1, <2>2
    <3>2. QED
      BY <3>1
  <2>3. CASE i = 3
    BY <1>1, <2>3
  <2>4. QED
    BY <1>2, <2>1, <2>2, <2>3
<1>5. MayPrecede(m, q)
  BY <1>3 DEF MayPrecede
<1>6. \A i \in 1 .. Len(m) : (i = 1 /\ m[i] = z) \/ (i = 2 /\ m[i] = y) \/ (i = 3 /\ m[i] = x)
  BY <1>1, <1>2
<1>7. QED
  BY <1>5, <1>6 DEF m

(* A graph that is destroyed: who has its nodes.                           *)
LEMMA GraphIsDying ==
  ASSUME IInv, NEW t \in Threads, Doing(t, "graph")
  PROVE  LET x == First(t)
             g == x.ref
         IN /\ todo[t] # <<>> /\ x = todo[t][1] /\ x \in Things /\ x.do = "graph" /\ 1 \in DOMAIN todo[t]
            /\ g \in Graphs /\ g \in Objects /\ phase[g] # "live"
            /\ Len(todo[t]) > 1 /\ todo[t][2] = Release(g)
            /\ \A n \in Objects : <<g, n>> \in holds => n \in Nodes /\ phase[n] = "live"
            /\ context # "gone"
<1> DEFINE x == First(t)
           g == x.ref
<1>1. TypeOK
  BY DEF IInv
<1>2. /\ todo[t] # <<>> /\ x = todo[t][1] /\ x \in Things /\ x.do = "graph" /\ 1 \in DOMAIN todo[t]
      /\ g \in Graphs
  BY <1>1, StepBegins, ThingsOf
<1>3. g \in Objects /\ g \notin Nodes /\ g \notin Regions /\ g \notin Arrays
  BY <1>2, OneType
<1>4. phase[g] \in {"dying", "freed"}
  BY <1>2 DEF IInv, TodoInv, Reason
<1>5. Len(todo[t]) > 1 /\ todo[t][2] = Release(g)
  <2> HIDE DEF x
  <2>1. Shape(todo[t]) /\ 1 \in DOMAIN todo[t] /\ todo[t][1].do = "graph"
    BY <1>2 DEF IInv, TodoInv
  <2>2. 1 < Len(todo[t]) /\ todo[t][1 + 1] = Release(todo[t][1].ref)
    BY <2>1 DEF Shape
  <2>3. QED
    BY <1>2, <2>2
<1>6. \A n \in Objects : <<g, n>> \in holds => n \in Nodes /\ phase[n] = "live"
  BY <1>2, <1>3 DEF IInv, HoldsInv
<1>7. context # "gone"
  BY <1>2 DEF IInv, CollectInv
<1>8. QED
  BY <1>2, <1>3, <1>4, <1>5, <1>6, <1>7

(* ownDestructGraph has no node left.                                      *)
LEMMA DestructLastKeeps ==
  ASSUME IInv, NEW t \in Threads, Doing(t, "graph"),
         HeldBy(First(t).ref) = {}, Continue(t, <<>>),
         UNCHANGED <<context, phase, external, internal, reftable, num_references, holds, handles>>
  PROVE  IInv'
<1> DEFINE x == First(t)
           g == x.ref
<1>1. TypeOK
  BY DEF IInv
<1>2. /\ todo[t] # <<>> /\ x = todo[t][1] /\ x \in Things /\ x.do = "graph" /\ 1 \in DOMAIN todo[t]
  BY <1>1, StepBegins
<1>3. \A n \in Objects : <<g, n>> \notin holds
  BY DEF HeldBy
<1>4. /\ todo' \in [Threads -> Seq(Things)]
      /\ \A W : Often(todo, W) \in Nat /\ Often(todo', W) = Often(todo, W) - In(x, W)
  BY <1>1, <1>2, StepNone
<1> HIDE DEF x
<1>5. /\ \A p, k : Often(todo', Decrements(p, k)) = Often(todo, Decrements(p, k))
      /\ \A p \in Objects : Often(todo', IncrementsOf(p)) = Often(todo, IncrementsOf(p))
      /\ \A p \in Nodes : Often(todo', IncrementsBy(p)) = Often(todo, IncrementsBy(p))
      /\ \A p : Often(todo', TakeOuts(p)) = Often(todo, TakeOuts(p))
      /\ \A p : Often(todo', Frees(p)) = Often(todo, Frees(p))
      /\ \A p : p # g => Often(todo', Destructs(p)) = Often(todo, Destructs(p))
  <2>1. /\ \A p, k : In(x, Decrements(p, k)) = 0
        /\ \A p \in Objects : In(x, IncrementsOf(p)) = 0
        /\ \A p \in Nodes : In(x, IncrementsBy(p)) = 0
        /\ \A p : In(x, TakeOuts(p)) = 0
        /\ \A p : In(x, Frees(p)) = 0
        /\ \A p : In(x, Destructs(p)) = IF p = g THEN 1 ELSE 0
    BY <1>2, InGraph
  <2>2. QED
    BY <1>4, <2>1
<1>6. TypeOK'
  BY <1>1, <1>4 DEF TypeOK
<1>7. TableInv'
  BY <1>1, TableStays DEF IInv, table
<1>8. TodoInv'
  <2>1. <<>> \in Seq(Things) /\ MayPrecede(<<>>, todo[t]) /\ \A i \in 1 .. Len(<<>>) : FALSE
    BY CountsOfShort, ShortPrecedes
  <2>2. \A u \in Threads : \A i \in DOMAIN todo[u] :
          todo[u][i].do = "node" => <<todo[u][i + 1].ref, todo[u][i].ref>> \in holds'
    BY DEF IInv, TodoInv
  <2>3. QED
    BY <1>2, <2>1, <2>2, TodoContinued
<1>9. OnceInv'
  BY <1>5 DEF IInv, OnceInv
<1>10. HoldsInv'
  BY <1>3, <1>5 DEF IInv, HoldsInv
<1>11. PartsInv'
  BY PartsKept DEF IInv
<1>12. HandlesInv'
  BY DEF IInv, HandlesInv
<1>13. CountInv'
  <2> SUFFICES ASSUME NEW p \in Objects PROVE CountOf(p)'
    BY DEF CountInv
  <2>1. QED
    BY <1>5, CountStays
<1>14. CollectInv'
  <2>1. <<>> \in Seq(Things) /\ \A i \in 1 .. Len(<<>>) : FALSE
    BY CountsOfShort, ShortPrecedes
  <2>2. \A p : todo[t][1] # Decrement(p, "external")
    BY <1>2, NoDecrement
  <2>3. QED
    BY <1>2, <2>1, <2>2, CollectContinued
<1>15. QED
  BY <1>6, <1>7, <1>8, <1>9, <1>10, <1>11, <1>12, <1>13, <1>14 DEF IInv

(* ownDestructGraph takes out a node, and releases the application's       *)
(* reference to it when there is one.                                      *)
LEMMA DestructOneKeeps ==
  ASSUME IInv, NEW t \in Threads, Doing(t, "graph"),
         NEW n \in Objects, <<First(t).ref, n>> \in holds,
         NEW also \in BOOLEAN, also <=> external[n] # 0,
         Continue(t, IF also THEN <<Decrement(n, "external"), RemoveNodeInt(n), First(t)>>
                             ELSE <<RemoveNodeInt(n), First(t)>>),
         \/ UNCHANGED handles /\ (also => context = "collecting")
         \/ also /\ context # "collecting" /\ \E u \in Threads : handles[u][n] > 0 /\ Give(u, n),
         UNCHANGED <<context, phase, external, internal, reftable, num_references, holds>>
  PROVE  IInv'
<1> DEFINE x == First(t)
           g == x.ref
           y == RemoveNodeInt(n)
           z == Decrement(n, "external")
           more == IF also THEN <<z, y, x>> ELSE <<y, x>>
<1>1. TypeOK
  BY DEF IInv
<1>2. /\ todo[t] # <<>> /\ x = todo[t][1] /\ x \in Things /\ x.do = "graph" /\ 1 \in DOMAIN todo[t]
      /\ g \in Graphs /\ g \in Objects /\ phase[g] # "live"
      /\ Len(todo[t]) > 1 /\ todo[t][2] = Release(g)
      /\ n \in Nodes /\ phase[n] = "live" /\ <<g, n>> \in holds
      /\ context # "gone"
  BY GraphIsDying
<1>3. y \in Things /\ y.do = "node" /\ y.ref = n
  <2>1. y \in Things
    BY <1>2, ThingsTyped
  <2>2. y.do = "node" /\ y.ref = n
    BY DEF RemoveNodeInt
  <2>3. QED
    BY <2>1, <2>2
<1>4. z \in Things /\ z.do = "decrement" /\ z.ref = n /\ z.kind = "external"
  <2>1. z \in Things
    BY ThingsTyped DEF Kinds
  <2>2. z.do = "decrement" /\ z.ref = n /\ z.kind = "external"
    BY DEF Decrement
  <2>3. QED
    BY <2>1, <2>2
<1>5. Continue(t, more)
  OBVIOUS
<1> HIDE DEF x, y, z
<1>6. /\ todo' \in [Threads -> Seq(Things)]
      /\ \A W : /\ Often(todo, W) \in Nat
                /\ Often(todo', W) = Often(todo, W) + In(y, W) + IF also THEN In(z, W) ELSE 0
  <2>1. \A W : In(x, W) \in Nat /\ In(y, W) \in Nat /\ In(z, W) \in Nat
    BY DEF In
  <2>2. CASE also
    <3>1. Continue(t, <<z, y, x>>)
      BY <1>5, <2>2
    <3>2. /\ todo' \in [Threads -> Seq(Things)]
          /\ \A W : /\ Often(todo, W) \in Nat
                    /\ Often(todo', W) = Often(todo, W) - In(x, W) + In(z, W) + In(y, W) + In(x, W)
      BY <1>1, <1>2, <1>3, <1>4, <3>1, StepThree
    <3>3. QED
      BY <2>1, <2>2, <3>2
  <2>3. CASE ~ also
    <3>1. Continue(t, <<y, x>>)
      BY <1>5, <2>3
    <3>2. /\ todo' \in [Threads -> Seq(Things)]
          /\ \A W : /\ Often(todo, W) \in Nat
                    /\ Often(todo', W) = Often(todo, W) - In(x, W) + In(y, W) + In(x, W)
      BY <1>1, <1>2, <1>3, <3>1, StepTwo
    <3>3. QED
      BY <2>1, <2>3, <3>2
  <2>4. QED
    BY <2>2, <2>3
<1>7. /\ \A p, k : Often(todo', Decrements(p, k)) =
           Often(todo, Decrements(p, k)) + IF also /\ p = n /\ k = "external" THEN 1 ELSE 0
      /\ \A p \in Objects : Often(todo', IncrementsOf(p)) = Often(todo, IncrementsOf(p))
      /\ \A p \in Nodes : Often(todo', IncrementsBy(p)) = Often(todo, IncrementsBy(p))
      /\ \A p : Often(todo', TakeOuts(p)) = Often(todo, TakeOuts(p))
      /\ \A p : Often(todo', Frees(p)) = Often(todo, Frees(p))
      /\ \A p : Often(todo', Destructs(p)) = Often(todo, Destructs(p))
  <2>1. /\ \A p, k : In(y, Decrements(p, k)) = 0
        /\ \A p \in Objects : In(y, IncrementsOf(p)) = 0
        /\ \A p \in Nodes : In(y, IncrementsBy(p)) = 0
        /\ \A p : In(y, TakeOuts(p)) = 0
        /\ \A p : In(y, Frees(p)) = 0
        /\ \A p : In(y, Destructs(p)) = 0
    BY <1>3, InOther
  <2>2. /\ \A p, k : In(z, Decrements(p, k)) = IF p = n /\ k = "external" THEN 1 ELSE 0
        /\ \A p \in Objects : In(z, IncrementsOf(p)) = 0
        /\ \A p \in Nodes : In(z, IncrementsBy(p)) = 0
        /\ \A p : In(z, TakeOuts(p)) = 0
        /\ \A p : In(z, Frees(p)) = 0
        /\ \A p : In(z, Destructs(p)) = 0
    BY <1>4, InDecrement
  <2>3. QED
    BY <1>6, <2>1, <2>2
<1>8. /\ handles' \in [Threads -> [Objects -> 0 .. MaxHandles]]
      /\ \A u \in Threads, p \in Objects : handles'[u][p] > 0 => handles[u][p] > 0
      /\ \A u \in Threads, p \in Objects \ {n} : handles'[u][p] = handles[u][p]
      /\ \A p \in Objects \ {n} : Hands(handles', p) = Hands(handles, p)
      /\ context = "live" =>
           /\ Hands(handles, n) \in Nat
           /\ Hands(handles', n) = Hands(handles, n) - IF also THEN 1 ELSE 0
  <2>0. Hands(handles, n) \in Nat
    BY <1>1, TypesAre
  <2>1. CASE UNCHANGED handles /\ (also => context = "collecting")
    BY <1>1, <2>0, <2>1 DEF TypeOK
  <2>2. CASE also /\ \E u \in Threads : handles[u][n] > 0 /\ Give(u, n)
    <3>1. PICK u \in Threads : handles[u][n] > 0 /\ Give(u, n)
      BY <2>2
    <3>2. QED
      BY <1>1, <2>0, <2>2, <3>1, Given
  <2>3. QED
    BY <2>1, <2>2
<1>9. TypeOK'
  BY <1>1, <1>6, <1>8 DEF TypeOK
<1>10. TableInv'
  BY <1>1, TableStays DEF IInv, table
<1>11. /\ more \in Seq(Things) /\ MayPrecede(more, todo[t])
       /\ \A i \in 1 .. Len(more) : \/ more[i] = x
                                    \/ more[i] = y /\ more[i + 1] = x
                                    \/ also /\ i = 1 /\ more[i] = z
  <2>1. CASE also
    <3>1. <<z, y, x>> \in Seq(Things) /\ <<z, y, x>>[2] = y /\ <<z, y, x>>[3] = x
      BY <1>2, <1>3, <1>4, CountsOfShort
    <3>2. /\ MayPrecede(<<z, y, x>>, todo[t])
          /\ \A i \in 1 .. Len(<<z, y, x>>) :
                   \/ i = 1 /\ <<z, y, x>>[i] = z
                   \/ i = 2 /\ <<z, y, x>>[i] = y
                   \/ i = 3 /\ <<z, y, x>>[i] = x
      BY <1>2, <1>3, <1>4, ReleasePrecedes
    <3> DEFINE m == <<z, y, x>>
    <3> HIDE DEF m
    <3>3. \A i \in 1 .. Len(m) : m[i] = x \/ (m[i] = y /\ m[i + 1] = x) \/ (i = 1 /\ m[i] = z)
      <4>1. 2 + 1 = 3
        OBVIOUS
      <4>2. QED
        BY <3>1, <3>2, <4>1 DEF m
    <3>4. more = m
      BY <2>1 DEF m
    <3> HIDE DEF more
    <3>5. QED
      BY <2>1, <3>1, <3>2, <3>3, <3>4 DEF m
  <2>2. CASE ~ also
    <3>1. <<y, x>> \in Seq(Things) /\ <<y, x>>[2] = x
      BY <1>2, <1>3, CountsOfShort
    <3>2. /\ MayPrecede(<<y, x>>, todo[t])
          /\ \A i \in 1 .. Len(<<y, x>>) : (i = 1 /\ <<y, x>>[i] = y) \/ (i = 2 /\ <<y, x>>[i] = x)
      BY <1>2, <1>3, NodesPrecede
    <3> DEFINE m == <<y, x>>
    <3> HIDE DEF m
    <3>3. \A i \in 1 .. Len(m) : m[i] = x \/ (m[i] = y /\ m[i + 1] = x)
      <4>1. 1 + 1 = 2
        OBVIOUS
      <4>2. QED
        BY <3>1, <3>2, <4>1 DEF m
    <3>4. more = m
      BY <2>2 DEF m
    <3> HIDE DEF more
    <3>5. QED
      BY <2>2, <3>1, <3>2, <3>3, <3>4 DEF m
  <2>3. QED
    BY <2>1, <2>2
<1> HIDE DEF more
<1>12. TodoInv'
  <2>1. Reason(handles, holds, phase, context, t, x)
    BY <1>2 DEF IInv, TodoInv
  <2>2. /\ Reason(handles', holds', phase', context', t, x)
        /\ Reason(handles', holds', phase', context', t, y)
        /\ Reason(handles', holds', phase', context', t, z)
    <3>1. Reason(handles', holds', phase', context', t, x)
      BY <1>2, <2>1 DEF Reason
    <3>2. Reason(handles', holds', phase', context', t, y)
      BY <1>3 DEF Reason
    <3>3. Reason(handles', holds', phase', context', t, z)
      BY <1>2, <1>4 DEF Reason
    <3>4. QED
      BY <3>1, <3>2, <3>3
  <2>3. \A i \in 1 .. Len(more) :
           /\ Reason(handles', holds', phase', context', t, more[i])
           /\ more[i].do = "node" => <<more[i + 1].ref, more[i].ref>> \in holds'
    BY <1>2, <1>3, <1>4, <1>11, <2>2
  <2>4. ASSUME NEW u \in Threads, NEW i, i \in DOMAIN todo[u]
        PROVE  /\ Reason(handles, holds, phase, context, u, todo[u][i])
                    => Reason(handles', holds', phase', context', u, todo[u][i])
               /\ todo[u][i].do = "node" => <<todo[u][i + 1].ref, todo[u][i].ref>> \in holds'
    <3> DEFINE w == todo[u][i]
    <3>1. w \in Things
      BY <1>1, <2>4, Entries
    <3>2. w.do = "node" => <<todo[u][i + 1].ref, w.ref>> \in holds'
      BY <2>4 DEF IInv, TodoInv
    <3>3. ASSUME w.do = "increment", Reason(handles, holds, phase, context, u, w)
          PROVE  /\ handles'[u][w.ref] > 0 /\ handles'[u][w.by] > 0 /\ <<w.by, w.ref>> \in holds'
                 /\ \A k \in Graphs : <<k, w.by>> \in holds' => handles'[u][k] > 0
      <4>1. w.by \in Nodes /\ w.ref \in Parameters
        BY <3>1, <3>3, ThingsOf
      <4>2. w.by # n
        <5>1. <<g, w.by>> \in holds => handles[u][g] > 0
          BY <1>2, <3>3 DEF Reason
        <5>2. ~ (handles[u][g] > 0)
          BY <1>2 DEF IInv, HandlesInv
        <5>3. QED
          BY <1>2, <5>1, <5>2
      <4>3. w.ref # n /\ w.ref \in Objects /\ w.by \in Objects /\ \A k \in Graphs : k # n /\ k \in Objects
        BY <1>2, <4>1, OneType
      <4>4. QED
        BY <1>8, <3>3, <4>2, <4>3 DEF Reason
    <3>4. w.do = "item" /\ Reason(handles, holds, phase, context, u, w) => handles'[u][w.ref] > 0
      <4>1. w.do = "item" => w.ref \in Objects \ {n}
        <5>1. w.do = "item" => w.ref \in Arrays
          BY <3>1, ThingsOf
        <5>2. QED
          BY <1>2, <5>1, OneType
      <4>2. QED
        BY <1>8, <4>1 DEF Reason
    <3> HIDE DEF w
    <3>5. Reason(handles, holds, phase, context, u, w) => Reason(handles', holds', phase', context', u, w)
      BY <3>1, <3>3, <3>4, ReasonStays DEF w
    <3>6. QED
      BY <3>2, <3>5 DEF w
  <2>5. QED
    BY <1>2, <1>5, <1>11, <2>3, <2>4, TodoContinued
<1>13. OnceInv'
  BY <1>7 DEF IInv, OnceInv
<1>14. HoldsInv'
  BY <1>7 DEF IInv, HoldsInv
<1>15. PartsInv'
  BY PartsKept DEF IInv
<1>16. HandlesInv'
  BY <1>8 DEF IInv, HandlesInv
<1>17. CountInv'
  <2> SUFFICES ASSUME NEW p \in Objects PROVE CountOf(p)'
    BY DEF CountInv
  <2>1. CASE p # n
    <3>1. \A k \in Kinds : Often(todo', Decrements(p, k)) = Often(todo, Decrements(p, k))
      BY <1>6, <1>7, <2>1
    <3>2. QED
      BY <1>7, <1>8, <2>1, <3>1, CountStays
  <2>2. CASE p = n
    <3>1. /\ context = "live" =>
               external[p] = Hands(handles, p) + Holders(holds, p, "external")
                               + Often(todo, Decrements(p, "external"))
          /\ internal[p] + Often(todo, IncrementsOf(p))
               = Holders(holds, p, "internal") + Often(todo, Decrements(p, "internal"))
          /\ external[p] + internal[p] = 0 <=> Often(todo, TakeOuts(p)) > 0
          /\ Holders(holds, p, "external") \in Nat
          /\ \A W : Often(todo, W) \in Nat
      BY <1>2, <2>2, Counts
    <3>2. /\ Often(todo', Decrements(p, "external")) =
               Often(todo, Decrements(p, "external")) + IF also THEN 1 ELSE 0
          /\ Often(todo', Decrements(p, "internal")) = Often(todo, Decrements(p, "internal"))
      BY <1>6, <1>7, <2>2
    <3>3. context = "live" =>
               external[p] = Hands(handles', p) + Holders(holds, p, "external")
                               + Often(todo', Decrements(p, "external"))
      BY <1>8, <2>2, <3>1, <3>2
    <3>4. QED
      BY <1>2, <1>7, <2>2, <3>1, <3>2, <3>3 DEF CountOf
  <2>3. QED
    BY <2>1, <2>2
<1>18. CollectInv'
  <2>1. \A p : todo[t][1] # Decrement(p, "external")
    BY <1>2, NoDecrement
  <2>2. \A i \in 1 .. Len(more) : more[i].do # "collect"
    BY <1>2, <1>3, <1>4, <1>11
  <2>3. \A i \in 1 .. Len(more) : more[i].do = "decrement" => i = 1 /\ external'[more[i].ref] > 0
    <3>1. also => external[n] > 0
      BY <1>1 DEF TypeOK
    <3>2. QED
      BY <1>2, <1>3, <1>4, <1>11, <3>1
  <2>4. context # "live" => handles' = handles
    BY <1>1, <1>2 DEF TypeOK
  <2>5. QED
    BY <1>2, <1>5, <1>11, <2>1, <2>2, <2>3, <2>4, CollectContinued
<1>19. QED
  BY <1>9, <1>10, <1>12, <1>13, <1>14, <1>15, <1>16, <1>17, <1>18 DEF IInv

(* ownDestructGraph.                                                       *)
LEMMA DestructNextNodeKeeps ==
  ASSUME IInv, NEW t \in Threads, DestructNextNode(t)
  PROVE  IInv'
<1> DEFINE g == First(t).ref
<1>1. /\ Doing(t, "graph")
      /\ UNCHANGED <<context, phase, external, internal, reftable, num_references, holds>>
  BY DEF DestructNextNode, counts, table
<1>2. CASE HeldBy(g) = {} /\ Continue(t, <<>>) /\ UNCHANGED handles
  BY <1>1, <1>2, DestructLastKeeps
<1>3. CASE \E n \in HeldBy(g) :
             IF external[n] = 0
             THEN Continue(t, <<RemoveNodeInt(n), First(t)>>) /\ UNCHANGED handles
             ELSE /\ Continue(t, <<Decrement(n, "external"), RemoveNodeInt(n), First(t)>>)
                  /\ IF context = "collecting" THEN UNCHANGED handles
                     ELSE \E u \in Threads : /\ handles[u][n] > 0
                                             /\ handles' = [handles EXCEPT ![u][n] = @ - 1]
  <2>1. PICK n \in HeldBy(g) :
             IF external[n] = 0
             THEN Continue(t, <<RemoveNodeInt(n), First(t)>>) /\ UNCHANGED handles
             ELSE /\ Continue(t, <<Decrement(n, "external"), RemoveNodeInt(n), First(t)>>)
                  /\ IF context = "collecting" THEN UNCHANGED handles
                     ELSE \E u \in Threads : /\ handles[u][n] > 0
                                             /\ handles' = [handles EXCEPT ![u][n] = @ - 1]
    BY <1>3
  <2>2. n \in Objects /\ <<First(t).ref, n>> \in holds
    BY DEF HeldBy
  <2> DEFINE also == external[n] # 0
  <2>3. also \in BOOLEAN /\ (also <=> external[n] # 0)
    OBVIOUS
  <2>4. Continue(t, IF also THEN <<Decrement(n, "external"), RemoveNodeInt(n), First(t)>>
                            ELSE <<RemoveNodeInt(n), First(t)>>)
    BY <2>1
  <2>5. \/ UNCHANGED handles /\ (also => context = "collecting")
        \/ also /\ context # "collecting" /\ \E u \in Threads : handles[u][n] > 0 /\ Give(u, n)
    BY <2>1 DEF Give
  <2> HIDE DEF also, g
  <2>6. QED
    BY <1>1, <2>2, <2>3, <2>4, <2>5, DestructOneKeeps
<1>4. QED
  BY <1>2, <1>3 DEF DestructNextNode

(* The loop over the table runs alone.                                     *)
LEMMA OnlyCollects ==
  ASSUME IInv, NEW t \in Threads, Doing(t, "collect")
  PROVE  LET x == First(t) IN
         /\ todo[t] # <<>> /\ x = todo[t][1] /\ x \in Things /\ x.do = "collect"
         /\ x.slot \in Nat \ {0} /\ context = "collecting"
         /\ DOMAIN todo[t] = 1 .. Len(todo[t]) /\ Len(todo[t]) = 1 /\ 1 \in DOMAIN todo[t]
         /\ \A u \in Threads \ {t} : todo[u] = <<>>
         /\ \A u \in Threads : \A i \in DOMAIN todo[u] : u = t /\ i = 1
         /\ \A o \in Objects : /\ \A k : Often(todo, Decrements(o, k)) = 0
                               /\ Often(todo, IncrementsOf(o)) = 0 /\ Often(todo, TakeOuts(o)) = 0
                               /\ Often(todo, Frees(o)) = 0 /\ Often(todo, Destructs(o)) = 0
         /\ \A s \in Slots : s < x.slot /\ reftable[s] # Null => external[reftable[s]] = 0
<1> DEFINE x == First(t)
<1>1. TypeOK /\ todo \in [Threads -> Seq(Things)]
  BY DEF IInv, TypeOK
<1>2. /\ todo[t] # <<>> /\ x = todo[t][1] /\ x \in Things /\ x.do = "collect" /\ 1 \in DOMAIN todo[t]
      /\ DOMAIN todo[t] = 1 .. Len(todo[t]) /\ Len(todo[t]) \in Nat \ {0} /\ x.slot \in Nat
  BY <1>1, StepBegins, ThingsOf
<1>3. context = "collecting" /\ x.slot > 0
  BY <1>2 DEF IInv, TodoInv, Reason
<1>4. Len(todo[t]) = 1
  BY <1>2 DEF IInv, TodoInv, Shape
<1>5. \A u \in Threads \ {t} : todo[u] = <<>>
  BY <1>2, <1>3 DEF IInv, CollectInv
<1>6. ASSUME NEW u \in Threads, NEW i, i \in DOMAIN todo[u]
      PROVE  u = t /\ i = 1
  <2>1. todo[u] \in Seq(Things)
    BY <1>1
  <2>2. todo[u] # <<>>
    BY <1>6, <2>1, NotEmpty
  <2>3. QED
    BY <1>2, <1>4, <1>5, <1>6, <2>2
<1> HIDE DEF x
<1>7. ASSUME NEW o \in Objects
      PROVE  /\ \A k : Often(todo, Decrements(o, k)) = 0
             /\ Often(todo, IncrementsOf(o)) = 0 /\ Often(todo, TakeOuts(o)) = 0
             /\ Often(todo, Frees(o)) = 0 /\ Often(todo, Destructs(o)) = 0
  <2>1. \A W : x \notin W => Often(todo, W) = 0
    <3> TAKE W
    <3>1. ASSUME x \notin W PROVE Often(todo, W) = 0
      <4>1. \A u \in Threads : \A i \in DOMAIN todo[u] : todo[u][i] \notin W
        BY <1>2, <1>6, <3>1
      <4>2. QED
        BY <1>1, <4>1, NeverDone
    <3>2. QED
      BY <3>1
  <2>2. /\ \A p, k : In(x, Decrements(p, k)) = 0
        /\ \A p \in Objects : In(x, IncrementsOf(p)) = 0
        /\ \A p : In(x, TakeOuts(p)) = 0
        /\ \A p : In(x, Frees(p)) = 0
        /\ \A p : In(x, Destructs(p)) = 0
    BY <1>2, InOther
  <2>3. \A W : In(x, W) = 0 => x \notin W
    BY DEF In
  <2>4. QED
    BY <2>1, <2>2, <2>3
<1>8. ASSUME NEW s \in Slots, s < x.slot, reftable[s] # Null, external[reftable[s]] # 0 PROVE FALSE
  <2>1. todo[t][1] = Decrement(reftable[s], "external")
    BY <1>2, <1>3, <1>8 DEF IInv, CollectInv
  <2>2. QED
    BY <1>2, <2>1, NoDecrement
<1>9. \A s \in Slots : s < x.slot /\ reftable[s] # Null => external[reftable[s]] = 0
  BY <1>8
<1>10. QED
  BY <1>2, <1>3, <1>4, <1>5, <1>6, <1>7, <1>9 DEF x

(* At the end of the table every object was freed.                         *)
LEMMA EndOfTable ==
  ASSUME IInv, NEW t \in Threads, Doing(t, "collect"), First(t).slot \notin Slots
  PROVE  /\ \A o \in Objects : phase[o] \in {"none", "freed"}
         /\ \A a, b \in Objects : <<a, b>> \notin holds
<1>1. TypeOK /\ TableInv
  BY DEF IInv
<1>2. /\ First(t).slot \in Nat \ {0} /\ context = "collecting"
      /\ \A o \in Objects : /\ \A k : Often(todo, Decrements(o, k)) = 0
                            /\ Often(todo, IncrementsOf(o)) = 0 /\ Often(todo, TakeOuts(o)) = 0
                            /\ Often(todo, Frees(o)) = 0 /\ Often(todo, Destructs(o)) = 0
      /\ \A s \in Slots : s < First(t).slot /\ reftable[s] # Null => external[reftable[s]] = 0
  BY OnlyCollects
<1>3. \A s \in Slots : s < First(t).slot
  BY <1>2, BoundsAssumption DEF Slots
<1>4. \A o \in Objects : phase[o] # "dying"
  BY <1>2, Counts
<1>5. ASSUME NEW a \in Objects, NEW b \in Objects, <<a, b>> \in holds
      PROVE  /\ phase[a] = "live"
             /\ \/ a \in Graphs /\ b \in Nodes
                \/ a \in Nodes /\ b \in Parameters
                \/ a \in Regions /\ b \in Images \cup Regions
                \/ a \in Arrays /\ b \in Items
  <2>1. /\ phase[a] # "live" => a \in Graphs /\ Often(todo, Destructs(a)) > 0
        /\ \/ a \in Graphs /\ b \in Nodes
           \/ a \in Nodes /\ b \in Parameters
           \/ a \in Regions /\ b \in Images \cup Regions
           \/ a \in Arrays /\ b \in Items
    BY <1>5 DEF IInv, HoldsInv
  <2>2. QED
    BY <1>2, <2>1
<1>6. ASSUME NEW o \in Objects, phase[o] = "live"
      PROVE  \E p \in Objects : <<p, o>> \in holds /\ p \notin Arrays
  <2>1. external[o] = 0
    <3>1. PICK s \in Slots : reftable[s] = o
      BY <1>1, <1>6, LiveIsInTable
    <3>2. o # Null
      BY ObjectsAssumption
    <3>3. QED
      BY <1>2, <1>3, <3>1, <3>2
  <2>2. /\ external[o] + internal[o] = 0 <=> Often(todo, TakeOuts(o)) > 0
        /\ internal[o] + Often(todo, IncrementsOf(o))
             = Holders(holds, o, "internal") + Often(todo, Decrements(o, "internal"))
        /\ internal[o] \in Nat /\ Holders(holds, o, "internal") \in Nat
    BY <1>6, Counts
  <2>3. Holders(holds, o, "internal") > 0
    BY <1>2, <2>1, <2>2
  <2>4. QED
    BY <2>3, HoldersAre, HeldKinds
<1>7. \A o \in Graphs : phase[o] # "live"
  <2> SUFFICES ASSUME NEW o \in Graphs, phase[o] = "live" PROVE FALSE
    OBVIOUS
  <2>1. o \in Objects
    BY OneType
  <2>2. PICK p \in Objects : <<p, o>> \in holds /\ p \notin Arrays
    BY <1>6, <2>1
  <2>3. QED
    BY <1>5, <2>1, <2>2, OneType
<1>8. \A o \in Nodes : phase[o] # "live"
  <2> SUFFICES ASSUME NEW o \in Nodes, phase[o] = "live" PROVE FALSE
    OBVIOUS
  <2>1. o \in Objects
    BY OneType
  <2>2. PICK p \in Objects : <<p, o>> \in holds /\ p \notin Arrays
    BY <1>6, <2>1
  <2>3. p \in Graphs /\ phase[p] = "live"
    BY <1>5, <2>1, <2>2, OneType
  <2>4. QED
    BY <1>7, <2>3
<1>9. \A o \in Regions : phase[o] # "live"
  <2> DEFINE S == {r \in Regions : phase[r] = "live"}
  <2> SUFFICES ASSUME S # {} PROVE FALSE
    OBVIOUS
  <2>1. PICK r \in S : \A p \in S : <<p, r>> \notin holds
    BY DEF IInv, PartsInv
  <2>2. r \in Objects /\ r \in Regions /\ phase[r] = "live"
    BY <2>1, OneType
  <2>3. PICK p \in Objects : <<p, r>> \in holds /\ p \notin Arrays
    BY <1>6, <2>2
  <2>4. phase[p] = "live" /\ (p \in Nodes \/ p \in Regions)
    BY <1>5, <2>2, <2>3, OneType
  <2>5. QED
    BY <1>8, <2>1, <2>3, <2>4
<1>10. \A o \in Objects : phase[o] # "live"
  <2> SUFFICES ASSUME NEW o \in Objects, phase[o] = "live" PROVE FALSE
    OBVIOUS
  <2>1. PICK p \in Objects : <<p, o>> \in holds /\ p \notin Arrays
    BY <1>6
  <2>2. phase[p] = "live" /\ (p \in Graphs \/ p \in Nodes \/ p \in Regions)
    BY <1>5, <2>1
  <2>3. QED
    BY <1>7, <1>8, <1>9, <2>2
<1>11. \A o \in Objects : phase[o] \in {"none", "freed"}
  BY <1>1, <1>4, <1>10 DEF TypeOK
<1>12. \A a, b \in Objects : <<a, b>> \notin holds
  BY <1>5, <1>10
<1>13. QED
  BY <1>11, <1>12

(* The collection is over.                                                 *)
LEMMA CollectEndsKeeps ==
  ASSUME IInv, NEW t \in Threads, Doing(t, "collect"), First(t).slot \notin Slots,
         context' = "gone", Continue(t, <<>>),
         UNCHANGED <<phase, external, internal, reftable, num_references, holds, handles>>
  PROVE  IInv'
<1>1. TypeOK
  BY DEF IInv
<1>2. /\ todo[t] # <<>> /\ First(t) = todo[t][1] /\ context = "collecting"
      /\ Len(todo[t]) = 1
      /\ \A u \in Threads \ {t} : todo[u] = <<>>
      /\ \A u \in Threads : \A i \in DOMAIN todo[u] : u = t /\ i = 1
  BY OnlyCollects
<1>3. /\ \A o \in Objects : phase[o] \in {"none", "freed"}
      /\ \A a, b \in Objects : <<a, b>> \notin holds
  BY EndOfTable
<1>4. /\ <<>> \in Seq(Things) /\ MayPrecede(<<>>, todo[t]) /\ Len(<<>>) = 0
      /\ \A i \in 1 .. Len(<<>>) : FALSE
  BY CountsOfShort, ShortPrecedes
<1>5. /\ todo' \in [Threads -> Seq(Things)]
      /\ After(todo[t], <<>>, todo'[t]) /\ \A u \in Threads \ {t} : todo'[u] = todo[u]
      /\ \A W : Often(todo, W) \in Nat /\ Often(todo', W) = Often(todo, W) - In(todo[t][1], W)
  <2>1. /\ todo' \in [Threads -> Seq(Things)]
        /\ After(todo[t], <<>>, todo'[t]) /\ \A u \in Threads \ {t} : todo'[u] = todo[u]
    BY <1>1, <1>2, <1>4, StepCounts
  <2>2. \A W : Often(todo, W) \in Nat /\ Often(todo', W) = Often(todo, W) - In(todo[t][1], W)
    BY <1>1, <1>2, <1>4, StepNone
  <2>3. QED
    BY <2>1, <2>2
<1>6. \A u \in Threads : todo'[u] = <<>>
  <2>1. Len(todo'[t]) = 0 /\ todo'[t] \in Seq(Things)
    BY <1>2, <1>4, <1>5 DEF After
  <2>2. todo'[t] = <<>>
    BY <2>1
  <2>3. QED
    BY <1>2, <1>5, <2>2
<1>7. \A W : Often(todo', W) <= Often(todo, W)
  BY <1>5 DEF In
<1>8. TypeOK'
  BY <1>1, <1>5 DEF TypeOK
<1>9. TableInv'
  BY <1>1, TableStays DEF IInv, table
<1>10. TodoInv'
  BY <1>2, <1>4, TodoContinued
<1>11. OnceInv'
  <2>1. \A W : Often(todo, W) <= 1 => Often(todo', W) <= 1
    <3> TAKE W
    <3>1. Often(todo', W) <= Often(todo, W) /\ Often(todo, W) \in Nat /\ Often(todo', W) \in Int
      BY <1>5, <1>7 DEF In
    <3>2. QED
      BY <3>1
  <2>2. QED
    BY <2>1 DEF IInv, OnceInv
<1>12. HoldsInv'
  BY <1>3, OneType DEF HoldsInv
<1>13. PartsInv'
  BY PartsKept DEF IInv
<1>14. HandlesInv'
  BY DEF IInv, HandlesInv
<1>15. CountInv'
  <2> SUFFICES ASSUME NEW p \in Objects PROVE CountOf(p)'
    BY DEF CountInv
  <2>1. phase[p] = "none" => internal[p] = 0
    BY Counts
  <2>2. QED
    BY <1>3, <2>1 DEF CountOf
<1>16. CollectInv'
  <2>1. \A u \in Threads, o \in Objects : handles[u][o] = 0
    BY <1>2 DEF IInv, CollectInv
  <2>2. QED
    BY <1>3, <1>6, <2>1 DEF CollectInv
<1>17. QED
  BY <1>8, <1>9, <1>10, <1>11, <1>12, <1>13, <1>14, <1>15, <1>16 DEF IInv

(* The loop goes on: what it does not need to release it passes.           *)
LEMMA CollectPassesKeeps ==
  ASSUME IInv, NEW t \in Threads, Doing(t, "collect"), First(t).slot \in Slots,
         reftable[First(t).slot] = Null \/ external[reftable[First(t).slot]] = 0,
         Continue(t, <<Collect(First(t).slot + 1)>>),
         UNCHANGED <<context, phase, external, internal, reftable, num_references, holds, handles>>
  PROVE  IInv'
<1> DEFINE x == First(t)
           y == Collect(x.slot + 1)
<1>1. TypeOK
  BY DEF IInv
<1>2. /\ todo[t] # <<>> /\ x = todo[t][1] /\ x \in Things /\ x.do = "collect" /\ context = "collecting"
      /\ x.slot \in Nat \ {0}
      /\ Len(todo[t]) = 1 /\ 1 \in DOMAIN todo[t]
      /\ \A u \in Threads \ {t} : todo[u] = <<>>
      /\ \A u \in Threads : \A i \in DOMAIN todo[u] : u = t /\ i = 1
      /\ \A s \in Slots : s < x.slot /\ reftable[s] # Null => external[reftable[s]] = 0
  BY OnlyCollects
<1>3. y \in Things /\ y.do = "collect" /\ y.slot = x.slot + 1
  <2>1. y \in Things
    BY <1>2, ThingsTyped
  <2>2. y.do = "collect" /\ y.slot = x.slot + 1
    BY DEF Collect
  <2>3. QED
    BY <2>1, <2>2
<1>4. Continue(t, <<y>>)
  OBVIOUS
<1> HIDE DEF x, y
<1>5. <<y>> \in Seq(Things) /\ Len(<<y>>) = 1 /\ <<y>>[1] = y
  BY <1>3, CountsOfShort
<1>6. /\ todo' \in [Threads -> Seq(Things)]
      /\ After(todo[t], <<y>>, todo'[t]) /\ \A u \in Threads \ {t} : todo'[u] = todo[u]
  BY <1>1, <1>2, <1>4, <1>5, StepCounts
<1>7. \A W : Often(todo, W) \in Nat /\ Often(todo', W) = Often(todo, W) - In(x, W) + In(y, W)
  BY <1>1, <1>2, <1>3, <1>4, StepOne
<1>8. /\ \A p, k : Often(todo', Decrements(p, k)) = Often(todo, Decrements(p, k))
      /\ \A p \in Objects : Often(todo', IncrementsOf(p)) = Often(todo, IncrementsOf(p))
      /\ \A p \in Nodes : Often(todo', IncrementsBy(p)) = Often(todo, IncrementsBy(p))
      /\ \A p : Often(todo', TakeOuts(p)) = Often(todo, TakeOuts(p))
      /\ \A p : Often(todo', Frees(p)) = Often(todo, Frees(p))
      /\ \A p : Often(todo', Destructs(p)) = Often(todo, Destructs(p))
  <2>1. ASSUME NEW z \in Things, z.do = "collect"
        PROVE  /\ \A p, k : In(z, Decrements(p, k)) = 0
               /\ \A p \in Objects : In(z, IncrementsOf(p)) = 0
               /\ \A p \in Nodes : In(z, IncrementsBy(p)) = 0
               /\ \A p : In(z, TakeOuts(p)) = 0
               /\ \A p : In(z, Frees(p)) = 0
               /\ \A p : In(z, Destructs(p)) = 0
    BY <2>1, InOther
  <2>2. QED
    BY <1>2, <1>3, <1>7, <2>1
<1>9. todo'[t] = <<y>>
  <2> DEFINE r == todo'[t]
  <2>1. r \in Seq(Things) /\ Len(r) = 1 /\ r[1] = y
    BY <1>2, <1>5, <1>6 DEF After
  <2> HIDE DEF r
  <2>2. \A i \in 1 .. 1 : i = 1
    OBVIOUS
  <2>3. r = <<y>>
    BY <1>5, <2>1, <2>2, SeqEqual
  <2>4. QED
    BY <2>3 DEF r
<1>10. TypeOK'
  BY <1>1, <1>6 DEF TypeOK
<1>11. TableInv'
  BY <1>1, TableStays DEF IInv, table
<1>12. TodoInv'
  <2>1. \A i \in 1 .. Len(<<y>>) : i = 1 /\ <<y>>[i] = y
    BY <1>3, ShortPrecedes
  <2>2. MayPrecede(<<y>>, todo[t])
    BY <1>2, <1>3, <1>5, <2>1 DEF MayPrecede
  <2>3. Reason(handles', holds', phase', context', t, y)
    BY <1>2, <1>3 DEF Reason
  <2>4. QED
    BY <1>2, <1>3, <1>4, <1>5, <2>1, <2>2, <2>3, TodoContinued
<1>13. OnceInv'
  BY <1>8 DEF IInv, OnceInv
<1>14. HoldsInv'
  BY <1>8 DEF IInv, HoldsInv
<1>15. PartsInv'
  BY PartsKept DEF IInv
<1>16. HandlesInv'
  BY DEF IInv, HandlesInv
<1>17. CountInv'
  <2> SUFFICES ASSUME NEW p \in Objects PROVE CountOf(p)'
    BY DEF CountInv
  <2>1. QED
    BY <1>8, CountStays
<1>18. CollectInv'
  <2>1. \A u \in Threads, o \in Objects : handles[u][o] = 0
    BY <1>2 DEF IInv, CollectInv
  <2>2. \A u \in Threads \ {t} : todo'[u] = <<>>
    BY <1>2, <1>6
  <2>3. <<y>> # <<>> /\ DOMAIN <<y>> = {1} /\ DOMAIN <<>> = {}
    OBVIOUS
  <2>4. ASSUME NEW u \in Threads, NEW i, i \in DOMAIN todo'[u]
        PROVE  u = t /\ i = 1 /\ todo'[u][i] = y
    BY <1>5, <1>9, <2>2, <2>3, <2>4
  <2>5. ASSUME NEW s \in Slots, s < y.slot, reftable[s] # Null PROVE external[reftable[s]] = 0
    <3>1. s < x.slot \/ s = x.slot
      BY <1>2, <1>3, <2>5 DEF Slots
    <3>2. QED
      BY <1>2, <2>5, <3>1 DEF x
  <2>6. todo'[t] # <<>> /\ todo'[t][Len(todo'[t])] = y
    BY <1>5, <1>9, <2>3
  <2>7. /\ \E u \in Threads : todo'[u] # <<>> /\ todo'[u][Len(todo'[u])].do = "collect"
        /\ \A u, v \in Threads : todo'[u] # <<>> /\ todo'[v] # <<>> => u = v
    BY <1>3, <2>2, <2>6
  <2>8. QED
    BY <1>2, <1>3, <2>1, <2>4, <2>5, <2>7 DEF CollectInv
<1>19. QED
  BY <1>10, <1>11, <1>12, <1>13, <1>14, <1>15, <1>16, <1>17, <1>18 DEF IInv

(* The loop goes on: it releases the last external reference.              *)
LEMMA CollectReleasesKeeps ==
  ASSUME IInv, NEW t \in Threads, Doing(t, "collect"), First(t).slot \in Slots,
         NEW r, r = reftable[First(t).slot], r # Null, external[r] # 0,
         external' = [external EXCEPT ![r] = 1],
         Continue(t, <<Decrement(r, "external"), Collect(First(t).slot + 1)>>),
         UNCHANGED <<context, phase, internal, reftable, num_references, holds, handles>>
  PROVE  IInv'
<1> DEFINE x == First(t)
           y == Decrement(r, "external")
           z == Collect(x.slot + 1)
           m == <<y, z>>
<1>1. TypeOK
  BY DEF IInv
<1>2. /\ todo[t] # <<>> /\ x = todo[t][1] /\ x \in Things /\ x.do = "collect" /\ context = "collecting"
      /\ x.slot \in Nat \ {0}
      /\ Len(todo[t]) = 1 /\ 1 \in DOMAIN todo[t]
      /\ \A u \in Threads \ {t} : todo[u] = <<>>
      /\ \A u \in Threads : \A i \in DOMAIN todo[u] : u = t /\ i = 1
      /\ \A s \in Slots : s < x.slot /\ reftable[s] # Null => external[reftable[s]] = 0
  BY OnlyCollects
<1>3. r \in Objects /\ phase[r] = "live"
  <2>1. r \in Objects
    BY <1>1 DEF TypeOK
  <2>2. QED
    BY <1>1, <2>1, LiveIsInTable DEF IInv
<1>4. y \in Things /\ y.do = "decrement" /\ y.ref = r /\ y.kind = "external"
  <2>1. y \in Things
    BY <1>3, ThingsTyped DEF Kinds
  <2>2. y.do = "decrement" /\ y.ref = r /\ y.kind = "external"
    BY DEF Decrement
  <2>3. QED
    BY <2>1, <2>2
<1>5. z \in Things /\ z.do = "collect" /\ z.slot = x.slot + 1
  <2>1. z \in Things
    BY <1>2, ThingsTyped
  <2>2. z.do = "collect" /\ z.slot = x.slot + 1
    BY DEF Collect
  <2>3. QED
    BY <2>1, <2>2
<1>6. Continue(t, <<y, z>>)
  OBVIOUS
<1>7. /\ external \in [Objects -> Nat] /\ external' \in [Objects -> Nat] /\ external'[r] = 1
      /\ \A p \in Objects \ {r} : external'[p] = external[p]
  BY <1>1, <1>3 DEF TypeOK
<1> HIDE DEF x, y, z
<1>8. /\ todo' \in [Threads -> Seq(Things)]
      /\ \A W : Often(todo, W) \in Nat /\ Often(todo', W) = Often(todo, W) - In(x, W) + In(y, W) + In(z, W)
  BY <1>1, <1>2, <1>4, <1>5, <1>6, StepTwo
<1>9. m \in Seq(Things) /\ Len(m) = 2 /\ m[1] = y /\ m[2] = z
  BY <1>4, <1>5, CountsOfShort
<1>10. Continue(t, m)
  BY <1>6
<1> HIDE DEF m
<1>11. \A i \in 1 .. Len(m) : (i = 1 /\ m[i] = y) \/ (i = 2 /\ m[i] = z)
  <2>1. \A i \in 1 .. 2 : i = 1 \/ i = 2
    OBVIOUS
  <2>2. QED
    BY <1>9, <2>1
<1>12. /\ After(todo[t], m, todo'[t]) /\ \A u \in Threads \ {t} : todo'[u] = todo[u]
  BY <1>1, <1>2, <1>9, <1>10, StepCounts
<1>13. /\ \A p, k : Often(todo', Decrements(p, k)) =
            Often(todo, Decrements(p, k)) + IF p = r /\ k = "external" THEN 1 ELSE 0
       /\ \A p \in Objects : Often(todo', IncrementsOf(p)) = Often(todo, IncrementsOf(p))
       /\ \A p \in Nodes : Often(todo', IncrementsBy(p)) = Often(todo, IncrementsBy(p))
       /\ \A p : Often(todo', TakeOuts(p)) = Often(todo, TakeOuts(p))
       /\ \A p : Often(todo', Frees(p)) = Often(todo, Frees(p))
       /\ \A p : Often(todo', Destructs(p)) = Often(todo, Destructs(p))
  <2>1. ASSUME NEW w \in Things, w.do = "collect"
        PROVE  /\ \A p, k : In(w, Decrements(p, k)) = 0
               /\ \A p \in Objects : In(w, IncrementsOf(p)) = 0
               /\ \A p \in Nodes : In(w, IncrementsBy(p)) = 0
               /\ \A p : In(w, TakeOuts(p)) = 0
               /\ \A p : In(w, Frees(p)) = 0
               /\ \A p : In(w, Destructs(p)) = 0
    BY <2>1, InOther
  <2>2. /\ \A p, k : In(y, Decrements(p, k)) = IF p = r /\ k = "external" THEN 1 ELSE 0
        /\ \A p \in Objects : In(y, IncrementsOf(p)) = 0
        /\ \A p \in Nodes : In(y, IncrementsBy(p)) = 0
        /\ \A p : In(y, TakeOuts(p)) = 0
        /\ \A p : In(y, Frees(p)) = 0
        /\ \A p : In(y, Destructs(p)) = 0
    BY <1>4, InDecrement
  <2>3. QED
    BY <1>2, <1>5, <1>8, <2>1, <2>2
<1>14. TypeOK'
  BY <1>1, <1>7, <1>8 DEF TypeOK
<1>15. TableInv'
  BY <1>1, TableStays DEF IInv, table
<1>16. TodoInv'
  <2>1. MayPrecede(m, todo[t])
    BY <1>2, <1>4, <1>5, <1>9, <1>11 DEF MayPrecede
  <2>2. Reason(handles', holds', phase', context', t, y)
    BY <1>2, <1>3, <1>4 DEF Reason
  <2>3. Reason(handles', holds', phase', context', t, z)
    BY <1>2, <1>5 DEF Reason
  <2>4. QED
    BY <1>2, <1>4, <1>5, <1>9, <1>10, <1>11, <2>1, <2>2, <2>3, TodoContinued
<1>17. OnceInv'
  BY <1>13 DEF IInv, OnceInv
<1>18. HoldsInv'
  BY <1>13 DEF IInv, HoldsInv
<1>19. PartsInv'
  BY PartsKept DEF IInv
<1>20. HandlesInv'
  BY DEF IInv, HandlesInv
<1>21. CountInv'
  <2> SUFFICES ASSUME NEW p \in Objects PROVE CountOf(p)'
    BY DEF CountInv
  <2>1. CASE p # r
    <3>1. \A k \in Kinds : Often(todo', Decrements(p, k)) = Often(todo, Decrements(p, k))
      BY <1>8, <1>13, <2>1
    <3>2. QED
      BY <1>7, <1>13, <2>1, <3>1, CountStays
  <2>2. CASE p = r
    <3>1. /\ internal[p] + Often(todo, IncrementsOf(p))
               = Holders(holds, p, "internal") + Often(todo, Decrements(p, "internal"))
          /\ external[p] + internal[p] = 0 <=> Often(todo, TakeOuts(p)) > 0
          /\ external[p] \in Nat /\ internal[p] \in Nat
      BY <1>3, <2>2, Counts
    <3>2. Often(todo', Decrements(p, "internal")) = Often(todo, Decrements(p, "internal"))
      BY <1>8, <1>13
    <3>3. external'[p] + internal[p] = 0 <=> Often(todo', TakeOuts(p)) > 0
      <4>1. external[p] + internal[p] # 0 /\ external'[p] + internal[p] # 0
        BY <1>7, <2>2, <3>1
      <4>2. QED
        BY <1>13, <3>1, <4>1
    <3>4. QED
      BY <1>2, <1>3, <1>13, <2>2, <3>1, <3>2, <3>3 DEF CountOf
  <2>3. QED
    BY <2>1, <2>2
<1>22. CollectInv'
  <2> DEFINE q == todo'[t]
  <2>1. \A u \in Threads, o \in Objects : handles[u][o] = 0
    BY <1>2 DEF IInv, CollectInv
  <2>2. \A u \in Threads \ {t} : todo'[u] = <<>>
    BY <1>2, <1>12
  <2>3. Len(q) = 2 /\ DOMAIN q = 1 .. 2 /\ q[1] = y /\ q[2] = z /\ q # <<>>
    <3>1. 1 \in 1 .. 2 /\ 2 \in 1 .. 2
      OBVIOUS
    <3>2. Len(q) = 2 /\ DOMAIN q = 1 .. 2 /\ q[1] = y /\ q[2] = z
      BY <1>2, <1>9, <1>12, <3>1 DEF After
    <3> HIDE DEF q
    <3>3. q # <<>>
      <4> SUFFICES ASSUME q = <<>> PROVE FALSE
        OBVIOUS
      <4>1. Len(q) = 0
        OBVIOUS
      <4>2. QED
        BY <3>2, <4>1
    <3>4. QED
      BY <3>2, <3>3
  <2>4. DOMAIN <<>> = {} /\ \A i \in 1 .. 2 : i = 1 \/ i = 2
    OBVIOUS
  <2>5. ASSUME NEW u \in Threads, NEW i, i \in DOMAIN todo'[u]
        PROVE  u = t /\ ((i = 1 /\ todo'[u][i] = y) \/ (i = 2 /\ todo'[u][i] = z))
    <3>1. u = t
      BY <2>2, <2>4, <2>5
    <3>2. QED
      BY <2>3, <2>4, <2>5, <3>1
  <2>6. ASSUME NEW s \in Slots, s < z.slot, reftable[s] # Null, external'[reftable[s]] # 0
        PROVE  reftable[s] = r
    <3>1. reftable[s] \in Objects
      BY <1>1, <2>6 DEF TypeOK
    <3>2. s < x.slot \/ s = x.slot
      BY <1>2, <1>5, <2>6 DEF Slots
    <3>3. QED
      BY <1>2, <1>7, <2>6, <3>1, <3>2 DEF x
  <2>7. /\ \E u \in Threads : todo'[u] # <<>> /\ todo'[u][Len(todo'[u])].do = "collect"
        /\ \A u, v \in Threads : todo'[u] # <<>> /\ todo'[v] # <<>> => u = v
    BY <1>5, <2>2, <2>3
  <2>8. q[1] = y
    BY <2>3
  <2> HIDE DEF q
  <2>9. ASSUME NEW u \in Threads, NEW i, i \in DOMAIN todo'[u]
        PROVE  LET w == todo'[u][i] IN
               /\ w.do = "decrement" /\ w.kind = "external" /\ w.ref \notin Items =>
                    i = 1 /\ external'[w.ref] > 0
               /\ w.do = "collect" =>
                    \A s \in Slots : s < w.slot /\ reftable'[s] # Null /\ external'[reftable'[s]] # 0 =>
                      external'[reftable'[s]] = 1 /\ todo'[u][1] = Decrement(reftable'[s], "external")
    <3>1. CASE i = 1 /\ todo'[u][i] = y
      BY <1>4, <1>7, <3>1
    <3>2. CASE i = 2 /\ todo'[u][i] = z
      <4>1. u = t
        BY <2>5, <2>9
      <4>2. todo'[u][1] = y
        BY <2>8, <4>1 DEF q
      <4>3. y = Decrement(r, "external")
        BY DEF y
      <4>4. QED
        BY <1>5, <1>7, <2>6, <3>2, <4>2, <4>3
    <3>3. QED
      BY <2>5, <2>9, <3>1, <3>2
  <2>10. QED
    BY <1>2, <2>1, <2>7, <2>9 DEF CollectInv
<1>23. QED
  BY <1>14, <1>15, <1>16, <1>17, <1>18, <1>19, <1>20, <1>21, <1>22 DEF IInv

(* vxReleaseContext collects what is left.                                 *)
LEMMA CollectNextKeeps ==
  ASSUME IInv, NEW t \in Threads, CollectNext(t)
  PROVE  IInv'
<1> DEFINE s == First(t).slot
           r == reftable[s]
<1>1. Doing(t, "collect") /\ UNCHANGED <<phase, internal, reftable, num_references, holds, handles>>
  BY DEF CollectNext, table
<1>2. CASE s \notin Slots
  <2>1. context' = "gone" /\ Continue(t, <<>>) /\ UNCHANGED external
    BY <1>2 DEF CollectNext
  <2>2. QED
    BY <1>1, <1>2, <2>1, CollectEndsKeeps
<1>3. CASE s \in Slots /\ (r = Null \/ external[r] = 0)
  <2>1. context' = context /\ Continue(t, <<Collect(s + 1)>>) /\ UNCHANGED external
    BY <1>3 DEF CollectNext
  <2>2. QED
    BY <1>1, <1>3, <2>1, CollectPassesKeeps
<1>4. CASE s \in Slots /\ ~ (r = Null \/ external[r] = 0)
  <2>1. /\ context' = context /\ external' = [external EXCEPT ![r] = 1]
        /\ Continue(t, <<Decrement(r, "external"), Collect(s + 1)>>)
    BY <1>4 DEF CollectNext
  <2>2. QED
    BY <1>1, <1>4, <2>1, CollectReleasesKeeps
<1>5. QED
  BY <1>2, <1>3, <1>4

(* A list of references to release.                                        *)
ListOf(S, k) == [i \in DOMAIN SetToSeq(S) |-> Decrement(SetToSeq(S)[i], k)]

LEMMA DecrementsListed ==
  ASSUME NEW S \in SUBSET Objects, NEW k \in Kinds
  PROVE  /\ ListOf(S, k) \in Seq(Things)
         /\ \A i \in 1 .. Len(ListOf(S, k)) : \E p \in S : ListOf(S, k)[i] = Decrement(p, k)
         /\ \A p \in Objects, j \in Kinds :
              Count(ListOf(S, k), Decrements(p, j)) = IF p \in S /\ j = k THEN 1 ELSE 0
         /\ \A p \in Objects : Count(ListOf(S, k), IncrementsOf(p)) = 0
         /\ \A n \in Nodes : Count(ListOf(S, k), IncrementsBy(n)) = 0
         /\ \A p : Count(ListOf(S, k), TakeOuts(p)) = 0
         /\ \A p : Count(ListOf(S, k), Frees(p)) = 0
         /\ \A p : Count(ListOf(S, k), Destructs(p)) = 0
<1> DEFINE r == ListOf(S, k)
<1>1. /\ r \in Seq(Things)
      /\ \A i \in 1 .. Len(r) : \E p \in S : r[i] = Decrement(p, k)
      /\ \A p \in Objects : Count(r, Decrements(p, k)) = IF p \in S THEN 1 ELSE 0
      /\ \A W : (\A p \in S : Decrement(p, k) \notin W) => Count(r, W) = 0
  BY Listed DEF ListOf
<1> HIDE DEF r
<1>2. \A p \in S : \A W : In(Decrement(p, k), W) = 0 => Decrement(p, k) \notin W
  BY DEF In
<1>3. ASSUME NEW q \in S
      PROVE  /\ \A p, j : In(Decrement(q, k), Decrements(p, j)) = IF p = q /\ j = k THEN 1 ELSE 0
             /\ \A p \in Objects : In(Decrement(q, k), IncrementsOf(p)) = 0
             /\ \A n \in Nodes : In(Decrement(q, k), IncrementsBy(n)) = 0
             /\ \A p : In(Decrement(q, k), TakeOuts(p)) = 0
             /\ \A p : In(Decrement(q, k), Frees(p)) = 0
             /\ \A p : In(Decrement(q, k), Destructs(p)) = 0
  <2> DEFINE y == Decrement(q, k)
  <2>1. y \in Things
    BY ThingsTyped
  <2>2. y.do = "decrement" /\ y.ref = q /\ y.kind = k
    BY DEF Decrement
  <2> HIDE DEF y
  <2>3. QED
    BY <2>1, <2>2, InDecrement DEF y
<1>4. \A p \in Objects : Count(r, IncrementsOf(p)) = 0
  BY <1>1, <1>2, <1>3
<1>5. \A n \in Nodes : Count(r, IncrementsBy(n)) = 0
  BY <1>1, <1>2, <1>3
<1>6. \A p : Count(r, TakeOuts(p)) = 0 /\ Count(r, Frees(p)) = 0 /\ Count(r, Destructs(p)) = 0
  BY <1>1, <1>2, <1>3
<1>7. ASSUME NEW p \in Objects, NEW j \in Kinds
      PROVE  Count(r, Decrements(p, j)) = IF p \in S /\ j = k THEN 1 ELSE 0
  <2>1. CASE j = k
    BY <1>1, <2>1
  <2>2. CASE j # k
    <3>1. \A q \in S : In(Decrement(q, k), Decrements(p, j)) = 0
      BY <1>3, <2>2
    <3>2. Count(r, Decrements(p, j)) = 0
      BY <1>1, <1>2, <3>1
    <3>3. QED
      BY <2>2, <3>2
  <2>3. QED
    BY <2>1, <2>2
<1>8. QED
  BY <1>1, <1>4, <1>5, <1>6, <1>7 DEF r

(* What the destructor of an object does.                                  *)
Destructor(o) == Releases(o) \o <<Release(o)>>

LEMMA DestructorIs ==
  ASSUME TypeOK, NEW o \in Objects
  PROVE  LET m == Destructor(o) IN
         /\ m \in Seq(Things)
         /\ \A q : MayPrecede(m, q)
         /\ \A i \in 1 .. Len(m) :
              \/ m[i] = Release(o)
              \/ o \in Graphs /\ m[i] = DestructGraph(o)
              \/ o \notin Graphs /\ \E p \in HeldBy(o) : m[i] = Decrement(p, HeldKind(o))
         /\ \A p \in Objects, k \in Kinds : Count(m, Decrements(p, k)) =
              IF o \notin Graphs /\ p \in HeldBy(o) /\ k = HeldKind(o) THEN 1 ELSE 0
         /\ \A p \in Objects : Count(m, IncrementsOf(p)) = 0
         /\ \A n \in Nodes : Count(m, IncrementsBy(n)) = 0
         /\ \A p \in Objects : Count(m, TakeOuts(p)) = 0
         /\ \A p \in Objects : Count(m, Frees(p)) = IF p = o THEN 1 ELSE 0
         /\ \A p \in Objects : Count(m, Destructs(p)) = IF p = o /\ o \in Graphs THEN 1 ELSE 0
<1> DEFINE m == Destructor(o)
           z == Release(o)
<1>1. z \in Things /\ z.do = "free" /\ z.ref = o
  <2>1. z \in Things
    BY ThingsTyped
  <2>2. z.do = "free" /\ z.ref = o
    BY DEF Release
  <2>3. QED
    BY <2>1, <2>2
<1> HIDE DEF z
<1>2. /\ \A p, k : In(z, Decrements(p, k)) = 0
      /\ \A p \in Objects : In(z, IncrementsOf(p)) = 0
      /\ \A n \in Nodes : In(z, IncrementsBy(n)) = 0
      /\ \A p : In(z, TakeOuts(p)) = 0
      /\ \A p : In(z, Frees(p)) = IF p = o THEN 1 ELSE 0
      /\ \A p : In(z, Destructs(p)) = 0
  BY <1>1, InFree
<1>3. <<z>> \in Seq(Things) /\ Len(<<z>>) = 1 /\ <<z>>[1] = z /\ \A W : Count(<<z>>, W) = In(z, W)
  BY <1>1, CountsOfShort
<1>4. CASE o \in Graphs
  <2> DEFINE y == DestructGraph(o)
  <2>1. y \in Things /\ y.do = "graph" /\ y.ref = o
    <3>1. y \in Things
      BY <1>4, ThingsTyped
    <3>2. y.do = "graph" /\ y.ref = o
      BY DEF DestructGraph
    <3>3. QED
      BY <3>1, <3>2
  <2>2. m = <<y>> \o <<z>>
    BY <1>4 DEF Destructor, Releases, z
  <2> HIDE DEF y, m
  <2>10. <<y>> \in Seq(Things) /\ Len(<<y>>) = 1 /\ <<y>>[1] = y /\ \A W : Count(<<y>>, W) = In(y, W)
    BY <2>1, CountsOfShort
  <2>3. m \in Seq(Things) /\ Len(m) = 2 /\ m[1] = y /\ m[2] = z /\ \A W : Count(m, W) = In(y, W) + In(z, W)
    <3> DEFINE c == <<y>>
               d == <<z>>
    <3>1. /\ c \in Seq(Things) /\ Len(c) = 1 /\ c[1] = y /\ \A W : Count(c, W) = In(y, W)
          /\ d \in Seq(Things) /\ Len(d) = 1 /\ d[1] = z /\ \A W : Count(d, W) = In(z, W)
          /\ m = c \o d
      BY <1>3, <2>2, <2>10
    <3> HIDE DEF c, d
    <3>2. \A W : Count(c \o d, W) = Count(c, W) + Count(d, W)
      BY <3>1, CountOfConcat
    <3>3. m \in Seq(Things) /\ Len(m) = 2 /\ m[1] = y /\ m[2] = z
      <4>1. /\ c \in Seq(Things) /\ Len(c) = 1 /\ d \in Seq(Things) /\ Len(d) = 1
        BY <3>1
      <4>2. /\ c \o d \in Seq(Things) /\ Len(c \o d) = 2
            /\ \A i \in 1 .. 2 : (c \o d)[i] = IF i <= 1 THEN c[i] ELSE d[i - 1]
        BY <4>1, ConcatProperties
      <4>3. 1 \in 1 .. 2 /\ 2 \in 1 .. 2 /\ 2 - 1 = 1
        OBVIOUS
      <4>4. (c \o d)[1] = c[1] /\ (c \o d)[2] = d[1]
        BY <4>2, <4>3
      <4>5. QED
        BY <3>1, <4>2, <4>4
    <3>4. QED
      BY <3>1, <3>2, <3>3
  <2>4. /\ \A p, k : In(y, Decrements(p, k)) = 0
        /\ \A p \in Objects : In(y, IncrementsOf(p)) = 0
        /\ \A n \in Nodes : In(y, IncrementsBy(n)) = 0
        /\ \A p : In(y, TakeOuts(p)) = 0
        /\ \A p : In(y, Frees(p)) = 0
        /\ \A p : In(y, Destructs(p)) = IF p = o THEN 1 ELSE 0
    BY <2>1, InGraph
  <2>5. \A i \in 1 .. 2 : i = 1 \/ i = 2
    OBVIOUS
  <2>6. \A i \in 1 .. Len(m) : m[i] = z \/ m[i] = y
    BY <2>3, <2>5
  <2>7. ASSUME NEW q PROVE MayPrecede(m, q)
    <3>1. SUFFICES ASSUME NEW i \in 1 .. Len(m)
                   PROVE  /\ m[i].do = "take out" => i = 1
                          /\ m[i].do # "item"
                          /\ m[i].do = "node" => i < Len(m) /\ m[i + 1].do = "graph"
                          /\ m[i].do = "graph" =>
                               \/ i < Len(m) /\ m[i + 1] = Release(m[i].ref)
                               \/ i = Len(m) /\ Len(q) > 1 /\ q[2] = Release(m[i].ref)
                          /\ m[i].do = "collect" => i = Len(m) /\ Len(q) = 1
      BY DEF MayPrecede
    <3>2. CASE i = 1
      <4>1. m[i] = y /\ m[i + 1] = z /\ i < Len(m)
        BY <2>3, <3>2
      <4>2. QED
        BY <2>1, <4>1 DEF z
    <3>3. CASE i = 2
      <4>1. m[i] = z
        BY <2>3, <3>3
      <4>2. QED
        BY <1>1, <4>1
    <3>4. QED
      BY <2>3, <2>5, <3>2, <3>3
  <2>8. /\ \A p \in Objects, k \in Kinds : Count(m, Decrements(p, k)) = 0
        /\ \A p \in Objects : Count(m, IncrementsOf(p)) = 0
        /\ \A n \in Nodes : Count(m, IncrementsBy(n)) = 0
        /\ \A p \in Objects : Count(m, TakeOuts(p)) = 0
        /\ \A p \in Objects : Count(m, Frees(p)) = IF p = o THEN 1 ELSE 0
        /\ \A p \in Objects : Count(m, Destructs(p)) = IF p = o THEN 1 ELSE 0
    BY <1>2, <2>3, <2>4
  <2>9. QED
    BY <1>4, <2>3, <2>6, <2>7, <2>8 DEF m, y, z
<1>5. CASE o \notin Graphs
  <2> DEFINE S == HeldBy(o)
             k == HeldKind(o)
             l == ListOf(S, k)
  <2>1. S \in SUBSET Objects /\ k \in Kinds
    BY HeldKinds DEF HeldBy
  <2>2. m = l \o <<z>>
    BY <1>5 DEF Destructor, Releases, ListOf, z
  <2> HIDE DEF S, k, m
  <2>3. /\ l \in Seq(Things)
        /\ \A i \in 1 .. Len(l) : \E p \in S : l[i] = Decrement(p, k)
        /\ \A p \in Objects, j \in Kinds : Count(l, Decrements(p, j)) = IF p \in S /\ j = k THEN 1 ELSE 0
        /\ \A p \in Objects : Count(l, IncrementsOf(p)) = 0
        /\ \A n \in Nodes : Count(l, IncrementsBy(n)) = 0
        /\ \A p : Count(l, TakeOuts(p)) = 0
        /\ \A p : Count(l, Frees(p)) = 0
        /\ \A p : Count(l, Destructs(p)) = 0
    BY <2>1, DecrementsListed
  <2> HIDE DEF l
  <2>4. \A W : Count(m, W) = Count(l, W) + In(z, W)
    <3> TAKE W
    <3> DEFINE r == <<z>>
    <3>1. r \in Seq(Things) /\ Count(r, W) = In(z, W) /\ m = l \o r
      BY <1>3, <2>2
    <3> HIDE DEF r
    <3>2. Count(l \o r, W) = Count(l, W) + Count(r, W)
      BY <2>3, <3>1, CountOfConcat
    <3>3. QED
      BY <3>1, <3>2
  <2>5. /\ m \in Seq(Things) /\ Len(m) = Len(l) + 1 /\ Len(l) \in Nat
        /\ \A i \in 1 .. Len(l) : m[i] = l[i]
        /\ m[Len(l) + 1] = z
    BY <1>3, <2>2, <2>3
  <2>6. ASSUME NEW i \in 1 .. Len(m)
        PROVE  m[i] = z \/ \E p \in S : m[i] = Decrement(p, k)
    <3>1. i \in 1 .. Len(l) \/ i = Len(l) + 1
      BY <2>5, <2>6
    <3>2. QED
      BY <2>3, <2>5, <3>1
  <2>7. \A p \in S : Decrement(p, k).do = "decrement"
    BY DEF Decrement
  <2>8. \A q : MayPrecede(m, q)
    BY <1>1, <2>6, <2>7 DEF MayPrecede
  <2>9. /\ \A p \in Objects, j \in Kinds : Count(m, Decrements(p, j)) = IF p \in S /\ j = k THEN 1 ELSE 0
        /\ \A p \in Objects : Count(m, IncrementsOf(p)) = 0
        /\ \A n \in Nodes : Count(m, IncrementsBy(n)) = 0
        /\ \A p \in Objects : Count(m, TakeOuts(p)) = 0
        /\ \A p \in Objects : Count(m, Frees(p)) = IF p = o THEN 1 ELSE 0
        /\ \A p \in Objects : Count(m, Destructs(p)) = 0
    BY <1>2, <2>3, <2>4
  <2>10. QED
    BY <1>5, <2>5, <2>6, <2>8, <2>9 DEF m, k, S, z
<1>6. QED
  BY <1>4, <1>5

(* An object that is taken out of the table is not used any more.          *)
Removes(t, o) == Doing(t, "take out") /\ First(t).ref = o

LEMMA RemoveBegins ==
  ASSUME TypeOK, NEW t \in Threads, NEW o, Removes(t, o)
  PROVE  /\ todo[t] # <<>> /\ todo[t][1] \in Things /\ todo[t][1].do = "take out" /\ todo[t][1].ref = o
         /\ 1 \in DOMAIN todo[t] /\ o \in Objects /\ todo[t][1] \in TakeOuts(o)
<1>1. Doing(t, "take out") /\ First(t).ref = o
  BY DEF Removes
<1> DEFINE x == First(t)
<1>2. /\ todo[t] # <<>> /\ x = todo[t][1] /\ x \in Things /\ x.do = "take out" /\ 1 \in DOMAIN todo[t]
  BY <1>1, StepBegins
<1>3. x.ref = o
  BY <1>1
<1> HIDE DEF x
<1>4. o \in Objects /\ x = TakeOut(o)
  BY <1>2, <1>3, ThingsOf
<1>5. QED
  BY <1>2, <1>3, <1>4 DEF TakeOuts

LEMMA LastIsUnused ==
  ASSUME IInv, NEW t \in Threads, NEW o, Removes(t, o), phase[o] = "live"
  PROVE  /\ o \in Objects /\ context # "gone"
         /\ external[o] = 0 /\ internal[o] = 0
         /\ \A u \in Threads : handles[u][o] = 0
         /\ \A p \in Objects : <<p, o>> \in holds => context = "collecting" /\ p \in Arrays
         /\ \A u \in Threads : \A i \in DOMAIN todo[u] :
              /\ todo[u][i].do = "decrement" /\ todo[u][i].ref = o => context = "collecting" /\ o \in Items
              /\ todo[u][i].do = "take out" /\ todo[u][i].ref = o => u = t /\ i = 1
         /\ Often(todo, Frees(o)) = 0
<1>1. TypeOK /\ todo \in [Threads -> Seq(Things)]
  BY DEF IInv, TypeOK
<1>2. /\ todo[t] # <<>> /\ 1 \in DOMAIN todo[t] /\ o \in Objects /\ todo[t][1] \in TakeOuts(o)
  BY <1>1, RemoveBegins
<1>3. Often(todo, TakeOuts(o)) > 0
  BY <1>1, <1>2, Entries
<1>4. /\ external[o] \in Nat /\ internal[o] \in Nat
      /\ Hands(handles, o) \in Nat
      /\ Holders(holds, o, "external") \in Nat /\ Holders(holds, o, "internal") \in Nat
      /\ Often(todo, Decrements(o, "external")) \in Nat /\ Often(todo, Decrements(o, "internal")) \in Nat
      /\ Often(todo, IncrementsOf(o)) \in Nat /\ Often(todo, Frees(o)) \in Nat
      /\ context = "live" =>
           external[o] = Hands(handles, o) + Holders(holds, o, "external")
                           + Often(todo, Decrements(o, "external"))
      /\ internal[o] + Often(todo, IncrementsOf(o))
           = Holders(holds, o, "internal") + Often(todo, Decrements(o, "internal"))
      /\ external[o] + internal[o] = 0
  BY <1>2, <1>3, Counts
<1>5. external[o] = 0 /\ internal[o] = 0
  BY <1>4
<1>6. \A u \in Threads : handles[u][o] = 0
  <2>1. ASSUME NEW u \in Threads PROVE ~ (handles[u][o] > 0)
    BY <1>2, <1>5, HasCounted
  <2>2. \A u \in Threads : handles[u][o] \in Nat
    BY <1>1, <1>2, TypesAre
  <2>3. QED
    BY <2>1, <2>2
<1>7. Often(todo, IncrementsOf(o)) = 0
  <2>1. ~ (Often(todo, IncrementsOf(o)) > 0)
    BY <1>2, <1>6, IncrementsAreHeld
  <2>2. QED
    BY <1>4, <2>1
<1>8. Holders(holds, o, "internal") = 0 /\ Often(todo, Decrements(o, "internal")) = 0
  BY <1>4, <1>5, <1>7
<1>9. context = "live" =>
        Holders(holds, o, "external") = 0 /\ Often(todo, Decrements(o, "external")) = 0
  BY <1>4, <1>5
<1>10. context # "gone"
  BY <1>2 DEF IInv, CollectInv
<1>11. ASSUME NEW p \in Objects, <<p, o>> \in holds
       PROVE  context = "collecting" /\ p \in Arrays
  <2>1. \A k : HeldKind(p) = k => Holders(holds, o, k) > 0
    BY <1>11, HoldersAre
  <2>2. p \in Arrays
    BY <1>8, <2>1, HeldKinds
  <2>3. context # "live"
    BY <1>9, <2>1, <2>2, HeldKinds
  <2>4. QED
    BY <1>1, <1>10, <2>2, <2>3 DEF TypeOK
<1>12. ASSUME NEW u \in Threads, NEW i, i \in DOMAIN todo[u],
              todo[u][i].do = "decrement", todo[u][i].ref = o
       PROVE  context = "collecting" /\ o \in Items
  <2> DEFINE x == todo[u][i]
  <2>1. x \in Things
    BY <1>1, <1>12, Entries
  <2>2. x.kind \in Kinds /\ x \in Decrements(o, x.kind)
    BY <1>12, <2>1, ThingsOf DEF Decrements
  <2>3. Often(todo, Decrements(o, x.kind)) > 0
    BY <1>1, <1>12, <2>2, Entries
  <2>4. x.kind = "external"
    BY <1>8, <2>2, <2>3 DEF Kinds
  <2>5. context # "live"
    BY <1>9, <2>3, <2>4
  <2>6. context = "collecting"
    BY <1>1, <1>10, <2>5 DEF TypeOK
  <2>7. o \notin Items => external[o] > 0
    BY <1>12, <2>4, <2>6 DEF IInv, CollectInv
  <2>8. QED
    BY <1>5, <2>6, <2>7
<1>13. ASSUME NEW u \in Threads, NEW i, i \in DOMAIN todo[u],
              todo[u][i].do = "take out", todo[u][i].ref = o
       PROVE  u = t /\ i = 1
  <2>1. todo[u][i] \in Things
    BY <1>1, <1>13, Entries
  <2>2. todo[u][i] \in TakeOuts(o)
    BY <1>13, <2>1, ThingsOf DEF TakeOuts
  <2>3. Often(todo, TakeOuts(o)) <= 1
    BY <1>2 DEF IInv, OnceInv
  <2> DEFINE W == TakeOuts(o)
  <2>4. \A v, w \in Threads : \A j \in DOMAIN todo[v], k \in DOMAIN todo[w] :
          todo[v][j] \in W /\ todo[w][k] \in W => v = w /\ j = k
    BY <1>1, <2>3, OftenIs
  <2>5. todo[u][i] \in W /\ todo[t][1] \in W /\ 1 \in DOMAIN todo[t]
    BY <1>2, <2>2
  <2> HIDE DEF W
  <2>6. QED
    BY <1>13, <2>4, <2>5
<1>14. Often(todo, Frees(o)) = 0
  <2>1. ASSUME NEW u \in Threads, NEW i, i \in DOMAIN todo[u]
        PROVE  todo[u][i] \notin Frees(o)
    <3>1. Reason(handles, holds, phase, context, u, todo[u][i])
      BY <2>1 DEF IInv, TodoInv
    <3>2. ASSUME todo[u][i] \in Frees(o) PROVE FALSE
      <4>1. todo[u][i].do = "free" /\ todo[u][i].ref = o
        BY <3>2 DEF Frees, Release
      <4>2. QED
        BY <3>1, <4>1 DEF Reason
    <3>3. QED
      BY <3>2
  <2>2. QED
    BY <1>1, <2>1, NeverDone
<1>15. QED
  BY <1>2, <1>5, <1>6, <1>10, <1>11, <1>12, <1>13, <1>14

(* An object that is not in the table is not destroyed again.              *)
LEMMA NotInTableKeeps ==
  ASSUME IInv, NEW t \in Threads, NEW o, Removes(t, o), phase[o] # "live",
         Continue(t, <<>>),
         UNCHANGED <<context, phase, external, internal, reftable, num_references, holds, handles>>
  PROVE  IInv'
<1> DEFINE x == todo[t][1]
<1>1. TypeOK
  BY DEF IInv
<1>2. /\ todo[t] # <<>> /\ x \in Things /\ x.do = "take out" /\ x.ref = o /\ 1 \in DOMAIN todo[t]
      /\ o \in Objects
  BY <1>1, RemoveBegins
<1>3. phase[o] # "live"
  OBVIOUS
<1>4. /\ todo' \in [Threads -> Seq(Things)]
      /\ \A W : Often(todo, W) \in Nat /\ Often(todo', W) \in Nat /\ Often(todo', W) = Often(todo, W) - In(x, W)
  BY <1>1, <1>2, StepNone
<1> HIDE DEF x
<1>5. /\ \A p, k : Often(todo', Decrements(p, k)) = Often(todo, Decrements(p, k))
      /\ \A p \in Objects : Often(todo', IncrementsOf(p)) = Often(todo, IncrementsOf(p))
      /\ \A n \in Nodes : Often(todo', IncrementsBy(n)) = Often(todo, IncrementsBy(n))
      /\ \A p : Often(todo', TakeOuts(p)) = Often(todo, TakeOuts(p)) - IF p = o THEN 1 ELSE 0
      /\ \A p : Often(todo', Frees(p)) = Often(todo, Frees(p))
      /\ \A p : Often(todo', Destructs(p)) = Often(todo, Destructs(p))
  <2>1. /\ \A p, k : In(x, Decrements(p, k)) = 0
        /\ \A p \in Objects : In(x, IncrementsOf(p)) = 0
        /\ \A n \in Nodes : In(x, IncrementsBy(n)) = 0
        /\ \A p : In(x, TakeOuts(p)) = IF p = o THEN 1 ELSE 0
        /\ \A p : In(x, Frees(p)) = 0
        /\ \A p : In(x, Destructs(p)) = 0
    BY <1>2, InTakeOut
  <2>2. QED
    BY <1>4, <2>1
<1>6. TypeOK'
  BY <1>1, <1>4 DEF TypeOK
<1>7. TableInv'
  BY <1>1, TableStays DEF IInv, table
<1>8. <<>> \in Seq(Things) /\ MayPrecede(<<>>, todo[t]) /\ \A i \in 1 .. Len(<<>>) : FALSE
  BY CountsOfShort, ShortPrecedes
<1>9. TodoInv'
  <2>1. \A u \in Threads : \A i \in DOMAIN todo[u] :
          todo[u][i].do = "node" => <<todo[u][i + 1].ref, todo[u][i].ref>> \in holds'
    BY DEF IInv, TodoInv
  <2>2. QED
    BY <1>2, <1>8, <2>1, TodoContinued
<1>10. OnceInv'
  <2>1. \A p \in Objects : Often(todo', TakeOuts(p)) <= 1
    <3> TAKE p \in Objects
    <3>1. Often(todo, TakeOuts(p)) <= 1 /\ Often(todo, TakeOuts(p)) \in Nat
      BY <1>4 DEF IInv, OnceInv
    <3>2. Often(todo', TakeOuts(p)) = Often(todo, TakeOuts(p)) - IF p = o THEN 1 ELSE 0
      BY <1>5
    <3>3. QED
      BY <3>1, <3>2
  <2>2. QED
    BY <1>5, <2>1 DEF IInv, OnceInv
<1>11. HoldsInv'
  BY <1>5 DEF IInv, HoldsInv
<1>12. PartsInv'
  BY PartsKept DEF IInv
<1>13. HandlesInv'
  BY DEF IInv, HandlesInv
<1>14. CountInv'
  <2> SUFFICES ASSUME NEW p \in Objects PROVE CountOf(p)'
    BY DEF CountInv
  <2>1. CASE p = o
    <3>1. phase[p] = "none" => internal[p] = 0
      BY Counts
    <3>2. phase[p] = "dying" => Often(todo, Frees(p)) > 0
      BY Counts
    <3>3. QED
      BY <1>3, <1>5, <2>1, <3>1, <3>2 DEF CountOf
  <2>2. CASE p # o
    <3>1. Often(todo', TakeOuts(p)) = Often(todo, TakeOuts(p))
      BY <1>4, <1>5, <2>2
    <3>2. QED
      BY <1>5, <3>1, CountStays
  <2>3. QED
    BY <2>1, <2>2
<1>15. CollectInv'
  <2>1. x.do # "collect" /\ \A p : x # Decrement(p, "external")
    BY <1>2, NoDecrement
  <2>2. QED
    BY <1>2, <1>8, <2>1, CollectContinued DEF x
<1>16. QED
  BY <1>6, <1>7, <1>9, <1>10, <1>11, <1>12, <1>13, <1>14, <1>15 DEF IInv

(* The counts of an object that loses references another one releases.     *)
LEMMA CountMoves ==
  ASSUME IInv, NEW p \in Objects,
         context' = context, phase'[p] = phase[p],
         external'[p] = external[p], internal'[p] = internal[p],
         Hands(handles', p) = Hands(handles, p),
         \A k \in Kinds : /\ Holders(holds', p, k) \in Nat /\ Often(todo', Decrements(p, k)) \in Nat
                          /\ Holders(holds', p, k) + Often(todo', Decrements(p, k))
                               = Holders(holds, p, k) + Often(todo, Decrements(p, k)),
         Often(todo', IncrementsOf(p)) = Often(todo, IncrementsOf(p)),
         Often(todo', TakeOuts(p)) = Often(todo, TakeOuts(p)),
         Often(todo', Frees(p)) = Often(todo, Frees(p))
  PROVE  CountOf(p)'
<1> DEFINE a == Holders(holds', p, "external")
           b == Often(todo', Decrements(p, "external"))
           c == Holders(holds', p, "internal")
           d == Often(todo', Decrements(p, "internal"))
           e == Holders(holds, p, "external")
           f == Often(todo, Decrements(p, "external"))
           g == Holders(holds, p, "internal")
           h == Often(todo, Decrements(p, "internal"))
           m == Hands(handles, p)
<1>1. a \in Nat /\ b \in Nat /\ c \in Nat /\ d \in Nat /\ a + b = e + f /\ c + d = g + h
  BY DEF Kinds
<1>2. /\ e \in Nat /\ f \in Nat /\ g \in Nat /\ h \in Nat /\ m \in Nat
      /\ phase[p] = "none" => internal[p] = 0
      /\ phase[p] = "live" =>
           /\ context = "live" => external[p] = m + e + f
           /\ internal[p] + Often(todo, IncrementsOf(p)) = g + h
           /\ external[p] + internal[p] = 0 <=> Often(todo, TakeOuts(p)) > 0
      /\ phase[p] = "dying" => Often(todo, Frees(p)) > 0
  BY Counts
<1> HIDE DEF a, b, c, d, e, f, g, h, m
<1>3. m + e + f = m + a + b
  BY <1>1, <1>2
<1>4. /\ phase[p] = "none" => internal[p] = 0
      /\ phase[p] = "live" =>
           /\ context = "live" => external[p] = m + a + b
           /\ internal[p] + Often(todo, IncrementsOf(p)) = c + d
           /\ external[p] + internal[p] = 0 <=> Often(todo, TakeOuts(p)) > 0
      /\ phase[p] = "dying" => Often(todo, Frees(p)) > 0
  BY <1>1, <1>2, <1>3
<1>5. QED
  BY <1>4 DEF CountOf, a, b, c, d, m

(* A destructor begins.                                                    *)
LetGo(o) == holds' = IF o \in Graphs THEN holds ELSE {h \in holds : h[1] # o}

SameBut(r, s, a, o) == \A p \in Objects \ {a} : <<p, o>> \in s <=> <<p, o>> \in r

LEMMA HoldersOfChanged ==
  ASSUME NEW r, NEW s, NEW o, NEW k, NEW a \in Objects, SameBut(r, s, a, o)
  PROVE  /\ Holders(r, o, k) \in Nat /\ Holders(s, o, k) \in Nat
         /\ Holders(s, o, k) = Holders(r, o, k) - Refers(r, a, o, k) + Refers(s, a, o, k)
<1>1. \A p \in Objects \ {a} : <<p, o>> \in s <=> <<p, o>> \in r
  BY DEF SameBut
<1>2. Holders(r, o, k) \in Nat /\ Holders(s, o, k) \in Nat
  BY HoldersAre
<1>3. QED
  BY <1>1, <1>2, HoldersChange

LEMMA HoldersLose ==
  ASSUME TypeOK, NEW o \in Objects, LetGo(o), NEW p \in Objects, NEW k \in Kinds
  PROVE  /\ Holders(holds', p, k) \in Nat
         /\ Holders(holds, p, k) = Holders(holds', p, k)
              + IF o \notin Graphs /\ p \in HeldBy(o) /\ k = HeldKind(o) THEN 1 ELSE 0
<1>1. \A a, b \in Objects : <<a, b>> \in holds' <=> <<a, b>> \in holds /\ (a = o => o \in Graphs)
  BY DEF TypeOK, LetGo
<1>2. SameBut(holds, holds', o, p)
  BY <1>1 DEF SameBut
<1>3. /\ Holders(holds, p, k) \in Nat
      /\ Holders(holds', p, k) = Holders(holds, p, k) - Refers(holds, o, p, k) + Refers(holds', o, p, k)
  BY <1>2, HoldersOfChanged
<1>4. Holders(holds', p, k) \in Nat
  BY HoldersAre
<1> DEFINE d == IF o \notin Graphs /\ p \in HeldBy(o) /\ k = HeldKind(o) THEN 1 ELSE 0
<1>5. Refers(holds, o, p, k) - Refers(holds', o, p, k) = d
  <2>1. /\ p \in HeldBy(o) <=> <<o, p>> \in holds
        /\ <<o, p>> \in holds' <=> <<o, p>> \in holds /\ o \in Graphs
    BY <1>1 DEF HeldBy
  <2>2. QED
    BY <2>1 DEF Refers
<1>6. Refers(holds, o, p, k) \in Nat /\ Refers(holds', o, p, k) \in Nat /\ d \in Nat
  BY DEF Refers
<1> HIDE DEF d
<1>7. Holders(holds, p, k) = Holders(holds', p, k) + d
  BY <1>3, <1>4, <1>5, <1>6
<1>8. QED
  BY <1>4, <1>7 DEF d

LEMMA DestructorBegins ==
  ASSUME IInv, NEW t \in Threads, NEW o, Removes(t, o), phase[o] = "live",
         reftable' = [s \in Slots |-> IF s \in Entry(o) THEN Null ELSE reftable[s]],
         num_references' = num_references - 1,
         phase' = [phase EXCEPT ![o] = "dying"],
         LetGo(o), Continue(t, Destructor(o)),
         UNCHANGED <<context, external, internal, handles>>
  PROVE  IInv'
<1> DEFINE x == todo[t][1]
           m == Destructor(o)
<1>1. TypeOK /\ TableInv
  BY DEF IInv
<1>2. /\ todo[t] # <<>> /\ x \in Things /\ x.do = "take out" /\ x.ref = o /\ 1 \in DOMAIN todo[t]
      /\ o \in Objects
  BY <1>1, RemoveBegins
<1>3. /\ context # "gone"
      /\ external[o] = 0 /\ internal[o] = 0
      /\ \A u \in Threads : handles[u][o] = 0
      /\ \A p \in Objects : <<p, o>> \in holds => context = "collecting" /\ p \in Arrays
      /\ \A u \in Threads : \A i \in DOMAIN todo[u] :
           /\ todo[u][i].do = "decrement" /\ todo[u][i].ref = o => context = "collecting" /\ o \in Items
           /\ todo[u][i].do = "take out" /\ todo[u][i].ref = o => u = t /\ i = 1
      /\ Often(todo, Frees(o)) = 0
  BY LastIsUnused
<1>4. /\ m \in Seq(Things)
      /\ \A q : MayPrecede(m, q)
      /\ \A i \in 1 .. Len(m) :
           \/ m[i] = Release(o)
           \/ o \in Graphs /\ m[i] = DestructGraph(o)
           \/ o \notin Graphs /\ \E p \in HeldBy(o) : m[i] = Decrement(p, HeldKind(o))
      /\ \A p \in Objects, k \in Kinds : Count(m, Decrements(p, k)) =
           IF o \notin Graphs /\ p \in HeldBy(o) /\ k = HeldKind(o) THEN 1 ELSE 0
      /\ \A p \in Objects : Count(m, IncrementsOf(p)) = 0
      /\ \A n \in Nodes : Count(m, IncrementsBy(n)) = 0
      /\ \A p \in Objects : Count(m, TakeOuts(p)) = 0
      /\ \A p \in Objects : Count(m, Frees(p)) = IF p = o THEN 1 ELSE 0
      /\ \A p \in Objects : Count(m, Destructs(p)) = IF p = o /\ o \in Graphs THEN 1 ELSE 0
  BY <1>1, <1>2, DestructorIs
<1>5. Continue(t, m)
  OBVIOUS
<1> HIDE DEF x, m
<1>6. /\ todo' \in [Threads -> Seq(Things)]
      /\ \A W : Often(todo, W) \in Nat /\ Often(todo', W) = Often(todo, W) - In(x, W) + Count(m, W)
  <2>1. /\ todo' \in [Threads -> Seq(Things)]
        /\ \A W : Often(todo, W) \in Nat
        /\ \A W : Often(todo', W) = Often(todo, W) - In(todo[t][1], W) + Count(m, W)
    BY <1>1, <1>2, <1>4, <1>5, StepCounts
  <2>2. QED
    BY <2>1 DEF x
<1>7. /\ \A p, k : In(x, Decrements(p, k)) = 0
      /\ \A p \in Objects : In(x, IncrementsOf(p)) = 0
      /\ \A n \in Nodes : In(x, IncrementsBy(n)) = 0
      /\ \A p : In(x, TakeOuts(p)) = IF p = o THEN 1 ELSE 0
      /\ \A p : In(x, Frees(p)) = 0
      /\ \A p : In(x, Destructs(p)) = 0
  BY <1>2, InTakeOut
<1>8. /\ \A p \in Objects, k \in Kinds : Often(todo', Decrements(p, k)) = Often(todo, Decrements(p, k))
           + IF o \notin Graphs /\ p \in HeldBy(o) /\ k = HeldKind(o) THEN 1 ELSE 0
      /\ \A p \in Objects : Often(todo', IncrementsOf(p)) = Often(todo, IncrementsOf(p))
      /\ \A n \in Nodes : Often(todo', IncrementsBy(n)) = Often(todo, IncrementsBy(n))
      /\ \A p \in Objects : Often(todo', TakeOuts(p)) = Often(todo, TakeOuts(p)) - IF p = o THEN 1 ELSE 0
      /\ \A p \in Objects : Often(todo', Frees(p)) = Often(todo, Frees(p)) + IF p = o THEN 1 ELSE 0
      /\ \A p \in Objects : Often(todo', Destructs(p)) =
           Often(todo, Destructs(p)) + IF p = o /\ o \in Graphs THEN 1 ELSE 0
  <2>1. \A p \in Objects, k \in Kinds : Often(todo', Decrements(p, k)) = Often(todo, Decrements(p, k))
           + IF o \notin Graphs /\ p \in HeldBy(o) /\ k = HeldKind(o) THEN 1 ELSE 0
    BY <1>4, <1>6, <1>7
  <2>2. /\ \A p \in Objects : Often(todo', IncrementsOf(p)) = Often(todo, IncrementsOf(p))
        /\ \A n \in Nodes : Often(todo', IncrementsBy(n)) = Often(todo, IncrementsBy(n))
    BY <1>4, <1>6, <1>7
  <2>3. /\ \A p \in Objects : Often(todo', TakeOuts(p)) = Often(todo, TakeOuts(p)) - IF p = o THEN 1 ELSE 0
        /\ \A p \in Objects : Often(todo', Frees(p)) = Often(todo, Frees(p)) + IF p = o THEN 1 ELSE 0
        /\ \A p \in Objects : Often(todo', Destructs(p)) =
             Often(todo, Destructs(p)) + IF p = o /\ o \in Graphs THEN 1 ELSE 0
    BY <1>4, <1>6, <1>7
  <2>4. QED
    BY <2>1, <2>2, <2>3
<1>9. /\ phase' \in [Objects -> {"none", "live", "dying", "freed"}]
      /\ phase'[o] = "dying" /\ \A p \in Objects \ {o} : phase'[p] = phase[p]
  BY <1>1, <1>2 DEF TypeOK
<1>10. /\ holds \subseteq Objects \X Objects /\ holds' \subseteq holds
       /\ \A a, b \in Objects : <<a, b>> \in holds' <=> <<a, b>> \in holds /\ (a = o => o \in Graphs)
  BY <1>1 DEF TypeOK, LetGo
<1>11. /\ reftable' \in [Slots -> Objects \cup {Null}] /\ num_references' \in 0 .. NumSlots
       /\ TableInv'
  BY <1>1, <1>2, TableTakes
<1>12. TypeOK'
  BY <1>1, <1>6, <1>9, <1>10, <1>11 DEF TypeOK
<1>13. ASSUME NEW p \in HeldBy(o)
       PROVE  /\ p \in Objects /\ <<o, p>> \in holds
              /\ p # o
              /\ phase'[p] # "live" => context = "collecting" /\ p \in Items
              /\ p \in Items => HeldKind(o) = "external"
              /\ HeldKind(o) = "external" => p \in Items
  <2>1. p \in Objects /\ <<o, p>> \in holds
    BY <1>13 DEF HeldBy
  <2>2. /\ \/ o \in Graphs /\ p \in Nodes
           \/ o \in Nodes /\ p \in Parameters
           \/ o \in Regions /\ p \in Images \cup Regions
           \/ o \in Arrays /\ p \in Items
        /\ phase[p] # "live" => context = "collecting" /\ o \in Arrays
    BY <1>2, <2>1 DEF IInv, HoldsInv
  <2>3. p # o
    BY <1>3, <2>1, <2>2, OneType
  <2>4. QED
    BY <1>9, <2>1, <2>2, <2>3, OneType, HeldKinds
<1>14. TodoInv'
  <2>1. ASSUME NEW i \in 1 .. Len(m)
        PROVE  Reason(handles', holds', phase', context', t, m[i]) /\ m[i].do # "node"
    <3>1. CASE m[i] = Release(o)
      <4>1. m[i].do = "free" /\ m[i].ref = o
        BY <3>1 DEF Release
      <4>2. QED
        BY <1>9, <4>1 DEF Reason
    <3>2. CASE m[i] = DestructGraph(o)
      <4>1. m[i].do = "graph" /\ m[i].ref = o
        BY <3>2 DEF DestructGraph
      <4>2. QED
        BY <1>9, <4>1 DEF Reason
    <3>3. ASSUME NEW p \in HeldBy(o), m[i] = Decrement(p, HeldKind(o))
          PROVE  Reason(handles', holds', phase', context', t, m[i]) /\ m[i].do # "node"
      <4>1. m[i].do = "decrement" /\ m[i].ref = p /\ m[i].kind = HeldKind(o)
        BY <3>3 DEF Decrement
      <4>2. /\ phase'[p] # "live" => context = "collecting" /\ p \in Items
            /\ p \in Items => HeldKind(o) = "external"
        BY <1>13, <3>3
      <4>3. context' = context
        OBVIOUS
      <4>4. QED
        BY <4>1, <4>2, <4>3 DEF Reason
    <3>4. QED
      BY <1>4, <3>1, <3>2, <3>3
  <2>2. ASSUME NEW u \in Threads, NEW i, i \in DOMAIN todo[u], u = t => i # 1
        PROVE  /\ Reason(handles, holds, phase, context, u, todo[u][i])
                    => Reason(handles', holds', phase', context', u, todo[u][i])
               /\ todo[u][i].do = "node" => <<todo[u][i + 1].ref, todo[u][i].ref>> \in holds'
    <3> DEFINE y == todo[u][i]
    <3>1. y \in Things
      BY <1>1, <2>2, Entries
    <3>2. Reason(handles, holds, phase, context, u, y)
      BY <2>2 DEF IInv, TodoInv
    <3>3. y.do = "node" => <<todo[u][i + 1].ref, y.ref>> \in holds'
      <4>1. y.do = "node" => <<todo[u][i + 1].ref, y.ref>> \in holds
        BY <2>2 DEF IInv, TodoInv
      <4>2. ASSUME y.do = "node" PROVE y.ref \in Nodes
        BY <3>1, <4>2, ThingsOf
      <4>3. ASSUME y.do = "node", NEW a, NEW b, <<a, b>> \in holds, b \in Nodes PROVE a \in Graphs
        <5>1. a \in Objects /\ b \in Objects
          BY <1>10, <4>3
        <5>2. QED
          BY <4>3, <5>1, OneType DEF IInv, HoldsInv
      <4>4. QED
        BY <1>10, <4>1, <4>2, <4>3
    <3>4. /\ y.do = "decrement" /\ y.ref = o => context = "collecting" /\ o \in Items
          /\ ~ (y.do = "take out" /\ y.ref = o)
      BY <1>3, <2>2
    <3> HIDE DEF y
    <3>5. y.do = "increment" =>
            /\ handles[u][y.ref] > 0 /\ handles[u][y.by] > 0 /\ <<y.by, y.ref>> \in holds'
            /\ \A g \in Graphs : <<g, y.by>> \in holds' => handles[u][g] > 0
      <4>1. ASSUME y.do = "increment" PROVE /\ y.by # o /\ y.by \in Objects /\ y.ref \in Objects
                                            /\ y.by \notin Graphs
        <5>1. y.by \in Nodes /\ y.ref \in Parameters
          BY <3>1, <4>1, ThingsOf
        <5>2. handles[u][y.by] > 0 /\ handles[u][o] = 0
          BY <1>3, <3>2, <4>1 DEF Reason
        <5>3. y.by # o
          BY <5>2
        <5>4. QED
          BY <5>1, <5>3, OneType
      <4>2. QED
        BY <1>10, <3>2, <4>1 DEF Reason
    <3>6. y.do \in {"decrement", "take out"} /\ phase'[y.ref] # "live" => context = "collecting" /\ y.ref \in Items
      <4>1. y.do \in {"decrement", "take out"} => y.ref \in Objects
        BY <3>1, ThingsOf
      <4>2. QED
        BY <1>9, <3>2, <3>4, <4>1 DEF Reason
    <3>7. y.do \in {"free", "graph"} => phase'[y.ref] \in {"dying", "freed"}
      <4>1. y.do \in {"free", "graph"} => y.ref \in Objects
        BY <3>1, ThingsOf, OneType
      <4>2. QED
        BY <1>9, <3>2, <4>1 DEF Reason
    <3>8. Reason(handles', holds', phase', context', u, y)
      <4>1. handles' = handles /\ context' = context
        OBVIOUS
      <4>2. QED
        BY <3>2, <3>5, <3>6, <3>7, <4>1 DEF Reason
    <3>9. QED
      BY <3>3, <3>8 DEF y
  <2>3. MayPrecede(m, todo[t])
    BY <1>4
  <2>4. QED
    BY <1>2, <1>4, <1>5, <2>1, <2>2, <2>3, TodoContinued
<1>15. OnceInv'
  <2>1. ASSUME NEW p \in Objects PROVE Often(todo', TakeOuts(p)) <= 1 /\ Often(todo', Frees(p)) <= 1
    <3>1. /\ Often(todo, TakeOuts(p)) <= 1 /\ Often(todo, Frees(p)) <= 1
          /\ Often(todo, TakeOuts(p)) \in Nat /\ Often(todo, Frees(p)) \in Nat
      BY <1>6 DEF IInv, OnceInv
    <3>2. /\ Often(todo', TakeOuts(p)) = Often(todo, TakeOuts(p)) - IF p = o THEN 1 ELSE 0
          /\ Often(todo', Frees(p)) = Often(todo, Frees(p)) + IF p = o THEN 1 ELSE 0
      BY <1>8
    <3>3. p = o => Often(todo, Frees(p)) = 0
      BY <1>3
    <3>4. QED
      BY <3>1, <3>2, <3>3
  <2>2. \A n \in Nodes : Often(todo', IncrementsBy(n)) <= 1
    BY <1>8 DEF IInv, OnceInv
  <2>3. QED
    BY <2>1, <2>2 DEF OnceInv
<1>16. HoldsInv'
  <2>1. ASSUME NEW a \in Objects, NEW b \in Objects, <<a, b>> \in holds'
        PROVE  /\ \/ a \in Graphs /\ b \in Nodes
                  \/ a \in Nodes /\ b \in Parameters
                  \/ a \in Regions /\ b \in Images \cup Regions
                  \/ a \in Arrays /\ b \in Items
               /\ phase'[a] # "live" => a \in Graphs /\ Often(todo', Destructs(a)) > 0
               /\ phase'[b] # "live" => context' = "collecting" /\ a \in Arrays
    <3>1. <<a, b>> \in holds /\ (a = o => o \in Graphs)
      BY <1>10, <2>1
    <3>2. /\ \/ a \in Graphs /\ b \in Nodes
             \/ a \in Nodes /\ b \in Parameters
             \/ a \in Regions /\ b \in Images \cup Regions
             \/ a \in Arrays /\ b \in Items
          /\ phase[a] # "live" => a \in Graphs /\ Often(todo, Destructs(a)) > 0
          /\ phase[b] # "live" => context = "collecting" /\ a \in Arrays
      BY <3>1 DEF IInv, HoldsInv
    <3>3. phase'[a] # "live" => a \in Graphs /\ Often(todo', Destructs(a)) > 0
      <4>1. /\ Often(todo, Destructs(a)) \in Nat
            /\ Often(todo', Destructs(a)) =
                 Often(todo, Destructs(a)) + IF a = o /\ o \in Graphs THEN 1 ELSE 0
        BY <1>6, <1>8
      <4>2. CASE a = o
        BY <3>1, <4>1, <4>2
      <4>3. CASE a # o
        BY <1>9, <3>2, <4>1, <4>3
      <4>4. QED
        BY <4>2, <4>3
    <3>4. phase'[b] # "live" => context = "collecting" /\ a \in Arrays
      BY <1>3, <1>9, <3>1, <3>2
    <3>5. QED
      BY <3>2, <3>3, <3>4
  <2>2. \A n \in Nodes, g, k \in Graphs : <<g, n>> \in holds' /\ <<k, n>> \in holds' => g = k
    BY <1>10 DEF IInv, HoldsInv
  <2>3. QED
    BY <2>1, <2>2 DEF HoldsInv
<1>17. PartsInv'
  BY <1>10, PartsKept DEF IInv
<1>18. HandlesInv'
  <2>1. ASSUME NEW u \in Threads, NEW p \in Objects, handles[u][p] > 0
        PROVE  phase'[p] = "live"
    <3>1. phase[p] = "live"
      BY <2>1 DEF IInv, HandlesInv
    <3>2. handles[u][o] = 0
      BY <1>3
    <3>3. p # o
      BY <2>1, <3>2
    <3>4. QED
      BY <1>9, <3>1, <3>3
  <2>2. QED
    BY <2>1 DEF HandlesInv
<1>19. CountInv'
  <2> SUFFICES ASSUME NEW p \in Objects PROVE CountOf(p)'
    BY DEF CountInv
  <2>1. CASE p = o
    <3>1. Often(todo, Frees(p)) \in Nat /\ Often(todo', Frees(p)) = Often(todo, Frees(p)) + 1
      BY <1>6, <1>8, <2>1
    <3>2. Often(todo', Frees(p)) > 0
      BY <3>1
    <3>3. QED
      BY <1>9, <2>1, <3>2 DEF CountOf
  <2>2. CASE p # o
    <3>1. /\ Often(todo', TakeOuts(p)) = Often(todo, TakeOuts(p))
          /\ Often(todo', Frees(p)) = Often(todo, Frees(p))
          /\ Often(todo', IncrementsOf(p)) = Often(todo, IncrementsOf(p))
      BY <1>6, <1>8, <2>2
    <3>3. ASSUME NEW k \in Kinds
          PROVE  /\ Holders(holds', p, k) \in Nat /\ Often(todo', Decrements(p, k)) \in Nat
                 /\ Holders(holds', p, k) + Often(todo', Decrements(p, k))
                      = Holders(holds, p, k) + Often(todo, Decrements(p, k))
      <4> DEFINE d == IF o \notin Graphs /\ p \in HeldBy(o) /\ k = HeldKind(o) THEN 1 ELSE 0
      <4>1. /\ Holders(holds', p, k) \in Nat
            /\ Holders(holds, p, k) = Holders(holds', p, k) + d
        BY <1>1, <1>2, HoldersLose
      <4>2. /\ Often(todo, Decrements(p, k)) \in Nat /\ d \in Nat
            /\ Often(todo', Decrements(p, k)) = Often(todo, Decrements(p, k)) + d
        BY <1>6, <1>8
      <4> HIDE DEF d
      <4>3. QED
        BY <4>1, <4>2
    <3>4. phase'[p] = phase[p] /\ Hands(handles', p) = Hands(handles, p)
      BY <1>9, <2>2
    <3>5. QED
      BY <3>1, <3>3, <3>4, CountMoves
  <2>3. QED
    BY <2>1, <2>2
<1>20. CollectInv'
  <2>1. x.do # "collect" /\ \A p : x # Decrement(p, "external")
    BY <1>2, NoDecrement
  <2>2. ASSUME NEW i \in 1 .. Len(m)
        PROVE  /\ m[i].do # "collect"
               /\ m[i].do = "decrement" /\ m[i].kind = "external" => m[i].ref \in Items
    <3>1. CASE m[i] = Release(o)
      BY <3>1 DEF Release
    <3>2. CASE m[i] = DestructGraph(o)
      BY <3>2 DEF DestructGraph
    <3>3. ASSUME NEW p \in HeldBy(o), m[i] = Decrement(p, HeldKind(o))
          PROVE  /\ m[i].do # "collect"
                 /\ m[i].do = "decrement" /\ m[i].kind = "external" => m[i].ref \in Items
      <4>1. m[i].do = "decrement" /\ m[i].ref = p /\ m[i].kind = HeldKind(o)
        BY <3>3 DEF Decrement
      <4>2. QED
        BY <1>13, <3>3, <4>1
    <3>4. QED
      BY <1>4, <3>1, <3>2, <3>3
  <2>3. \A s \in Slots : reftable'[s] # Null => reftable[s] = reftable'[s]
    OBVIOUS
  <2>4. \A s \in Slots : reftable'[s] # Null /\ external'[reftable'[s]] # 0 =>
             /\ reftable[s] # Null /\ external[reftable[s]] # 0
             /\ external[reftable[s]] = 1 => todo[t][1] # Decrement(reftable[s], "external")
    BY <2>1, <2>3 DEF x
  <2>5. \A i \in 1 .. Len(m) :
             m[i].do = "decrement" /\ m[i].kind = "external" /\ m[i].ref \notin Items =>
               i = 1 /\ external'[m[i].ref] > 0
    BY <2>2
  <2>6. todo[t][1].do # "collect" /\ \A i \in 1 .. Len(m) : m[i].do # "collect"
    BY <2>1, <2>2 DEF x
  <2>7. QED
    BY <1>2, <1>4, <1>5, <2>4, <2>5, <2>6, CollectContinued
<1>21. QED
  BY <1>11, <1>12, <1>14, <1>15, <1>16, <1>17, <1>18, <1>19, <1>20 DEF IInv

(* ownRemoveReference.                                                     *)
LEMMA RemoveReferenceKeeps ==
  ASSUME IInv, NEW t \in Threads, RemoveReference(t)
  PROVE  IInv'
<1> DEFINE o == First(t).ref
<1>1. TypeOK /\ TableInv
  BY DEF IInv
<1>2. Doing(t, "take out") /\ Removes(t, o) /\ UNCHANGED <<context, external, internal, handles>>
  BY DEF RemoveReference, Removes, counts
<1>3. ~ InTable(o) => Continue(t, <<>>) /\ UNCHANGED <<phase, reftable, num_references, holds>>
  BY DEF RemoveReference, table
<1>4. InTable(o) =>
        /\ reftable' = [s \in Slots |-> IF s \in Entry(o) THEN Null ELSE reftable[s]]
        /\ num_references' = num_references - 1
        /\ phase' = [phase EXCEPT ![o] = "dying"]
        /\ LetGo(o) /\ Continue(t, Destructor(o))
  BY DEF RemoveReference, Destructor, LetGo
<1> HIDE DEF o
<1>5. o \in Objects
  BY <1>1, <1>2, RemoveBegins
<1>6. InTable(o) <=> phase[o] = "live"
  BY <1>1, <1>5, LiveIsInTable DEF InTable, Entry
<1>7. CASE ~ InTable(o)
  BY <1>2, <1>3, <1>6, <1>7, NotInTableKeeps
<1>8. CASE InTable(o)
  BY <1>2, <1>4, <1>6, <1>8, DestructorBegins
<1>9. QED
  BY <1>7, <1>8

-----------------------------------------------------------------------------
(* Every call keeps the invariant.                                         *)

(* What is to be done as often as before.                                  *)
SameToDo(c, d) ==
  /\ \A p \in Objects, k \in Kinds : Often(d, Decrements(p, k)) = Often(c, Decrements(p, k))
  /\ \A p \in Objects : Often(d, IncrementsOf(p)) = Often(c, IncrementsOf(p))
  /\ \A n \in Nodes : Often(d, IncrementsBy(n)) = Often(c, IncrementsBy(n))
  /\ \A p \in Objects : Often(d, TakeOuts(p)) = Often(c, TakeOuts(p))
  /\ \A p \in Objects : Often(d, Frees(p)) = Often(c, Frees(p))
  /\ \A p \in Objects : Often(d, Destructs(p)) = Often(c, Destructs(p))

(* A thread makes an object, and has the only reference to it.             *)
LEMMA Made ==
  ASSUME IInv, context = "live", context' = context, NEW t \in Threads, NEW o \in Objects,
         CreateReference(t, o),
         \A a, b \in Objects : <<a, b>> \in holds => <<a, b>> \in holds',
         \A a, b \in Objects : <<a, b>> \in holds' =>
           <<a, b>> \in holds \/ (a = o /\ a \notin Graphs) \/ b = o
  PROVE  /\ reftable' \in [Slots -> Objects \cup {Null}] /\ num_references' \in 0 .. NumSlots
         /\ phase' \in [Objects -> {"none", "live", "dying", "freed"}]
         /\ TableInv' /\ HandlesInv'
         /\ phase[o] = "none" /\ phase'[o] = "live"
         /\ \A p \in Objects \ {o} : phase'[p] = phase[p]
         /\ \A u \in Threads : \A i \in DOMAIN todo[u] :
              /\ Reason(handles', holds', phase', context', u, todo[u][i])
              /\ todo[u][i].do = "node" => <<todo[u][i + 1].ref, todo[u][i].ref>> \in holds'
         /\ handles' \in [Threads -> [Objects -> 0 .. MaxHandles]]
         /\ handles[t][o] = 0 /\ handles'[t][o] > 0
         /\ Hands(handles', o) = 1
         /\ \A p \in Objects \ {o} : Hands(handles', p) = Hands(handles, p)
<1>1. TypeOK
  BY DEF IInv
<1>2. /\ New(o) /\ AddReference(o) /\ phase' = [phase EXCEPT ![o] = "live"] /\ Take(t, o)
      /\ phase[o] = "none"
  BY DEF CreateReference, New
<1>3. Hands(handles, o) = 0 /\ handles[t][o] = 0
  BY <1>2, NothingRefersToNew
<1>4. handles[t][o] < MaxHandles
  BY <1>3, BoundsAssumption
<1>5. /\ handles' \in [Threads -> [Objects -> 0 .. MaxHandles]]
      /\ \A u \in Threads, p \in Objects : handles[u][p] > 0 => handles'[u][p] > 0
      /\ \A u \in Threads, p \in Objects \ {o} : handles'[u][p] = handles[u][p]
      /\ Hands(handles', o) = Hands(handles, o) + 1
      /\ \A p \in Objects \ {o} : Hands(handles', p) = Hands(handles, p)
  BY <1>1, <1>2, <1>4, Taken
<1>6. handles'[t][o] > 0
  <2>1. handles' = [handles EXCEPT ![t][o] = handles[t][o] + 1]
    BY <1>2 DEF Take
  <2>2. handles \in [Threads -> [Objects -> 0 .. MaxHandles]]
    BY <1>1, TypesAre
  <2>3. handles'[t][o] = handles[t][o] + 1
    BY <2>1, <2>2
  <2>4. QED
    BY <1>3, <2>3
<1>7. \A u \in Threads, p \in Objects : p # o => handles'[u][p] = handles[u][p]
  BY <1>5
<1>8. /\ reftable' \in [Slots -> Objects \cup {Null}] /\ num_references' \in 0 .. NumSlots
      /\ phase' \in [Objects -> {"none", "live", "dying", "freed"}]
      /\ TableInv' /\ HandlesInv'
      /\ phase'[o] = "live"
      /\ \A p \in Objects \ {o} : phase'[p] = phase[p]
      /\ \A u \in Threads : \A i \in DOMAIN todo[u] :
           /\ Reason(handles', holds', phase', context', u, todo[u][i])
           /\ todo[u][i].do = "node" => <<todo[u][i + 1].ref, todo[u][i].ref>> \in holds'
  BY <1>2, <1>5, <1>7, Creating
<1>9. Hands(handles', o) = 1
  BY <1>3, <1>5
<1>10. QED
  BY <1>2, <1>3, <1>5, <1>6, <1>8, <1>9

(* An object that refers to no other, and that no other refers to.         *)
LEMMA MadeAloneKeeps ==
  ASSUME IInv, context = "live", context' = context, NEW t \in Threads, NEW o \in Objects,
         CreateReference(t, o), external' = [external EXCEPT ![o] = 1],
         UNCHANGED <<internal, holds>>,
         todo' \in [Threads -> Seq(Things)], SameToDo(todo, todo'), TodoInv'
  PROVE  IInv'
<1>1. TypeOK
  BY DEF IInv
<1>2. /\ reftable' \in [Slots -> Objects \cup {Null}] /\ num_references' \in 0 .. NumSlots
      /\ phase' \in [Objects -> {"none", "live", "dying", "freed"}]
      /\ TableInv' /\ HandlesInv'
      /\ phase[o] = "none" /\ phase'[o] = "live"
      /\ \A p \in Objects \ {o} : phase'[p] = phase[p]
      /\ handles' \in [Threads -> [Objects -> 0 .. MaxHandles]]
      /\ Hands(handles', o) = 1
      /\ \A p \in Objects \ {o} : Hands(handles', p) = Hands(handles, p)
  BY Made
<1>3. /\ external \in [Objects -> Nat] /\ external'[o] = 1 /\ external' \in [Objects -> Nat]
      /\ \A p \in Objects \ {o} : external'[p] = external[p]
  BY <1>1 DEF TypeOK
<1>4. /\ \A p \in Objects, k \in Kinds : Often(todo', Decrements(p, k)) = Often(todo, Decrements(p, k))
      /\ \A p \in Objects : Often(todo', IncrementsOf(p)) = Often(todo, IncrementsOf(p))
      /\ \A n \in Nodes : Often(todo', IncrementsBy(n)) = Often(todo, IncrementsBy(n))
      /\ \A p \in Objects : Often(todo', TakeOuts(p)) = Often(todo, TakeOuts(p))
      /\ \A p \in Objects : Often(todo', Frees(p)) = Often(todo, Frees(p))
      /\ \A p \in Objects : Often(todo', Destructs(p)) = Often(todo, Destructs(p))
  BY DEF SameToDo
<1>5. TypeOK'
  BY <1>1, <1>2, <1>3 DEF TypeOK
<1>6. OnceInv'
  BY <1>4 DEF IInv, OnceInv
<1>7. HoldsInv'
  <2>1. ASSUME NEW a \in Objects, NEW b \in Objects, <<a, b>> \in holds
        PROVE  /\ \/ a \in Graphs /\ b \in Nodes
                  \/ a \in Nodes /\ b \in Parameters
                  \/ a \in Regions /\ b \in Images \cup Regions
                  \/ a \in Arrays /\ b \in Items
               /\ phase'[a] # "live" => a \in Graphs /\ Often(todo', Destructs(a)) > 0
               /\ phase'[b] # "live" => context' = "collecting" /\ a \in Arrays
    BY <1>2, <1>4, <2>1 DEF IInv, HoldsInv
  <2>2. QED
    BY <2>1 DEF IInv, HoldsInv
<1>8. PartsInv'
  BY PartsKept DEF IInv
<1>9. CountInv'
  <2> SUFFICES ASSUME NEW p \in Objects PROVE CountOf(p)'
    BY DEF CountInv
  <2>1. CASE p = o
    <3>1. /\ internal[p] = 0
          /\ \A k : Holders(holds, p, k) = 0 /\ Often(todo, Decrements(p, k)) = 0
          /\ Often(todo, IncrementsOf(p)) = 0 /\ Often(todo, TakeOuts(p)) = 0
      BY <1>2, <2>1, NothingRefersToNew
    <3>2. /\ Often(todo', Decrements(p, "external")) = 0 /\ Often(todo', Decrements(p, "internal")) = 0
          /\ Often(todo', IncrementsOf(p)) = 0 /\ Often(todo', TakeOuts(p)) = 0
      BY <1>4, <3>1 DEF Kinds
    <3>3. Holders(holds', p, "external") = 0 /\ Holders(holds', p, "internal") = 0
      BY <3>1
    <3>4. external'[p] = 1 /\ internal'[p] = 0 /\ phase'[p] = "live" /\ Hands(handles', p) = 1
      BY <1>2, <1>3, <2>1, <3>1
    <3>5. QED
      BY <3>2, <3>3, <3>4 DEF CountOf
  <2>2. CASE p # o
    <3>1. \A k \in Kinds : /\ Holders(holds', p, k) = Holders(holds, p, k)
                           /\ Often(todo', Decrements(p, k)) = Often(todo, Decrements(p, k))
      BY <1>4
    <3>2. QED
      BY <1>2, <1>3, <1>4, <2>2, <3>1, CountStays
  <2>3. QED
    BY <2>1, <2>2
<1>10. CollectInv'
  BY NotCollecting
<1>11. QED
  BY <1>2, <1>5, <1>6, <1>7, <1>8, <1>9, <1>10 DEF IInv

(* A list that stays as it is.                                             *)
LEMMA TodoStays ==
  ASSUME IInv, todo' = todo,
         \A u \in Threads : \A i \in DOMAIN todo[u] :
           /\ Reason(handles', holds', phase', context', u, todo[u][i])
           /\ todo[u][i].do = "node" => <<todo[u][i + 1].ref, todo[u][i].ref>> \in holds'
  PROVE  TodoInv' /\ SameToDo(todo, todo') /\ todo' \in [Threads -> Seq(Things)]
<1>1. \A u \in Threads : Shape(todo[u])
  BY DEF IInv, TodoInv
<1>2. TodoInv'
  BY <1>1 DEF TodoInv
<1>3. SameToDo(todo, todo')
  BY DEF SameToDo
<1>4. QED
  BY <1>2, <1>3 DEF IInv, TypeOK

(* vxCreateGraph, vxCreateImage.                                           *)
LEMMA CreateKeeps ==
  ASSUME IInv, NEW t \in Threads, Ready(t), NEW o \in Objects, Create(t, o)
  PROVE  IInv'
<1>1. /\ CreateReference(t, o) /\ external' = [external EXCEPT ![o] = 1]
      /\ context' = context /\ UNCHANGED <<internal, holds>> /\ todo' = todo
      /\ context = "live"
  BY DEF Create, Ready
<1>2. /\ \A a, b \in Objects : <<a, b>> \in holds => <<a, b>> \in holds'
      /\ \A a, b \in Objects : <<a, b>> \in holds' =>
           <<a, b>> \in holds \/ (a = o /\ a \notin Graphs) \/ b = o
  BY <1>1
<1>3. \A u \in Threads : \A i \in DOMAIN todo[u] :
           /\ Reason(handles', holds', phase', context', u, todo[u][i])
           /\ todo[u][i].do = "node" => <<todo[u][i + 1].ref, todo[u][i].ref>> \in holds'
  BY <1>1, <1>2, Made
<1>4. TodoInv' /\ SameToDo(todo, todo') /\ todo' \in [Threads -> Seq(Things)]
  BY <1>1, <1>3, TodoStays
<1>5. QED
  BY <1>1, <1>4, MadeAloneKeeps

(* vxCreateObjectArray: the item is to be made.                            *)
LEMMA CreateObjectArrayKeeps ==
  ASSUME IInv, NEW t \in Threads, Ready(t), NEW a \in Arrays, NEW i \in Items, CreateObjectArray(t, a, i)
  PROVE  IInv'
<1> DEFINE y == InitItem(a, i)
<1>1. /\ CreateReference(t, a) /\ external' = [external EXCEPT ![a] = 1]
      /\ context' = context /\ UNCHANGED <<internal, holds>> /\ todo' = [todo EXCEPT ![t] = <<y>>]
      /\ context = "live" /\ todo[t] = <<>>
  BY DEF CreateObjectArray, Ready
<1>2. a \in Objects /\ TypeOK
  BY OneType DEF IInv
<1>3. y \in Things /\ y.do = "item" /\ y.ref = a
  <2>1. y \in Things
    BY ThingsTyped
  <2>2. y.do = "item" /\ y.ref = a
    BY DEF InitItem
  <2>3. QED
    BY <2>1, <2>2
<1> HIDE DEF y
<1>4. <<y>> \in Seq(Things) /\ Len(<<y>>) = 1 /\ <<y>>[1] = y /\ \A W : Count(<<y>>, W) = In(y, W)
  BY <1>3, CountsOfShort
<1>5. /\ todo' \in [Threads -> Seq(Things)]
      /\ \A W : Often(todo', W) = Often(todo, W) + Count(<<y>>, W)
  BY <1>1, <1>2, <1>4, NewCounts
<1>6. SameToDo(todo, todo')
  <2>1. /\ \A p, k : In(y, Decrements(p, k)) = 0
        /\ \A p \in Objects : In(y, IncrementsOf(p)) = 0
        /\ \A n \in Nodes : In(y, IncrementsBy(n)) = 0
        /\ \A p : In(y, TakeOuts(p)) = 0
        /\ \A p : In(y, Frees(p)) = 0
        /\ \A p : In(y, Destructs(p)) = 0
    BY <1>3, InOther
  <2>2. \A W : Often(todo, W) \in Nat
    BY <1>2, TypesAre
  <2>3. QED
    BY <1>4, <1>5, <2>1, <2>2 DEF SameToDo
<1>7. /\ \A b, c \in Objects : <<b, c>> \in holds => <<b, c>> \in holds'
      /\ \A b, c \in Objects : <<b, c>> \in holds' =>
           <<b, c>> \in holds \/ (b = a /\ b \notin Graphs) \/ c = a
  BY <1>1
<1>8. /\ \A u \in Threads : \A j \in DOMAIN todo[u] :
           /\ Reason(handles', holds', phase', context', u, todo[u][j])
           /\ todo[u][j].do = "node" => <<todo[u][j + 1].ref, todo[u][j].ref>> \in holds'
      /\ handles'[t][a] > 0
  BY <1>1, <1>2, <1>7, Made
<1>9. TodoInv'
  <2>1. \A j \in 1 .. Len(<<y>>) : j = 1 /\ <<y>>[j] = y
    BY <1>3, ShortPrecedes
  <2>2. \A j \in DOMAIN <<y>> : j = 1
    OBVIOUS
  <2>3. Shape(<<y>>)
    BY <1>3, <1>4, <2>2 DEF Shape
  <2>4. Reason(handles', holds', phase', context', t, y)
    BY <1>3, <1>8 DEF Reason
  <2>5. QED
    BY <1>1, <1>3, <1>4, <1>8, <2>1, <2>3, <2>4, TodoCalled
<1>10. QED
  BY <1>1, <1>2, <1>5, <1>6, <1>9, MadeAloneKeeps

(* An object that refers to another, or that another one refers to.        *)
Link(a, b) ==
  /\ holds' = holds \cup {<<a, b>>}
  /\ internal' = [internal EXCEPT ![b] = internal[b] + 1]

LEMMA Linked ==
  ASSUME TypeOK, NEW a \in Objects, NEW b \in Objects, Link(a, b), <<a, b>> \notin holds, a \notin Arrays
  PROVE  /\ holds' \subseteq Objects \X Objects
         /\ \A c, d : <<c, d>> \in holds' <=> <<c, d>> \in holds \/ (c = a /\ d = b)
         /\ internal' \in [Objects -> Nat] /\ internal'[b] = internal[b] + 1
         /\ \A p \in Objects \ {b} : internal'[p] = internal[p]
         /\ \A p \in Objects : Holders(holds', p, "external") = Holders(holds, p, "external")
         /\ \A p \in Objects \ {b} : Holders(holds', p, "internal") = Holders(holds, p, "internal")
         /\ Holders(holds', b, "internal") = Holders(holds, b, "internal") + 1
<1>1. /\ holds' \subseteq Objects \X Objects
      /\ \A c, d : <<c, d>> \in holds' <=> <<c, d>> \in holds \/ (c = a /\ d = b)
  BY DEF Link, TypeOK
<1>2. /\ internal' \in [Objects -> Nat] /\ internal'[b] = internal[b] + 1
      /\ \A p \in Objects \ {b} : internal'[p] = internal[p]
  BY DEF Link, TypeOK
<1>3. ASSUME NEW p \in Objects, NEW k
      PROVE  /\ Holders(holds, p, k) \in Nat /\ Holders(holds', p, k) \in Nat
             /\ Holders(holds', p, k) = Holders(holds, p, k) - Refers(holds, a, p, k) + Refers(holds', a, p, k)
  <2>1. SameBut(holds, holds', a, p)
    BY <1>1 DEF SameBut
  <2>2. QED
    BY <2>1, HoldersOfChanged
<1>4. HeldKind(a) = "internal"
  BY HeldKinds
<1>5. /\ \A p \in Objects : Refers(holds, a, p, "external") = 0 /\ Refers(holds', a, p, "external") = 0
      /\ Refers(holds, a, b, "internal") = 0 /\ Refers(holds', a, b, "internal") = 1
  BY <1>1, <1>4 DEF Refers
<1>6. \A p \in Objects \ {b} : /\ Refers(holds', a, p, "internal") = Refers(holds, a, p, "internal")
                               /\ Refers(holds, a, p, "internal") \in Nat
  BY <1>1 DEF Refers
<1>7. \A p \in Objects : Holders(holds', p, "external") = Holders(holds, p, "external")
  BY <1>3, <1>5
<1>8. \A p \in Objects \ {b} : Holders(holds', p, "internal") = Holders(holds, p, "internal")
  BY <1>3, <1>6
<1>9. Holders(holds', b, "internal") = Holders(holds, b, "internal") + 1
  BY <1>3, <1>5
<1>10. QED
  BY <1>1, <1>2, <1>7, <1>8, <1>9

(* A region refers to the image it was made from, a graph to its node.     *)
Fits(t, o, a, b) ==
  \/ a = o /\ a \in Regions /\ b \in Images \cup Regions /\ handles[t][b] > 0
  \/ b = o /\ b \in Nodes /\ a \in Graphs /\ handles[t][a] > 0

LEMMA MadeLinkedKeeps ==
  ASSUME IInv, context = "live", context' = context, NEW t \in Threads, NEW o \in Objects,
         CreateReference(t, o), external' = [external EXCEPT ![o] = 1],
         NEW a \in Objects, NEW b \in Objects, Fits(t, o, a, b), Link(a, b), todo' = todo
  PROVE  IInv'
<1>1. TypeOK
  BY DEF IInv
<1>2. phase[o] = "none"
  BY DEF CreateReference, New
<1>3. /\ internal[o] = 0
      /\ \A p \in Objects : <<p, o>> \notin holds
      /\ \A p \in Objects : o \notin Graphs => <<o, p>> \notin holds
      /\ \A k : Holders(holds, o, k) = 0 /\ Often(todo, Decrements(o, k)) = 0
      /\ Often(todo, IncrementsOf(o)) = 0 /\ Often(todo, TakeOuts(o)) = 0
  BY <1>2, NothingRefersToNew
<1>4. /\ a # o => phase[a] = "live"
      /\ b # o => phase[b] = "live" /\ external[b] > 0 /\ Often(todo, TakeOuts(b)) = 0
  BY HasCounted DEF Fits
<1>5. /\ a # b /\ (a = o \/ b = o) /\ a \notin Arrays /\ (a = o => a \notin Graphs)
      /\ <<a, b>> \notin holds
      /\ (a \in Graphs /\ b \in Nodes) \/ (a \in Regions /\ b \in Images \cup Regions)
      /\ b = o => b \in Nodes
  <2>1. CASE a = o /\ a \in Regions /\ b \in Images \cup Regions /\ handles[t][b] > 0
    <3>1. phase[b] = "live"
      BY <2>1, HasCounted
    <3>2. a # b /\ a \notin Arrays /\ a \notin Graphs
      BY <1>2, <2>1, <3>1, OneType
    <3>3. <<a, b>> \notin holds
      BY <1>3, <2>1, <3>2
    <3>4. QED
      BY <2>1, <3>2, <3>3
  <2>2. CASE b = o /\ b \in Nodes /\ a \in Graphs /\ handles[t][a] > 0
    <3>1. phase[a] = "live"
      BY <2>2, HasCounted
    <3>2. a # b /\ a \notin Arrays
      BY <1>2, <2>2, <3>1, OneType
    <3>3. <<a, b>> \notin holds
      BY <1>3, <2>2
    <3>4. QED
      BY <2>2, <3>2, <3>3
  <2>3. QED
    BY <2>1, <2>2 DEF Fits
<1>6. /\ holds' \subseteq Objects \X Objects
      /\ \A c, d : <<c, d>> \in holds' <=> <<c, d>> \in holds \/ (c = a /\ d = b)
      /\ internal' \in [Objects -> Nat] /\ internal'[b] = internal[b] + 1
      /\ \A p \in Objects \ {b} : internal'[p] = internal[p]
      /\ \A p \in Objects : Holders(holds', p, "external") = Holders(holds, p, "external")
      /\ \A p \in Objects \ {b} : Holders(holds', p, "internal") = Holders(holds, p, "internal")
      /\ Holders(holds', b, "internal") = Holders(holds, b, "internal") + 1
  BY <1>1, <1>5, Linked
<1>7. /\ reftable' \in [Slots -> Objects \cup {Null}] /\ num_references' \in 0 .. NumSlots
      /\ phase' \in [Objects -> {"none", "live", "dying", "freed"}]
      /\ TableInv' /\ HandlesInv'
      /\ phase'[o] = "live"
      /\ \A p \in Objects \ {o} : phase'[p] = phase[p]
      /\ \A u \in Threads : \A i \in DOMAIN todo[u] :
           /\ Reason(handles', holds', phase', context', u, todo[u][i])
           /\ todo[u][i].do = "node" => <<todo[u][i + 1].ref, todo[u][i].ref>> \in holds'
      /\ handles' \in [Threads -> [Objects -> 0 .. MaxHandles]]
      /\ Hands(handles', o) = 1
      /\ \A p \in Objects \ {o} : Hands(handles', p) = Hands(handles, p)
  <2>1. /\ \A c, d \in Objects : <<c, d>> \in holds => <<c, d>> \in holds'
        /\ \A c, d \in Objects : <<c, d>> \in holds' =>
             <<c, d>> \in holds \/ (c = o /\ c \notin Graphs) \/ d = o
    BY <1>5, <1>6
  <2>2. QED
    BY <2>1, Made
<1>8. TodoInv' /\ SameToDo(todo, todo') /\ todo' \in [Threads -> Seq(Things)]
  BY <1>7, TodoStays
<1>9. /\ external \in [Objects -> Nat] /\ external'[o] = 1 /\ external' \in [Objects -> Nat]
      /\ \A p \in Objects \ {o} : external'[p] = external[p]
  BY <1>1 DEF TypeOK
<1>10. TypeOK'
  BY <1>1, <1>6, <1>7, <1>8, <1>9 DEF TypeOK
<1>11. OnceInv'
  BY DEF IInv, OnceInv
<1>12. HoldsInv'
  <2>1. ASSUME NEW c \in Objects, NEW d \in Objects, <<c, d>> \in holds'
        PROVE  /\ \/ c \in Graphs /\ d \in Nodes
                  \/ c \in Nodes /\ d \in Parameters
                  \/ c \in Regions /\ d \in Images \cup Regions
                  \/ c \in Arrays /\ d \in Items
               /\ phase'[c] # "live" => c \in Graphs /\ Often(todo', Destructs(c)) > 0
               /\ phase'[d] # "live" => context' = "collecting" /\ c \in Arrays
    <3>1. CASE <<c, d>> \in holds
      BY <1>7, <3>1 DEF IInv, HoldsInv
    <3>2. CASE c = a /\ d = b
      BY <1>4, <1>5, <1>7, <3>2
    <3>3. QED
      BY <1>6, <2>1, <3>1, <3>2
  <2>2. ASSUME NEW n \in Nodes, NEW g \in Graphs, NEW k \in Graphs, <<g, n>> \in holds', <<k, n>> \in holds'
        PROVE  g = k
    <3>1. CASE n = b
      <4>1. b = o
        BY <1>5, <3>1, OneType
      <4>2. <<g, n>> \notin holds /\ <<k, n>> \notin holds
        BY <1>3, <3>1, <4>1, OneType
      <4>3. QED
        BY <1>6, <2>2, <4>2
    <3>2. CASE n # b
      BY <1>6, <2>2, <3>2 DEF IInv, HoldsInv
    <3>3. QED
      BY <3>1, <3>2
  <2>3. QED
    BY <2>1, <2>2 DEF HoldsInv
<1>13. PartsInv'
  <2>1. ASSUME NEW S \in (SUBSET Regions) \ {{}} PROVE \E r \in S : \A p \in S : <<p, r>> \notin holds'
    <3>1. \A p \in S : p \in Regions /\ p \in Objects
      BY OneType
    <3>2. CASE o \in S
      <4>1. ASSUME NEW p \in S PROVE <<p, o>> \notin holds'
        <5>1. <<p, o>> \notin holds
          BY <1>3, <3>1
        <5>2. ~ (p = a /\ o = b)
          BY <1>5, <3>1, <3>2, OneType
        <5>3. QED
          BY <1>6, <5>1, <5>2
      <4>2. QED
        BY <3>2, <4>1
    <3>3. CASE o \notin S
      <4>1. PICK r \in S : \A p \in S : <<p, r>> \notin holds
        BY DEF IInv, PartsInv
      <4>2. ASSUME NEW p \in S PROVE <<p, r>> \notin holds'
        <5>1. ~ (p = a /\ r = b)
          BY <1>5, <3>3
        <5>2. QED
          BY <1>6, <4>1, <5>1
      <4>3. QED
        BY <4>2
    <3>4. QED
      BY <3>2, <3>3
  <2>2. QED
    BY <2>1 DEF PartsInv
<1>14. CountInv'
  <2> SUFFICES ASSUME NEW p \in Objects PROVE CountOf(p)'
    BY DEF CountInv
  <2>1. /\ internal[p] \in Nat /\ external[p] \in Nat
        /\ Holders(holds, p, "external") \in Nat /\ Holders(holds, p, "internal") \in Nat
        /\ \A W : Often(todo, W) \in Nat
        /\ phase[p] = "live" =>
              /\ context = "live" =>
                   external[p] = Hands(handles, p) + Holders(holds, p, "external")
                                   + Often(todo, Decrements(p, "external"))
              /\ internal[p] + Often(todo, IncrementsOf(p))
                   = Holders(holds, p, "internal") + Often(todo, Decrements(p, "internal"))
              /\ external[p] + internal[p] = 0 <=> Often(todo, TakeOuts(p)) > 0
    BY Counts
  <2>2. CASE p = o
    <3>1. /\ Holders(holds', p, "external") = 0
          /\ internal'[p] = Holders(holds', p, "internal")
      <4>1. Holders(holds', p, "external") = 0
        BY <1>3, <1>6, <2>2
      <4>2. CASE p = b
        BY <1>3, <1>6, <2>2, <4>2
      <4>3. CASE p # b
        BY <1>3, <1>6, <2>2, <4>3
      <4>4. QED
        BY <4>1, <4>2, <4>3
    <3>2. internal'[p] \in Nat
      BY <1>6
    <3>3. /\ Often(todo', Decrements(p, "external")) = 0 /\ Often(todo', Decrements(p, "internal")) = 0
          /\ Often(todo', IncrementsOf(p)) = 0 /\ Often(todo', TakeOuts(p)) = 0
      BY <1>3, <2>2
    <3>4. external'[p] = 1 /\ phase'[p] = "live" /\ Hands(handles', p) = 1
      BY <1>7, <1>9, <2>2
    <3>5. QED
      BY <3>1, <3>2, <3>3, <3>4 DEF CountOf
  <2>3. CASE p # o /\ p = b
    <3>1. /\ phase'[p] = "live" /\ phase[p] = "live" /\ external'[p] = external[p] /\ external[p] > 0
          /\ internal'[p] = internal[p] + 1 /\ Often(todo, TakeOuts(p)) = 0
          /\ Hands(handles', p) = Hands(handles, p)
          /\ Holders(holds', p, "external") = Holders(holds, p, "external")
          /\ Holders(holds', p, "internal") = Holders(holds, p, "internal") + 1
      BY <1>4, <1>6, <1>7, <1>9, <2>3
    <3>2. external'[p] = Hands(handles', p) + Holders(holds', p, "external")
                           + Often(todo', Decrements(p, "external"))
      BY <2>1, <3>1
    <3>3. internal'[p] + Often(todo, IncrementsOf(p))
            = Holders(holds', p, "internal") + Often(todo, Decrements(p, "internal"))
      BY <2>1, <3>1
    <3>4. external'[p] + internal'[p] = 0 <=> Often(todo', TakeOuts(p)) > 0
      BY <2>1, <3>1
    <3>5. QED
      BY <3>1, <3>2, <3>3, <3>4 DEF CountOf
  <2>4. CASE p # o /\ p # b
    <3>1. /\ phase'[p] = phase[p] /\ external'[p] = external[p] /\ internal'[p] = internal[p]
          /\ Hands(handles', p) = Hands(handles, p)
          /\ Holders(holds', p, "external") = Holders(holds, p, "external")
          /\ Holders(holds', p, "internal") = Holders(holds, p, "internal")
      BY <1>6, <1>7, <1>9, <2>4
    <3>2. \A k \in Kinds : /\ Holders(holds', p, k) = Holders(holds, p, k)
                           /\ Often(todo', Decrements(p, k)) = Often(todo, Decrements(p, k))
      BY <3>1 DEF Kinds
    <3>3. QED
      BY <3>1, <3>2, CountStays
  <2>5. QED
    BY <2>2, <2>3, <2>4
<1>15. CollectInv'
  BY NotCollecting
<1>16. QED
  BY <1>7, <1>8, <1>10, <1>11, <1>12, <1>13, <1>14, <1>15 DEF IInv

(* vxCreateImageFromROI.                                                   *)
LEMMA CreateImageFromROIKeeps ==
  ASSUME IInv, NEW t \in Threads, Ready(t), NEW o \in Regions, NEW parent \in Images \cup Regions,
         CreateImageFromROI(t, o, parent)
  PROVE  IInv'
<1>1. /\ CreateReference(t, o) /\ external' = [external EXCEPT ![o] = 1]
      /\ context' = context /\ todo' = todo /\ context = "live"
      /\ Fits(t, o, o, parent) /\ Link(o, parent)
  BY DEF CreateImageFromROI, Ready, Has, Fits, Link
<1>2. o \in Objects /\ parent \in Objects
  BY OneType
<1>3. QED
  BY <1>1, <1>2, MadeLinkedKeeps

(* vxCreateGenericNode.                                                    *)
LEMMA CreateGenericNodeKeeps ==
  ASSUME IInv, NEW t \in Threads, Ready(t), NEW g \in Graphs, NEW n \in Nodes,
         CreateGenericNode(t, g, n)
  PROVE  IInv'
<1>1. g \in Objects /\ n \in Objects
  BY OneType
<1>2. phase[n] = "none" /\ context = "live"
  BY DEF CreateGenericNode, CreateReference, New, Ready
<1>3. internal[n] = 0
  BY <1>1, <1>2, NothingRefersToNew
<1>4. /\ CreateReference(t, n) /\ external' = [external EXCEPT ![n] = 1]
      /\ context' = context /\ todo' = todo
      /\ Fits(t, n, g, n) /\ holds' = holds \cup {<<g, n>>}
      /\ internal' = [internal EXCEPT ![n] = 1]
  BY DEF CreateGenericNode, Has, Fits
<1>5. Link(g, n)
  BY <1>3, <1>4 DEF Link
<1>6. QED
  BY <1>1, <1>2, <1>4, <1>5, MadeLinkedKeeps

(* A thread gets a reference to an object that is in use.                  *)
LEMMA SharedKeeps ==
  ASSUME IInv, context = "live", NEW t \in Threads, NEW o \in Objects,
         phase[o] = "live", Often(todo, TakeOuts(o)) = 0,
         handles[t][o] < MaxHandles, Take(t, o), external' = [external EXCEPT ![o] = @ + 1],
         UNCHANGED <<context, phase, internal, reftable, num_references, holds, todo>>
  PROVE  IInv'
<1>1. TypeOK
  BY DEF IInv
<1>2. /\ handles' \in [Threads -> [Objects -> 0 .. MaxHandles]]
      /\ \A u \in Threads, p \in Objects : handles[u][p] > 0 => handles'[u][p] > 0
      /\ \A u \in Threads, p \in Objects \ {o} : handles'[u][p] = handles[u][p]
      /\ Hands(handles', o) = Hands(handles, o) + 1
      /\ \A p \in Objects \ {o} : Hands(handles', p) = Hands(handles, p)
  BY <1>1, Taken
<1>3. /\ external' \in [Objects -> Nat] /\ external'[o] = external[o] + 1
      /\ \A p \in Objects \ {o} : external'[p] = external[p]
  BY <1>1 DEF TypeOK
<1>4. TypeOK'
  BY <1>1, <1>2, <1>3 DEF TypeOK
<1>5. TableInv'
  BY <1>1, TableStays DEF IInv, table
<1>6. TodoInv'
  <2>1. ASSUME NEW u \in Threads, NEW i, i \in DOMAIN todo[u]
        PROVE  /\ Reason(handles', holds', phase', context', u, todo[u][i])
               /\ todo[u][i].do = "node" => <<todo[u][i + 1].ref, todo[u][i].ref>> \in holds'
    <3> DEFINE x == todo[u][i]
    <3>1. x \in Things /\ Reason(handles, holds, phase, context, u, x)
      BY <1>1, <2>1, Entries DEF IInv, TodoInv
    <3>2. x.do = "node" => <<todo[u][i + 1].ref, x.ref>> \in holds'
      BY <2>1 DEF IInv, TodoInv
    <3> HIDE DEF x
    <3>3. x.do = "increment" =>
            /\ handles'[u][x.ref] > 0 /\ handles'[u][x.by] > 0 /\ <<x.by, x.ref>> \in holds'
            /\ \A g \in Graphs : <<g, x.by>> \in holds' => handles'[u][g] > 0
      <4>1. x.do = "increment" => x.ref \in Objects /\ x.by \in Objects
        BY <3>1, ThingsOf, OneType
      <4>2. QED
        BY <1>2, <3>1, <4>1, OneType DEF Reason
    <3>4. x.do = "item" => handles'[u][x.ref] > 0
      <4>1. x.do = "item" => x.ref \in Objects
        BY <3>1, ThingsOf, OneType
      <4>2. QED
        BY <1>2, <3>1, <4>1 DEF Reason
    <3>5. Reason(handles', holds', phase', context', u, x)
      BY <3>1, <3>3, <3>4, ReasonStays
    <3>6. QED
      BY <3>2, <3>5 DEF x
  <2>2. QED
    BY <2>1, TodoStays
<1>7. OnceInv'
  BY DEF IInv, OnceInv
<1>8. HoldsInv'
  BY DEF IInv, HoldsInv
<1>9. PartsInv'
  BY PartsKept DEF IInv
<1>10. HandlesInv'
  <2>1. ASSUME NEW u \in Threads, NEW p \in Objects, handles'[u][p] > 0 PROVE phase[p] = "live"
    <3>1. CASE p = o
      BY <3>1
    <3>2. CASE p # o
      BY <1>2, <2>1, <3>2 DEF IInv, HandlesInv
    <3>3. QED
      BY <3>1, <3>2
  <2>2. QED
    BY <2>1 DEF HandlesInv
<1>11. CountInv'
  <2> SUFFICES ASSUME NEW p \in Objects PROVE CountOf(p)'
    BY DEF CountInv
  <2>1. CASE p = o
    <3>1. /\ external[p] = Hands(handles, p) + Holders(holds, p, "external")
                             + Often(todo, Decrements(p, "external"))
          /\ internal[p] + Often(todo, IncrementsOf(p))
               = Holders(holds, p, "internal") + Often(todo, Decrements(p, "internal"))
          /\ internal[p] \in Nat /\ external[p] \in Nat
          /\ Hands(handles, p) \in Nat
          /\ Holders(holds, p, "external") \in Nat /\ Often(todo, Decrements(p, "external")) \in Nat
      BY <2>1, Counts
    <3>2. external'[p] = external[p] + 1 /\ Hands(handles', p) = Hands(handles, p) + 1
      BY <1>2, <1>3, <2>1
    <3>3. external'[p] = Hands(handles', p) + Holders(holds, p, "external")
                           + Often(todo, Decrements(p, "external"))
      BY <3>1, <3>2
    <3>4. external'[p] + internal[p] # 0
      BY <3>1, <3>2
    <3>5. ~ (Often(todo, TakeOuts(p)) > 0)
      BY <2>1
    <3>6. QED
      BY <2>1, <3>1, <3>3, <3>4, <3>5 DEF CountOf
  <2>2. CASE p # o
    BY <1>2, <1>3, <2>2, CountStays
  <2>3. QED
    BY <2>1, <2>2
<1>12. CollectInv'
  BY NotCollecting
<1>13. QED
  BY <1>4, <1>5, <1>6, <1>7, <1>8, <1>9, <1>10, <1>11, <1>12 DEF IInv

(* vxRetainReference.                                                      *)
LEMMA RetainReferenceKeeps ==
  ASSUME IInv, NEW t \in Threads, NEW u \in Threads, NEW o \in Objects, RetainReference(t, u, o)
  PROVE  IInv'
<1>1. /\ handles[t][o] > 0 /\ handles[u][o] < MaxHandles
      /\ external' = [external EXCEPT ![o] = @ + 1] /\ Take(u, o)
      /\ UNCHANGED <<context, phase, internal, reftable, num_references, holds, todo>>
  BY DEF RetainReference, Has, table
<1>2. context = "live" /\ phase[o] = "live" /\ Often(todo, TakeOuts(o)) = 0
  BY <1>1, HasCounted
<1>3. QED
  BY <1>1, <1>2, SharedKeeps

(* vxQueryParameter, vxGetObjectArrayItem.                                 *)
LEMMA GetHeldKeeps ==
  ASSUME IInv, NEW t \in Threads, Ready(t), NEW o \in Objects, NEW d \in Objects, <<o, d>> \in holds,
         GetHeld(t, o, d)
  PROVE  IInv'
<1>1. /\ context = "live" /\ handles[t][d] < MaxHandles
      /\ external' = [external EXCEPT ![d] = @ + 1] /\ Take(t, d)
      /\ UNCHANGED <<context, phase, internal, reftable, num_references, holds, todo>>
  BY DEF GetHeld, Ready, table
<1>2. phase[d] = "live" /\ Often(todo, TakeOuts(d)) = 0
  BY <1>1, HeldHasCount
<1>3. QED
  BY <1>1, <1>2, SharedKeeps

(* What another thread has to do keeps its reason when a thread gives up   *)
(* a reference.                                                            *)
LEMMA OthersReasons ==
  ASSUME IInv, NEW t \in Threads, UNCHANGED <<context, phase>>,
         \A u \in Threads \ {t} : \A p \in Objects : handles'[u][p] = handles[u][p],
         \A a, b : <<a, b>> \in holds' => <<a, b>> \in holds,
         \A a, b : <<a, b>> \in holds /\ a \notin Graphs => <<a, b>> \in holds',
         NEW u \in Threads \ {t}, NEW i, i \in DOMAIN todo[u]
  PROVE  Reason(handles', holds', phase', context', u, todo[u][i])
<1> DEFINE x == todo[u][i]
<1>1. x \in Things /\ Reason(handles, holds, phase, context, u, x)
  BY Entries DEF IInv, TodoInv
<1> HIDE DEF x
<1>2. x.do = "increment" =>
        /\ handles'[u][x.ref] > 0 /\ handles'[u][x.by] > 0 /\ <<x.by, x.ref>> \in holds'
        /\ \A g \in Graphs : <<g, x.by>> \in holds' => handles'[u][g] > 0
  <2>1. x.do = "increment" => x.ref \in Objects /\ x.by \in Objects /\ x.by \notin Graphs
    BY <1>1, ThingsOf, OneType
  <2>2. QED
    BY <1>1, <2>1, OneType DEF Reason
<1>3. x.do = "item" => handles'[u][x.ref] > 0
  <2>1. x.do = "item" => x.ref \in Objects
    BY <1>1, ThingsOf, OneType
  <2>2. QED
    BY <1>1, <2>1 DEF Reason
<1>4. Reason(handles', holds', phase', context', u, x)
  BY <1>1, <1>2, <1>3, ReasonStays
<1>5. QED
  BY <1>4 DEF x

(* vxReleaseReference.                                                     *)
LEMMA ReleaseReferenceKeeps ==
  ASSUME IInv, NEW t \in Threads, Ready(t), NEW o \in Objects, ReleaseReference(t, o)
  PROVE  IInv'
<1> DEFINE y == Decrement(o, "external")
<1>1. /\ handles[t][o] > 0 /\ todo[t] = <<>> /\ context = "live"
      /\ Give(t, o) /\ todo' = [todo EXCEPT ![t] = <<y>>]
      /\ UNCHANGED <<context, phase, external, internal, reftable, num_references, holds>>
  BY DEF ReleaseReference, Ready, Has, Give, counts, table
<1>2. TypeOK
  BY DEF IInv
<1>3. phase[o] = "live" /\ external[o] > 0
  BY <1>1, HasCounted
<1>4. y \in Things /\ y.do = "decrement" /\ y.ref = o /\ y.kind = "external"
  <2>1. y \in Things
    BY ThingsTyped DEF Kinds
  <2>2. y.do = "decrement" /\ y.ref = o /\ y.kind = "external"
    BY DEF Decrement
  <2>3. QED
    BY <2>1, <2>2
<1> HIDE DEF y
<1>5. <<y>> \in Seq(Things) /\ Len(<<y>>) = 1 /\ <<y>>[1] = y /\ \A W : Count(<<y>>, W) = In(y, W)
  BY <1>4, CountsOfShort
<1>6. /\ todo' \in [Threads -> Seq(Things)]
      /\ \A W : Often(todo', W) = Often(todo, W) + Count(<<y>>, W)
  BY <1>1, <1>2, <1>5, NewCounts
<1>7. \A W : Often(todo, W) \in Nat
  BY <1>2, TypesAre
<1>8. /\ \A p, k : Often(todo', Decrements(p, k)) =
           Often(todo, Decrements(p, k)) + IF p = o /\ k = "external" THEN 1 ELSE 0
      /\ \A p \in Objects : Often(todo', IncrementsOf(p)) = Often(todo, IncrementsOf(p))
      /\ \A n \in Nodes : Often(todo', IncrementsBy(n)) = Often(todo, IncrementsBy(n))
      /\ \A p : Often(todo', TakeOuts(p)) = Often(todo, TakeOuts(p))
      /\ \A p : Often(todo', Frees(p)) = Often(todo, Frees(p))
      /\ \A p : Often(todo', Destructs(p)) = Often(todo, Destructs(p))
  <2>1. /\ \A p, k : In(y, Decrements(p, k)) = IF p = o /\ k = "external" THEN 1 ELSE 0
        /\ \A p \in Objects : In(y, IncrementsOf(p)) = 0
        /\ \A n \in Nodes : In(y, IncrementsBy(n)) = 0
        /\ \A p : In(y, TakeOuts(p)) = 0
        /\ \A p : In(y, Frees(p)) = 0
        /\ \A p : In(y, Destructs(p)) = 0
    BY <1>4, InDecrement
  <2>2. QED
    BY <1>5, <1>6, <1>7, <2>1
<1>9. /\ handles' \in [Threads -> [Objects -> 0 .. MaxHandles]]
      /\ \A u \in Threads, p \in Objects : handles'[u][p] > 0 => handles[u][p] > 0
      /\ \A u \in Threads, p \in Objects : u # t \/ p # o => handles'[u][p] = handles[u][p]
      /\ Hands(handles, o) > 0 /\ Hands(handles', o) = Hands(handles, o) - 1
      /\ \A p \in Objects \ {o} : Hands(handles', p) = Hands(handles, p)
  BY <1>1, <1>2, Given
<1>10. TypeOK'
  BY <1>1, <1>2, <1>6, <1>9 DEF TypeOK
<1>11. TableInv'
  BY <1>1, <1>2, TableStays DEF IInv, table
<1>12. TodoInv'
  <2>1. \A j \in 1 .. Len(<<y>>) : j = 1 /\ <<y>>[j] = y
    BY <1>4, ShortPrecedes
  <2>2. \A j \in DOMAIN <<y>> : j = 1
    OBVIOUS
  <2>3. Shape(<<y>>)
    BY <1>4, <1>5, <2>2 DEF Shape
  <2>4. Reason(handles', holds', phase', context', t, y)
    BY <1>1, <1>3, <1>4 DEF Reason
  <2>5. ASSUME NEW u \in Threads \ {t}, NEW i, i \in DOMAIN todo[u]
        PROVE  /\ Reason(handles', holds', phase', context', u, todo[u][i])
               /\ todo[u][i].do = "node" => <<todo[u][i + 1].ref, todo[u][i].ref>> \in holds'
    <3>1. \A v \in Threads \ {t} : \A p \in Objects : handles'[v][p] = handles[v][p]
      BY <1>9
    <3>2. Reason(handles', holds', phase', context', u, todo[u][i])
      BY <1>1, <2>5, <3>1, OthersReasons
    <3>3. todo[u][i].do = "node" => <<todo[u][i + 1].ref, todo[u][i].ref>> \in holds'
      BY <1>1, <2>5 DEF IInv, TodoInv
    <3>4. QED
      BY <3>2, <3>3
  <2>6. QED
    BY <1>1, <1>4, <1>5, <2>1, <2>3, <2>4, <2>5, TodoCalled
<1>13. OnceInv'
  BY <1>8 DEF IInv, OnceInv
<1>14. HoldsInv'
  BY <1>1, <1>8 DEF IInv, HoldsInv
<1>15. PartsInv'
  BY <1>1, PartsKept DEF IInv
<1>16. HandlesInv'
  BY <1>1, <1>9 DEF IInv, HandlesInv
<1>17. CountInv'
  <2> SUFFICES ASSUME NEW p \in Objects PROVE CountOf(p)'
    BY DEF CountInv
  <2>1. CASE p = o
    <3>1. /\ external[p] = Hands(handles, p) + Holders(holds, p, "external")
                             + Often(todo, Decrements(p, "external"))
          /\ internal[p] + Often(todo, IncrementsOf(p))
               = Holders(holds, p, "internal") + Often(todo, Decrements(p, "internal"))
          /\ external[p] + internal[p] = 0 <=> Often(todo, TakeOuts(p)) > 0
          /\ Hands(handles, p) \in Nat
          /\ Holders(holds, p, "external") \in Nat /\ Holders(holds, p, "internal") \in Nat
          /\ \A W : Often(todo, W) \in Nat
      BY <1>1, <1>3, <2>1, Counts
    <3>2. Often(todo', Decrements(p, "external")) = Often(todo, Decrements(p, "external")) + 1
      BY <1>8, <2>1
    <3>3. Often(todo', Decrements(p, "internal")) = Often(todo, Decrements(p, "internal"))
      BY <1>8, <3>1
    <3>4. external[p] = Hands(handles', p) + Holders(holds, p, "external")
                          + Often(todo', Decrements(p, "external"))
      BY <1>9, <2>1, <3>1, <3>2
    <3>5. QED
      BY <1>1, <1>3, <1>8, <2>1, <3>1, <3>3, <3>4 DEF CountOf
  <2>2. CASE p # o
    <3>1. \A k \in Kinds : Often(todo', Decrements(p, k)) = Often(todo, Decrements(p, k))
      BY <1>7, <1>8, <2>2
    <3>2. QED
      BY <1>1, <1>8, <1>9, <2>2, <3>1, CountStays
  <2>3. QED
    BY <2>1, <2>2
<1>18. CollectInv'
  BY <1>1, NotCollecting
<1>19. QED
  BY <1>10, <1>11, <1>12, <1>13, <1>14, <1>15, <1>16, <1>17, <1>18 DEF IInv

(* A graph that gives up its nodes one by one is being destroyed.          *)
LEMMA NodeOfDyingGraph ==
  ASSUME IInv, NEW u \in Threads, NEW i, i \in DOMAIN todo[u], todo[u][i].do = "node"
  PROVE  /\ todo[u][i + 1].ref \in Graphs /\ phase[todo[u][i + 1].ref] # "live"
         /\ <<todo[u][i + 1].ref, todo[u][i].ref>> \in holds
<1>1. TypeOK /\ todo \in [Threads -> Seq(Things)]
  BY DEF IInv, TypeOK
<1>2. DOMAIN todo[u] = 1 .. Len(todo[u]) /\ Len(todo[u]) \in Nat
  <2>1. todo[u] \in Seq(Things)
    BY <1>1
  <2>2. QED
    BY <2>1, LenProperties
<1>3. i < Len(todo[u]) /\ todo[u][i + 1].do = "graph" /\ <<todo[u][i + 1].ref, todo[u][i].ref>> \in holds
  BY DEF IInv, TodoInv, Shape
<1>4. i + 1 \in DOMAIN todo[u]
  BY <1>2, <1>3
<1>5. todo[u][i + 1] \in Things /\ Reason(handles, holds, phase, context, u, todo[u][i + 1])
  BY <1>1, <1>4, Entries DEF IInv, TodoInv
<1>6. todo[u][i + 1].ref \in Graphs /\ phase[todo[u][i + 1].ref] # "live"
  BY <1>3, <1>5, ThingsOf DEF Reason
<1>7. QED
  BY <1>3, <1>6

(* A node leaves its graph.                                                *)
Unlink(g, n) == holds' = holds \ {<<g, n>>}

LEMMA Unlinked ==
  ASSUME TypeOK, NEW a \in Objects, NEW b \in Objects, Unlink(a, b), <<a, b>> \in holds, a \notin Arrays
  PROVE  /\ holds' \subseteq Objects \X Objects
         /\ \A c, d : <<c, d>> \in holds' <=> <<c, d>> \in holds /\ ~ (c = a /\ d = b)
         /\ \A p \in Objects : Holders(holds', p, "external") = Holders(holds, p, "external")
         /\ \A p \in Objects \ {b} : Holders(holds', p, "internal") = Holders(holds, p, "internal")
         /\ Holders(holds', b, "internal") = Holders(holds, b, "internal") - 1
<1>1. /\ holds' \subseteq Objects \X Objects
      /\ \A c, d : <<c, d>> \in holds' <=> <<c, d>> \in holds /\ ~ (c = a /\ d = b)
  BY DEF Unlink, TypeOK
<1>2. ASSUME NEW p \in Objects, NEW k
      PROVE  /\ Holders(holds, p, k) \in Nat /\ Holders(holds', p, k) \in Nat
             /\ Holders(holds', p, k) = Holders(holds, p, k) - Refers(holds, a, p, k) + Refers(holds', a, p, k)
  <2>1. SameBut(holds, holds', a, p)
    BY <1>1 DEF SameBut
  <2>2. QED
    BY <2>1, HoldersOfChanged
<1>3. HeldKind(a) = "internal"
  BY HeldKinds
<1>4. /\ \A p \in Objects : Refers(holds, a, p, "external") = 0 /\ Refers(holds', a, p, "external") = 0
      /\ Refers(holds, a, b, "internal") = 1 /\ Refers(holds', a, b, "internal") = 0
  BY <1>1, <1>3 DEF Refers
<1>5. \A p \in Objects \ {b} : /\ Refers(holds', a, p, "internal") = Refers(holds, a, p, "internal")
                               /\ Refers(holds, a, p, "internal") \in Nat
  BY <1>1 DEF Refers
<1>6. \A p \in Objects : Holders(holds', p, "external") = Holders(holds, p, "external")
  BY <1>2, <1>4
<1>7. \A p \in Objects \ {b} : Holders(holds', p, "internal") = Holders(holds, p, "internal")
  BY <1>2, <1>5
<1>8. Holders(holds', b, "internal") = Holders(holds, b, "internal") - 1
  BY <1>2, <1>4
<1>9. QED
  BY <1>1, <1>6, <1>7, <1>8

(* vxRemoveNode.                                                           *)
LEMMA RemoveNodeKeeps ==
  ASSUME IInv, NEW t \in Threads, Ready(t), NEW g \in Graphs, NEW n \in Nodes, RemoveNode(t, g, n)
  PROVE  IInv'
<1> DEFINE y == Decrement(n, "internal")
           z == Decrement(n, "external")
           m == <<y, z>>
<1>1. /\ handles[t][n] > 0 /\ handles[t][g] > 0 /\ todo[t] = <<>> /\ context = "live"
      /\ <<g, n>> \in holds /\ Unlink(g, n)
      /\ Give(t, n) /\ todo' = [todo EXCEPT ![t] = m]
      /\ UNCHANGED <<context, phase, external, internal, reftable, num_references>>
  BY DEF RemoveNode, Ready, Has, Give, Unlink, counts, table
<1>2. TypeOK /\ g \in Objects /\ n \in Objects /\ g \notin Arrays /\ n \notin Items
  BY OneType DEF IInv
<1>3. phase[n] = "live" /\ external[n] > 0 /\ phase[g] = "live"
  BY <1>1, <1>2, HasCounted
<1>4. y \in Things /\ y.do = "decrement" /\ y.ref = n /\ y.kind = "internal"
  <2>1. y \in Things
    BY <1>2, ThingsTyped DEF Kinds
  <2>2. y.do = "decrement" /\ y.ref = n /\ y.kind = "internal"
    BY DEF Decrement
  <2>3. QED
    BY <2>1, <2>2
<1>5. z \in Things /\ z.do = "decrement" /\ z.ref = n /\ z.kind = "external"
  <2>1. z \in Things
    BY <1>2, ThingsTyped DEF Kinds
  <2>2. z.do = "decrement" /\ z.ref = n /\ z.kind = "external"
    BY DEF Decrement
  <2>3. QED
    BY <2>1, <2>2
<1> HIDE DEF y, z
<1>6. m \in Seq(Things) /\ Len(m) = 2 /\ m[1] = y /\ m[2] = z /\ \A W : Count(m, W) = In(y, W) + In(z, W)
  BY <1>4, <1>5, CountsOfShort
<1> HIDE DEF m
<1>7. /\ todo' \in [Threads -> Seq(Things)]
      /\ \A W : Often(todo', W) = Often(todo, W) + Count(m, W)
  BY <1>1, <1>2, <1>6, NewCounts
<1>8. \A W : Often(todo, W) \in Nat
  BY <1>2, TypesAre
<1>9. /\ \A p, k : Often(todo', Decrements(p, k)) =
           Often(todo, Decrements(p, k)) + (IF p = n /\ k = "internal" THEN 1 ELSE 0)
                                         + (IF p = n /\ k = "external" THEN 1 ELSE 0)
      /\ \A p \in Objects : Often(todo', IncrementsOf(p)) = Often(todo, IncrementsOf(p))
      /\ \A p \in Nodes : Often(todo', IncrementsBy(p)) = Often(todo, IncrementsBy(p))
      /\ \A p : Often(todo', TakeOuts(p)) = Often(todo, TakeOuts(p))
      /\ \A p : Often(todo', Frees(p)) = Often(todo, Frees(p))
      /\ \A p : Often(todo', Destructs(p)) = Often(todo, Destructs(p))
  <2>1. /\ \A p, k : In(y, Decrements(p, k)) = IF p = n /\ k = "internal" THEN 1 ELSE 0
        /\ \A p \in Objects : In(y, IncrementsOf(p)) = 0
        /\ \A p \in Nodes : In(y, IncrementsBy(p)) = 0
        /\ \A p : In(y, TakeOuts(p)) = 0
        /\ \A p : In(y, Frees(p)) = 0
        /\ \A p : In(y, Destructs(p)) = 0
    BY <1>4, InDecrement
  <2>2. /\ \A p, k : In(z, Decrements(p, k)) = IF p = n /\ k = "external" THEN 1 ELSE 0
        /\ \A p \in Objects : In(z, IncrementsOf(p)) = 0
        /\ \A p \in Nodes : In(z, IncrementsBy(p)) = 0
        /\ \A p : In(z, TakeOuts(p)) = 0
        /\ \A p : In(z, Frees(p)) = 0
        /\ \A p : In(z, Destructs(p)) = 0
    BY <1>5, InDecrement
  <2>3. QED
    BY <1>6, <1>7, <1>8, <2>1, <2>2
<1>10. /\ handles' \in [Threads -> [Objects -> 0 .. MaxHandles]]
       /\ \A u \in Threads, p \in Objects : handles'[u][p] > 0 => handles[u][p] > 0
       /\ \A u \in Threads, p \in Objects : u # t \/ p # n => handles'[u][p] = handles[u][p]
       /\ Hands(handles, n) > 0 /\ Hands(handles', n) = Hands(handles, n) - 1
       /\ \A p \in Objects \ {n} : Hands(handles', p) = Hands(handles, p)
  BY <1>1, <1>2, Given
<1>11. /\ holds' \subseteq Objects \X Objects
       /\ \A c, d : <<c, d>> \in holds' <=> <<c, d>> \in holds /\ ~ (c = g /\ d = n)
       /\ \A p \in Objects : Holders(holds', p, "external") = Holders(holds, p, "external")
       /\ \A p \in Objects \ {n} : Holders(holds', p, "internal") = Holders(holds, p, "internal")
       /\ Holders(holds', n, "internal") = Holders(holds, n, "internal") - 1
  BY <1>1, <1>2, Unlinked
<1>12. TypeOK'
  BY <1>1, <1>2, <1>7, <1>10, <1>11 DEF TypeOK
<1>13. TableInv'
  BY <1>1, <1>2, TableStays DEF IInv, table
<1>14. TodoInv'
  <2>1. \A j \in 1 .. 2 : j = 1 \/ j = 2
    OBVIOUS
  <2>2. \A j \in 1 .. Len(m) : m[j] = y \/ m[j] = z
    BY <1>6, <2>1
  <2>3. Shape(m)
    <3>1. DOMAIN m = 1 .. Len(m)
      BY <1>6, LenProperties
    <3>2. QED
      BY <1>4, <1>5, <2>2, <3>1 DEF Shape
  <2>4. Reason(handles', holds', phase', context', t, y) /\ Reason(handles', holds', phase', context', t, z)
    BY <1>1, <1>2, <1>3, <1>4, <1>5 DEF Reason
  <2>5. ASSUME NEW u \in Threads \ {t}, NEW i, i \in DOMAIN todo[u]
        PROVE  /\ Reason(handles', holds', phase', context', u, todo[u][i])
               /\ todo[u][i].do = "node" => <<todo[u][i + 1].ref, todo[u][i].ref>> \in holds'
    <3>1. \A v \in Threads \ {t} : \A p \in Objects : handles'[v][p] = handles[v][p]
      BY <1>10
    <3>2. /\ \A a, b : <<a, b>> \in holds' => <<a, b>> \in holds
          /\ \A a, b : <<a, b>> \in holds /\ a \notin Graphs => <<a, b>> \in holds'
      BY <1>11
    <3>3. Reason(handles', holds', phase', context', u, todo[u][i])
      BY <1>1, <2>5, <3>1, <3>2, OthersReasons
    <3>4. ASSUME todo[u][i].do = "node" PROVE <<todo[u][i + 1].ref, todo[u][i].ref>> \in holds'
      <4>1. /\ phase[todo[u][i + 1].ref] # "live"
            /\ <<todo[u][i + 1].ref, todo[u][i].ref>> \in holds
        BY <2>5, <3>4, NodeOfDyingGraph
      <4>2. QED
        BY <1>3, <1>11, <4>1
    <3>5. QED
      BY <3>3, <3>4
  <2>6. \A j \in 1 .. Len(m) : Reason(handles', holds', phase', context', t, m[j]) /\ m[j].do # "node"
    BY <1>4, <1>5, <2>2, <2>4
  <2>7. QED
    BY <1>1, <1>6, <2>3, <2>5, <2>6, TodoCalled
<1>15. OnceInv'
  BY <1>9 DEF IInv, OnceInv
<1>16. HoldsInv'
  BY <1>1, <1>9, <1>11 DEF IInv, HoldsInv
<1>17. PartsInv'
  BY <1>11, PartsKept DEF IInv
<1>18. HandlesInv'
  BY <1>1, <1>10 DEF IInv, HandlesInv
<1>19. CountInv'
  <2> SUFFICES ASSUME NEW p \in Objects PROVE CountOf(p)'
    BY DEF CountInv
  <2>1. CASE p = n
    <3>1. /\ external[p] = Hands(handles, p) + Holders(holds, p, "external")
                             + Often(todo, Decrements(p, "external"))
          /\ internal[p] + Often(todo, IncrementsOf(p))
               = Holders(holds, p, "internal") + Often(todo, Decrements(p, "internal"))
          /\ external[p] + internal[p] = 0 <=> Often(todo, TakeOuts(p)) > 0
          /\ Hands(handles, p) \in Nat
          /\ Holders(holds, p, "external") \in Nat /\ Holders(holds, p, "internal") \in Nat
          /\ \A W : Often(todo, W) \in Nat
      BY <1>1, <1>3, <2>1, Counts
    <3>2. /\ Often(todo', Decrements(p, "external")) = Often(todo, Decrements(p, "external")) + 1
          /\ Often(todo', Decrements(p, "internal")) = Often(todo, Decrements(p, "internal")) + 1
      BY <1>9, <2>1, <3>1
    <3>3. /\ Hands(handles', p) = Hands(handles, p) - 1
          /\ Holders(holds', p, "external") = Holders(holds, p, "external")
          /\ Holders(holds', p, "internal") = Holders(holds, p, "internal") - 1
      BY <1>10, <1>11, <2>1
    <3>4. external[p] = Hands(handles', p) + Holders(holds', p, "external")
                          + Often(todo', Decrements(p, "external"))
      BY <3>1, <3>2, <3>3
    <3>5. internal[p] + Often(todo, IncrementsOf(p))
               = Holders(holds', p, "internal") + Often(todo', Decrements(p, "internal"))
      BY <3>1, <3>2, <3>3
    <3>6. QED
      BY <1>1, <1>3, <1>9, <2>1, <3>1, <3>4, <3>5 DEF CountOf
  <2>2. CASE p # n
    <3>1. \A k \in Kinds : Often(todo', Decrements(p, k)) = Often(todo, Decrements(p, k))
      BY <1>8, <1>9, <2>2
    <3>2. \A k \in Kinds : Holders(holds', p, k) = Holders(holds, p, k)
      BY <1>11, <2>2 DEF Kinds
    <3>3. QED
      BY <1>1, <1>9, <1>10, <2>2, <3>1, <3>2, CountStays
  <2>3. QED
    BY <2>1, <2>2
<1>20. CollectInv'
  BY <1>1, NotCollecting
<1>21. QED
  BY <1>12, <1>13, <1>14, <1>15, <1>16, <1>17, <1>18, <1>19, <1>20 DEF IInv

(* vxReleaseContext begins to collect what there is.                       *)
LEMMA ReleaseContextKeeps ==
  ASSUME IInv, NEW t \in Threads, Ready(t), ReleaseContext(t)
  PROVE  IInv'
<1> DEFINE y == Collect(1)
<1>1. /\ context = "live" /\ context' = "collecting"
      /\ \A u \in Threads : todo[u] = <<>>
      /\ handles' = [u \in Threads |-> [o \in Objects |-> 0]]
      /\ todo' = [todo EXCEPT ![t] = <<y>>]
      /\ UNCHANGED <<phase, external, internal, reftable, num_references, holds>>
  BY DEF ReleaseContext, Ready, counts, table
<1>2. TypeOK
  BY DEF IInv
<1>3. y \in Things /\ y.do = "collect" /\ y.slot = 1
  <2>1. y \in Things
    BY ThingsTyped
  <2>2. y.do = "collect" /\ y.slot = 1
    BY DEF Collect
  <2>3. QED
    BY <2>1, <2>2
<1> HIDE DEF y
<1>4. <<y>> \in Seq(Things) /\ Len(<<y>>) = 1 /\ <<y>>[1] = y /\ \A W : Count(<<y>>, W) = In(y, W)
  BY <1>3, CountsOfShort
<1>5. /\ todo' \in [Threads -> Seq(Things)] /\ todo'[t] = <<y>>
      /\ \A u \in Threads \ {t} : todo'[u] = todo[u]
      /\ \A W : Often(todo', W) = Often(todo, W) + Count(<<y>>, W)
  BY <1>1, <1>2, <1>4, NewCounts
<1>6. \A W : Often(todo, W) \in Nat
  BY <1>2, TypesAre
<1>7. /\ \A p, k : Often(todo', Decrements(p, k)) = Often(todo, Decrements(p, k))
      /\ \A p \in Objects : Often(todo', IncrementsOf(p)) = Often(todo, IncrementsOf(p))
      /\ \A n \in Nodes : Often(todo', IncrementsBy(n)) = Often(todo, IncrementsBy(n))
      /\ \A p : Often(todo', TakeOuts(p)) = Often(todo, TakeOuts(p))
      /\ \A p : Often(todo', Frees(p)) = Often(todo, Frees(p))
      /\ \A p : Often(todo', Destructs(p)) = Often(todo, Destructs(p))
  <2>1. /\ \A p, k : In(y, Decrements(p, k)) = 0
        /\ \A p \in Objects : In(y, IncrementsOf(p)) = 0
        /\ \A n \in Nodes : In(y, IncrementsBy(n)) = 0
        /\ \A p : In(y, TakeOuts(p)) = 0
        /\ \A p : In(y, Frees(p)) = 0
        /\ \A p : In(y, Destructs(p)) = 0
    BY <1>3, InOther
  <2>2. QED
    BY <1>4, <1>5, <1>6, <2>1
<1>8. handles' \in [Threads -> [Objects -> 0 .. MaxHandles]] /\ \A u \in Threads, o \in Objects : handles'[u][o] = 0
  BY <1>1, BoundsAssumption
<1>9. TypeOK'
  BY <1>1, <1>2, <1>5, <1>8 DEF TypeOK
<1>10. TableInv'
  BY <1>1, <1>2, TableStays DEF IInv, table
<1>11. TodoInv'
  <2>1. \A j \in 1 .. Len(<<y>>) : j = 1 /\ <<y>>[j] = y
    BY <1>3, ShortPrecedes
  <2>2. \A j \in DOMAIN <<y>> : j = 1
    OBVIOUS
  <2>3. Shape(<<y>>)
    BY <1>3, <1>4, <2>2 DEF Shape
  <2>4. Reason(handles', holds', phase', context', t, y)
    BY <1>1, <1>3 DEF Reason
  <2>5. \A u \in Threads : \A i \in DOMAIN todo[u] : FALSE
    BY <1>1
  <2>6. todo[t] = <<>>
    BY <1>1
  <2>7. QED
    BY <1>1, <1>3, <1>4, <2>1, <2>3, <2>4, <2>5, <2>6, TodoCalled
<1>12. OnceInv'
  BY <1>7 DEF IInv, OnceInv
<1>13. HoldsInv'
  BY <1>1, <1>7 DEF IInv, HoldsInv
<1>14. PartsInv'
  BY <1>1, PartsKept DEF IInv
<1>15. HandlesInv'
  BY <1>8 DEF HandlesInv
<1>16. CountInv'
  <2> SUFFICES ASSUME NEW p \in Objects PROVE CountOf(p)'
    BY DEF CountInv
  <2>1. /\ phase[p] = "none" => internal[p] = 0
        /\ phase[p] = "live" =>
             /\ internal[p] + Often(todo, IncrementsOf(p))
                  = Holders(holds, p, "internal") + Often(todo, Decrements(p, "internal"))
             /\ external[p] + internal[p] = 0 <=> Often(todo, TakeOuts(p)) > 0
        /\ phase[p] = "dying" => Often(todo, Frees(p)) > 0
    BY Counts
  <2>2. QED
    BY <1>1, <1>7, <2>1 DEF CountOf
<1>17. CollectInv'
  <2>1. \A u \in Threads \ {t} : todo'[u] = <<>>
    BY <1>1, <1>5
  <2>2. <<y>> # <<>> /\ DOMAIN <<y>> = {1} /\ DOMAIN <<>> = {}
    OBVIOUS
  <2>3. ASSUME NEW u \in Threads, NEW i, i \in DOMAIN todo'[u]
        PROVE  u = t /\ i = 1 /\ todo'[u][i] = y
    BY <1>4, <1>5, <2>1, <2>2, <2>3
  <2>4. \A s \in Slots : ~ (s < y.slot)
    BY <1>3 DEF Slots
  <2>5. todo'[t] # <<>> /\ todo'[t][Len(todo'[t])] = y
    BY <1>4, <1>5, <2>2
  <2>6. /\ \E u \in Threads : todo'[u] # <<>> /\ todo'[u][Len(todo'[u])].do = "collect"
        /\ \A u, v \in Threads : todo'[u] # <<>> /\ todo'[v] # <<>> => u = v
    BY <1>3, <2>1, <2>5
  <2>7. QED
    BY <1>1, <1>3, <1>8, <2>3, <2>4, <2>6 DEF CollectInv
<1>18. QED
  BY <1>9, <1>10, <1>11, <1>12, <1>13, <1>14, <1>15, <1>16, <1>17 DEF IInv

(* A node's parameter becomes another object.                              *)
Sets(n, d) == holds' = (holds \ {<<n, o>> : o \in HeldBy(n)}) \cup {<<n, d>>}

LEMMA ParameterSet ==
  ASSUME TypeOK, NEW n \in Nodes, NEW d \in Parameters, Sets(n, d)
  PROVE  /\ holds' \subseteq Objects \X Objects
         /\ \A a, b : <<a, b>> \in holds' <=> (a # n /\ <<a, b>> \in holds) \/ (a = n /\ b = d)
         /\ \A p \in Objects : Holders(holds', p, "external") = Holders(holds, p, "external")
         /\ \A p \in Objects : Holders(holds', p, "internal") =
              Holders(holds, p, "internal") - (IF p \in HeldBy(n) THEN 1 ELSE 0) + (IF p = d THEN 1 ELSE 0)
<1>1. n \in Objects /\ d \in Objects /\ n \notin Arrays
  BY OneType
<1>2. /\ holds' \subseteq Objects \X Objects
      /\ \A a, b : <<a, b>> \in holds' <=> (a # n /\ <<a, b>> \in holds) \/ (a = n /\ b = d)
  <2>1. holds \subseteq Objects \X Objects
    BY DEF TypeOK
  <2>2. \A b : <<n, b>> \in holds => b \in HeldBy(n)
    BY <2>1 DEF HeldBy
  <2>3. QED
    BY <1>1, <2>1, <2>2 DEF Sets
<1>3. ASSUME NEW p \in Objects, NEW k
      PROVE  /\ Holders(holds, p, k) \in Nat /\ Holders(holds', p, k) \in Nat
             /\ Holders(holds', p, k) = Holders(holds, p, k) - Refers(holds, n, p, k) + Refers(holds', n, p, k)
  <2>1. SameBut(holds, holds', n, p)
    BY <1>2 DEF SameBut
  <2>2. QED
    BY <1>1, <2>1, HoldersOfChanged
<1>4. HeldKind(n) = "internal"
  BY <1>1, HeldKinds
<1>5. \A p \in Objects : Refers(holds, n, p, "external") = 0 /\ Refers(holds', n, p, "external") = 0
  BY <1>4 DEF Refers
<1>6. \A p \in Objects : /\ Refers(holds, n, p, "internal") = IF p \in HeldBy(n) THEN 1 ELSE 0
                         /\ Refers(holds', n, p, "internal") = IF p = d THEN 1 ELSE 0
  BY <1>2, <1>4 DEF Refers, HeldBy
<1>7. \A p \in Objects : Holders(holds', p, "external") = Holders(holds, p, "external")
  BY <1>3, <1>5
<1>8. \A p \in Objects : Holders(holds', p, "internal") =
        Holders(holds, p, "internal") - (IF p \in HeldBy(n) THEN 1 ELSE 0) + (IF p = d THEN 1 ELSE 0)
  BY <1>3, <1>6
<1>9. QED
  BY <1>2, <1>7, <1>8

(* One thread at a time sets a node's parameter.                           *)
LEMMA NoneIsSet ==
  ASSUME IInv, NEW t \in Threads, todo[t] = <<>>, NEW n \in Nodes, Exclusive(t, n)
  PROVE  /\ \A u \in Threads : \A i \in DOMAIN todo[u] :
              todo[u][i].do = "increment" => todo[u][i].by # n
         /\ Often(todo, IncrementsBy(n)) = 0
<1>1. TypeOK /\ todo \in [Threads -> Seq(Things)]
  BY DEF IInv, TypeOK
<1>2. ASSUME NEW u \in Threads, NEW i, i \in DOMAIN todo[u], todo[u][i].do = "increment"
      PROVE  todo[u][i].by # n
  <2>1. todo[u] # <<>>
    BY <1>1, <1>2, NotEmpty
  <2>2. u # t /\ handles[u][n] = 0
    BY <2>1 DEF Exclusive
  <2>3. Reason(handles, holds, phase, context, u, todo[u][i])
    BY <1>2 DEF IInv, TodoInv
  <2>4. handles[u][todo[u][i].by] > 0
    BY <1>2, <2>3 DEF Reason
  <2>5. QED
    BY <2>2, <2>4
<1>3. ASSUME NEW u \in Threads, NEW i \in DOMAIN todo[u]
      PROVE  todo[u][i] \notin IncrementsBy(n)
  <2>1. \A x \in IncrementsBy(n) : x.do = "increment" /\ x.by = n
    BY DEF IncrementsBy, Increment
  <2>2. QED
    BY <1>2, <2>1
<1>4. Often(todo, IncrementsBy(n)) = 0
  BY <1>1, <1>3, NeverDone
<1>5. QED
  BY <1>2, <1>4

(* The references to the old parameter are released, then the new one is   *)
(* counted.                                                                *)
Resets(n, d) == ListOf(HeldBy(n), "internal") \o <<Increment(n, d)>>

LEMMA ResetsAre ==
  ASSUME NEW n \in Nodes, NEW d \in Parameters
  PROVE  /\ Resets(n, d) \in Seq(Things) /\ Shape(Resets(n, d))
         /\ \A i \in 1 .. Len(Resets(n, d)) :
              \/ Resets(n, d)[i] = Increment(n, d)
              \/ \E p \in HeldBy(n) : Resets(n, d)[i] = Decrement(p, "internal")
         /\ \A p \in Objects, k \in Kinds :
              Count(Resets(n, d), Decrements(p, k)) = IF p \in HeldBy(n) /\ k = "internal" THEN 1 ELSE 0
         /\ \A p \in Objects : Count(Resets(n, d), IncrementsOf(p)) = IF p = d THEN 1 ELSE 0
         /\ \A p \in Nodes : Count(Resets(n, d), IncrementsBy(p)) = IF p = n THEN 1 ELSE 0
         /\ \A p : Count(Resets(n, d), TakeOuts(p)) = 0
         /\ \A p : Count(Resets(n, d), Frees(p)) = 0
         /\ \A p : Count(Resets(n, d), Destructs(p)) = 0
<1> DEFINE x == Increment(n, d)
           r == ListOf(HeldBy(n), "internal")
           s == <<x>>
<1>1. x \in Things
  BY ThingsTyped
<1>2. x.do = "increment" /\ x.ref = d /\ x.by = n
  BY DEF Increment
<1>3. HeldBy(n) \in SUBSET Objects /\ "internal" \in Kinds
  BY DEF HeldBy, Kinds
<1>4. /\ r \in Seq(Things)
      /\ \A i \in 1 .. Len(r) : \E p \in HeldBy(n) : r[i] = Decrement(p, "internal")
      /\ \A p \in Objects, k \in Kinds :
           Count(r, Decrements(p, k)) = IF p \in HeldBy(n) /\ k = "internal" THEN 1 ELSE 0
      /\ \A p \in Objects : Count(r, IncrementsOf(p)) = 0
      /\ \A p \in Nodes : Count(r, IncrementsBy(p)) = 0
      /\ \A p : Count(r, TakeOuts(p)) = 0
      /\ \A p : Count(r, Frees(p)) = 0
      /\ \A p : Count(r, Destructs(p)) = 0
  BY <1>3, DecrementsListed
<1> HIDE DEF x
<1>5. s \in Seq(Things) /\ Len(s) = 1 /\ s[1] = x /\ \A W : Count(s, W) = In(x, W)
  BY <1>1, CountsOfShort
<1>6. /\ \A p, k : In(x, Decrements(p, k)) = 0
      /\ \A p \in Objects : In(x, IncrementsOf(p)) = IF p = d THEN 1 ELSE 0
      /\ \A p \in Nodes : In(x, IncrementsBy(p)) = IF p = n THEN 1 ELSE 0
      /\ \A p : In(x, TakeOuts(p)) = 0
      /\ \A p : In(x, Frees(p)) = 0
      /\ \A p : In(x, Destructs(p)) = 0
  BY <1>1, <1>2, InIncrement
<1> HIDE DEF r, s
<1>7. Resets(n, d) = r \o s
  BY DEF Resets, r, s, x
<1> DEFINE m == r \o s
<1>8. m \in Seq(Things) /\ \A W : Count(m, W) = Count(r, W) + Count(s, W)
  <2>1. m \in Seq(Things)
    BY <1>4, <1>5
  <2>2. \A W : Count(m, W) = Count(r, W) + Count(s, W)
    BY <1>4, <1>5, CountOfConcat
  <2>3. QED
    BY <2>1, <2>2
<1>9. \A i \in 1 .. Len(m) : m[i] = x \/ \E p \in HeldBy(n) : m[i] = Decrement(p, "internal")
  <2>6. r \in Seq(Things) /\ s \in Seq(Things) /\ Len(s) = 1 /\ s[1] = x
    BY <1>4, <1>5
  <2>7. /\ Len(r) \in Nat /\ Len(r \o s) = Len(r) + Len(s)
        /\ \A i \in 1 .. Len(r) + Len(s) : (r \o s)[i] = IF i <= Len(r) THEN r[i] ELSE s[i - Len(r)]
    BY <2>6, ConcatProperties, LenProperties
  <2>1. Len(r) \in Nat /\ Len(m) = Len(r) + 1
    BY <2>6, <2>7
  <2>3. \A i \in 1 .. Len(r) : m[i] = r[i]
    BY <2>6, <2>7
  <2>4. m[Len(r) + 1] = s[1]
    <3>1. Len(r) + 1 \in 1 .. Len(r) + Len(s) /\ ~ (Len(r) + 1 <= Len(r)) /\ Len(r) + 1 - Len(r) = 1
      BY <2>6, <2>7
    <3>2. QED
      BY <2>7, <3>1
  <2>2. \A i \in 1 .. Len(m) : i \in 1 .. Len(r) \/ i = Len(r) + 1
    BY <2>1
  <2>5. QED
    BY <1>4, <1>5, <2>2, <2>3, <2>4
<1> HIDE DEF m
<1>10. Shape(m)
  <2>1. DOMAIN m = 1 .. Len(m)
    BY <1>8, LenProperties
  <2>2. \A p : Decrement(p, "internal").do = "decrement"
    BY DEF Decrement
  <2>3. \A i \in 1 .. Len(m) : m[i].do \in {"increment", "decrement"}
    BY <1>2, <1>9, <2>2
  <2>4. QED
    BY <2>1, <2>3 DEF Shape
<1>11. /\ \A p \in Objects, k \in Kinds :
            Count(m, Decrements(p, k)) = IF p \in HeldBy(n) /\ k = "internal" THEN 1 ELSE 0
       /\ \A p \in Objects : Count(m, IncrementsOf(p)) = IF p = d THEN 1 ELSE 0
       /\ \A p \in Nodes : Count(m, IncrementsBy(p)) = IF p = n THEN 1 ELSE 0
       /\ \A p : Count(m, TakeOuts(p)) = 0
       /\ \A p : Count(m, Frees(p)) = 0
       /\ \A p : Count(m, Destructs(p)) = 0
  BY <1>4, <1>5, <1>6, <1>8
<1>12. Resets(n, d) = m
  BY <1>7 DEF m
<1>13. QED
  BY <1>8, <1>9, <1>10, <1>11, <1>12 DEF x

(* The counts of the objects whose references a new parameter changes.     *)
LEMMA CountsReset ==
  ASSUME IInv, NEW n \in Nodes, NEW d \in Parameters, Sets(n, d), NEW p \in Objects,
         context' = context, phase' = phase, external' = external, internal' = internal, handles' = handles,
         \A k \in Kinds : Often(todo', Decrements(p, k)) =
             Often(todo, Decrements(p, k)) + (IF p \in HeldBy(n) /\ k = "internal" THEN 1 ELSE 0),
         Often(todo', IncrementsOf(p)) = Often(todo, IncrementsOf(p)) + (IF p = d THEN 1 ELSE 0),
         Often(todo', TakeOuts(p)) = Often(todo, TakeOuts(p)),
         Often(todo', Frees(p)) = Often(todo, Frees(p))
  PROVE  CountOf(p)'
<1> DEFINE a == Often(todo, Decrements(p, "internal"))
           b == Often(todo', Decrements(p, "internal"))
           c == Holders(holds, p, "internal")
           e == Holders(holds', p, "internal")
           f == Often(todo, IncrementsOf(p))
           g == Often(todo', IncrementsOf(p))
           h == IF p \in HeldBy(n) THEN 1 ELSE 0
           j == IF p = d THEN 1 ELSE 0
<1>1. /\ internal[p] \in Nat /\ a \in Nat /\ c \in Nat /\ f \in Nat
      /\ phase[p] = "none" => internal[p] = 0
      /\ phase[p] = "live" =>
           /\ context = "live" => external[p] = Hands(handles, p) + Holders(holds, p, "external")
                                                 + Often(todo, Decrements(p, "external"))
           /\ internal[p] + f = c + a
           /\ external[p] + internal[p] = 0 <=> Often(todo, TakeOuts(p)) > 0
      /\ phase[p] = "dying" => Often(todo, Frees(p)) > 0
  BY Counts
<1>2. Holders(holds', p, "external") = Holders(holds, p, "external") /\ e = c - h + j
  <2>1. TypeOK
    BY DEF IInv
  <2>2. QED
    BY <2>1, ParameterSet
<1>3. b = a + h /\ g = f + j /\ h \in Nat /\ j \in Nat
  BY DEF Kinds
<1>4. Often(todo', Decrements(p, "external")) = Often(todo, Decrements(p, "external"))
  <2>1. Often(todo, Decrements(p, "external")) \in Nat
    BY Counts
  <2>2. Often(todo', Decrements(p, "external")) = Often(todo, Decrements(p, "external")) + 0
    BY DEF Kinds
  <2>3. QED
    BY <2>1, <2>2
<1> HIDE DEF a, b, c, e, f, g, h, j
<1>5. internal[p] + f = c + a => internal[p] + g = e + b
  BY <1>1, <1>2, <1>3
<1>6. /\ phase[p] = "none" => internal[p] = 0
      /\ phase[p] = "live" =>
           /\ context = "live" => external[p] = Hands(handles, p) + Holders(holds', p, "external")
                                                 + Often(todo', Decrements(p, "external"))
           /\ internal[p] + g = e + b
           /\ external[p] + internal[p] = 0 <=> Often(todo', TakeOuts(p)) > 0
      /\ phase[p] = "dying" => Often(todo', Frees(p)) > 0
  BY <1>1, <1>2, <1>4, <1>5
<1>7. QED
  BY <1>6 DEF CountOf, b, e, g

(* vxSetParameterByIndex.                                                  *)
LEMMA SetParameterByIndexKeeps ==
  ASSUME IInv, NEW t \in Threads, Ready(t), NEW n \in Nodes, NEW d \in Parameters,
         SetParameterByIndex(t, n, d)
  PROVE  IInv'
<1> DEFINE m == Resets(n, d)
           x == Increment(n, d)
<1>1. /\ handles[t][n] > 0 /\ handles[t][d] > 0 /\ todo[t] = <<>> /\ context = "live"
      /\ \A g \in Graphs : <<g, n>> \in holds => handles[t][g] > 0
      /\ Exclusive(t, n) /\ Sets(n, d) /\ todo' = [todo EXCEPT ![t] = m]
      /\ UNCHANGED <<context, phase, external, internal, reftable, num_references, handles>>
  BY DEF SetParameterByIndex, Ready, Has, Sets, Resets, ListOf, counts, table
<1>2. /\ TypeOK /\ n \in Objects /\ d \in Objects /\ n \notin Arrays /\ n \notin Graphs /\ n \notin Regions
      /\ d \notin Items
  BY OneType DEF IInv
<1>3. phase[n] = "live" /\ phase[d] = "live"
  BY <1>1, <1>2, HasCounted
<1>4. /\ m \in Seq(Things) /\ Shape(m)
      /\ \A i \in 1 .. Len(m) : m[i] = x \/ \E p \in HeldBy(n) : m[i] = Decrement(p, "internal")
      /\ \A p \in Objects, k \in Kinds :
           Count(m, Decrements(p, k)) = IF p \in HeldBy(n) /\ k = "internal" THEN 1 ELSE 0
      /\ \A p \in Objects : Count(m, IncrementsOf(p)) = IF p = d THEN 1 ELSE 0
      /\ \A p \in Nodes : Count(m, IncrementsBy(p)) = IF p = n THEN 1 ELSE 0
      /\ \A p : Count(m, TakeOuts(p)) = 0
      /\ \A p : Count(m, Frees(p)) = 0
      /\ \A p : Count(m, Destructs(p)) = 0
  BY ResetsAre
<1>5. x.do = "increment" /\ x.ref = d /\ x.by = n
  BY DEF Increment
<1> HIDE DEF m, x
<1>6. /\ todo' \in [Threads -> Seq(Things)]
      /\ \A W : Often(todo', W) = Often(todo, W) + Count(m, W)
  BY <1>1, <1>2, <1>4, NewCounts
<1>7. \A W : Often(todo, W) \in Nat
  BY <1>2, TypesAre
<1>8. /\ \A p \in Objects, k \in Kinds : Often(todo', Decrements(p, k)) =
           Often(todo, Decrements(p, k)) + (IF p \in HeldBy(n) /\ k = "internal" THEN 1 ELSE 0)
      /\ \A p \in Objects : Often(todo', IncrementsOf(p)) =
           Often(todo, IncrementsOf(p)) + (IF p = d THEN 1 ELSE 0)
      /\ \A p \in Nodes : Often(todo', IncrementsBy(p)) =
           Often(todo, IncrementsBy(p)) + (IF p = n THEN 1 ELSE 0)
      /\ \A p : Often(todo', TakeOuts(p)) = Often(todo, TakeOuts(p))
      /\ \A p : Often(todo', Frees(p)) = Often(todo, Frees(p))
      /\ \A p : Often(todo', Destructs(p)) = Often(todo, Destructs(p))
  BY <1>4, <1>6, <1>7
<1>9. /\ \A u \in Threads : \A i \in DOMAIN todo[u] : todo[u][i].do = "increment" => todo[u][i].by # n
      /\ Often(todo, IncrementsBy(n)) = 0
  BY <1>1, NoneIsSet
<1>10. /\ holds' \subseteq Objects \X Objects
       /\ \A a, b : <<a, b>> \in holds' <=> (a # n /\ <<a, b>> \in holds) \/ (a = n /\ b = d)
  BY <1>1, <1>2, ParameterSet
<1>11. \A p \in HeldBy(n) : p \in Parameters /\ p \in Objects /\ p \notin Items /\ phase[p] = "live"
  <2> SUFFICES ASSUME NEW p \in HeldBy(n)
               PROVE  p \in Parameters /\ p \in Objects /\ p \notin Items /\ phase[p] = "live"
    OBVIOUS
  <2>1. p \in Objects /\ <<n, p>> \in holds
    BY DEF HeldBy
  <2>2. p \in Parameters /\ phase[p] = "live"
    BY <1>1, <1>2, <2>1, OneType DEF IInv, HoldsInv
  <2>3. QED
    BY <2>1, <2>2, OneType
<1>12. TypeOK'
  BY <1>1, <1>2, <1>6, <1>10 DEF TypeOK
<1>13. TableInv'
  BY <1>1, <1>2, TableStays DEF IInv, table
<1>14. TodoInv'
  <2>1. ASSUME NEW i \in 1 .. Len(m)
        PROVE  Reason(handles', holds', phase', context', t, m[i]) /\ m[i].do # "node"
    <3>1. CASE m[i] = x
      <4>1. /\ handles'[t][d] > 0 /\ handles'[t][n] > 0 /\ <<n, d>> \in holds'
            /\ \A g \in Graphs : <<g, n>> \in holds' => handles'[t][g] > 0
        BY <1>1, <1>2, <1>10
      <4>2. QED
        BY <1>5, <3>1, <4>1 DEF Reason
    <3>2. CASE \E p \in HeldBy(n) : m[i] = Decrement(p, "internal")
      <4>1. PICK p \in HeldBy(n) : m[i] = Decrement(p, "internal")
        BY <3>2
      <4>2. m[i].do = "decrement" /\ m[i].ref = p
        BY <4>1 DEF Decrement
      <4>3. phase'[p] = "live" /\ p \notin Items
        BY <1>1, <1>11
      <4>4. QED
        BY <4>2, <4>3 DEF Reason
    <3>3. QED
      BY <1>4, <3>1, <3>2
  <2>2. ASSUME NEW u \in Threads \ {t}, NEW i, i \in DOMAIN todo[u]
        PROVE  /\ Reason(handles', holds', phase', context', u, todo[u][i])
               /\ todo[u][i].do = "node" => <<todo[u][i + 1].ref, todo[u][i].ref>> \in holds'
    <3> DEFINE y == todo[u][i]
    <3>1. y \in Things /\ Reason(handles, holds, phase, context, u, y)
      BY <1>2, <2>2, Entries DEF IInv, TodoInv
    <3>2. y.do = "increment" => y.by # n
      BY <1>9, <2>2
    <3>3. y.do = "node" => <<todo[u][i + 1].ref, y.ref>> \in holds'
      <4> SUFFICES ASSUME y.do = "node" PROVE <<todo[u][i + 1].ref, y.ref>> \in holds'
        OBVIOUS
      <4>1. todo[u][i + 1].ref \in Graphs /\ <<todo[u][i + 1].ref, y.ref>> \in holds
        BY <2>2, NodeOfDyingGraph
      <4>2. QED
        BY <1>2, <1>10, <4>1
    <3> HIDE DEF y
    <3>4. y.do = "increment" =>
            /\ handles'[u][y.ref] > 0 /\ handles'[u][y.by] > 0 /\ <<y.by, y.ref>> \in holds'
            /\ \A g \in Graphs : <<g, y.by>> \in holds' => handles'[u][g] > 0
      BY <1>1, <1>2, <1>10, <3>1, <3>2 DEF Reason
    <3>5. y.do = "item" => handles'[u][y.ref] > 0
      BY <1>1, <3>1 DEF Reason
    <3>6. Reason(handles', holds', phase', context', u, y)
      BY <1>1, <3>1, <3>4, <3>5, ReasonStays
    <3>7. QED
      BY <3>3, <3>6 DEF y
  <2>3. QED
    BY <1>1, <1>4, <2>1, <2>2, TodoCalled
<1>15. OnceInv'
  <2>1. \A o \in Objects : Often(todo', TakeOuts(o)) <= 1 /\ Often(todo', Frees(o)) <= 1
    BY <1>8 DEF IInv, OnceInv
  <2>2. ASSUME NEW p \in Nodes PROVE Often(todo', IncrementsBy(p)) <= 1
    <3>1. Often(todo, IncrementsBy(p)) <= 1 /\ Often(todo, IncrementsBy(p)) \in Nat
      BY <1>7 DEF IInv, OnceInv
    <3>2. QED
      BY <1>8, <1>9, <3>1
  <2>3. QED
    BY <2>1, <2>2 DEF OnceInv
<1>16. HoldsInv'
  <2>1. ASSUME NEW a \in Objects, NEW b \in Objects, <<a, b>> \in holds'
        PROVE  /\ \/ a \in Graphs /\ b \in Nodes
                  \/ a \in Nodes /\ b \in Parameters
                  \/ a \in Regions /\ b \in Images \cup Regions
                  \/ a \in Arrays /\ b \in Items
               /\ phase'[a] # "live" => a \in Graphs /\ Often(todo', Destructs(a)) > 0
               /\ phase'[b] # "live" => context' = "collecting" /\ a \in Arrays
    <3>1. CASE a = n /\ b = d
      BY <1>1, <1>3, <3>1
    <3>2. CASE <<a, b>> \in holds
      BY <1>1, <1>8, <3>2 DEF IInv, HoldsInv
    <3>3. QED
      BY <1>10, <2>1, <3>1, <3>2
  <2>2. ASSUME NEW p \in Nodes, NEW g \in Graphs, NEW k \in Graphs,
               <<g, p>> \in holds', <<k, p>> \in holds'
        PROVE  g = k
    <3>1. <<g, p>> \in holds /\ <<k, p>> \in holds
      BY <1>2, <1>10, <2>2
    <3>2. QED
      BY <3>1 DEF IInv, HoldsInv
  <2>3. QED
    BY <2>1, <2>2 DEF HoldsInv
<1>17. PartsInv'
  <2>1. \A p, r \in Regions : <<p, r>> \in holds' => <<p, r>> \in holds
    BY <1>2, <1>10
  <2>2. QED
    BY <2>1, PartsKept DEF IInv
<1>18. HandlesInv'
  BY <1>1 DEF IInv, HandlesInv
<1>19. CountInv'
  <2> SUFFICES ASSUME NEW p \in Objects PROVE CountOf(p)'
    BY DEF CountInv
  <2>1. QED
    BY <1>1, <1>8, CountsReset
<1>20. CollectInv'
  BY <1>1, NotCollecting
<1>21. QED
  BY <1>12, <1>13, <1>14, <1>15, <1>16, <1>17, <1>18, <1>19, <1>20 DEF IInv

-----------------------------------------------------------------------------
(* The inductive invariant. *)

(* At first nothing exists, and nothing is to be done.                     *)
LEMMA InitHolds == Init => IInv
<1> SUFFICES ASSUME Init PROVE IInv
  OBVIOUS
<1>1. /\ context = "live" /\ phase = [o \in Objects |-> "none"]
      /\ external = [o \in Objects |-> 0] /\ internal = [o \in Objects |-> 0]
      /\ reftable = [s \in Slots |-> Null] /\ num_references = 0 /\ holds = {}
      /\ handles = [t \in Threads |-> [o \in Objects |-> 0]]
      /\ todo = [t \in Threads |-> <<>>]
  BY DEF Init
<1>2. MaxHandles \in Nat /\ NumSlots \in Nat /\ Null \notin Objects
  BY BoundsAssumption, ObjectsAssumption
<1>3. <<>> \in Seq(Things) /\ DOMAIN <<>> = {} /\ Len(<<>>) = 0
  OBVIOUS
<1>4. TypeOK
  <2>1. todo \in [Threads -> Seq(Things)]
    BY <1>1, <1>3
  <2>2. handles \in [Threads -> [Objects -> 0 .. MaxHandles]]
    BY <1>1, <1>2
  <2>3. QED
    BY <1>1, <1>2, <2>1, <2>2 DEF TypeOK
<1>5. \A t \in Threads : DOMAIN todo[t] = {} /\ todo[t] = <<>>
  BY <1>1, <1>3
<1>6. TableInv
  <2>1. \A o \in Objects : Entry(o) = {}
    BY <1>1, <1>2 DEF Entry
  <2>2. {s \in Slots : reftable[s] # Null} = {}
    BY <1>1
  <2>3. QED
    BY <1>1, <2>1, <2>2, FS_EmptySet DEF TableInv
<1>7. TodoInv
  BY <1>5 DEF TodoInv, Shape
<1>8. \A W : Often(todo, W) = 0
  BY <1>4, <1>5, NeverDone DEF TypeOK
<1>9. OnceInv
  BY <1>8 DEF OnceInv
<1>10. HoldsInv
  BY <1>1 DEF HoldsInv
<1>11. PartsInv
  BY <1>1 DEF PartsInv
<1>12. HandlesInv
  BY <1>1 DEF HandlesInv
<1>13. CountInv
  BY <1>1 DEF CountInv, CountOf
<1>14. CollectInv
  BY <1>1 DEF CollectInv
<1>15. QED
  BY <1>4, <1>6, <1>7, <1>9, <1>10, <1>11, <1>12, <1>13, <1>14 DEF IInv

(* Nothing happens.                                                        *)
LEMMA StutterKeeps ==
  ASSUME IInv, UNCHANGED vars
  PROVE  IInv'
<1>1. /\ context' = context /\ phase' = phase /\ external' = external /\ internal' = internal
      /\ reftable' = reftable /\ num_references' = num_references
      /\ holds' = holds /\ handles' = handles /\ todo' = todo
  BY DEF vars
<1>2. TypeOK'
  BY <1>1 DEF IInv, TypeOK
<1>3. TableInv'
  BY <1>1 DEF IInv, TableInv, Entry
<1>4. TodoInv'
  BY <1>1 DEF IInv, TodoInv
<1>5. OnceInv'
  BY <1>1 DEF IInv, OnceInv
<1>6. HoldsInv'
  BY <1>1 DEF IInv, HoldsInv
<1>7. PartsInv'
  BY <1>1 DEF IInv, PartsInv
<1>8. HandlesInv'
  BY <1>1 DEF IInv, HandlesInv
<1>9. CountInv'
  BY <1>1 DEF IInv, CountInv, CountOf
<1>10. CollectInv'
  BY <1>1 DEF IInv, CollectInv
<1>11. QED
  BY <1>2, <1>3, <1>4, <1>5, <1>6, <1>7, <1>8, <1>9, <1>10 DEF IInv

(* A call of the application.                                              *)
LEMMA CallKeeps ==
  ASSUME IInv, NEW t \in Threads, Call(t)
  PROVE  IInv'
<1>1. Ready(t)
  BY DEF Call
<1>2. /\ Graphs \subseteq Objects /\ Nodes \subseteq Objects /\ Images \subseteq Objects
      /\ Regions \subseteq Objects /\ Arrays \subseteq Objects /\ Items \subseteq Objects
  BY OneType
<1>3. CASE \E o \in Graphs \cup Images : Create(t, o)
  BY <1>1, <1>2, <1>3, CreateKeeps
<1>4. CASE \E o \in Objects, u \in Threads : RetainReference(t, u, o)
  BY <1>4, RetainReferenceKeeps
<1>5. CASE \E o \in Objects : ReleaseReference(t, o)
  BY <1>1, <1>5, ReleaseReferenceKeeps
<1>6. CASE \E o \in Regions, p \in Images \cup Regions : CreateImageFromROI(t, o, p)
  BY <1>1, <1>6, CreateImageFromROIKeeps
<1>7. CASE \E g \in Graphs, n \in Nodes : CreateGenericNode(t, g, n)
  BY <1>1, <1>7, CreateGenericNodeKeeps
<1>8. CASE \E g \in Graphs, n \in Nodes : RemoveNode(t, g, n)
  BY <1>1, <1>8, RemoveNodeKeeps
<1>9. CASE \E n \in Nodes, d \in Parameters : SetParameterByIndex(t, n, d)
  BY <1>1, <1>9, SetParameterByIndexKeeps
<1>10. CASE \E h \in {p \in holds : p[1] \in Nodes \cup Arrays} : GetHeld(t, h[1], h[2])
  <2>1. PICK h \in holds : GetHeld(t, h[1], h[2])
    BY <1>10
  <2>2. h[1] \in Objects /\ h[2] \in Objects /\ h = <<h[1], h[2]>>
    BY <2>1 DEF IInv, TypeOK
  <2>3. <<h[1], h[2]>> \in holds
    BY <2>1, <2>2
  <2>4. QED
    BY <1>1, <2>1, <2>2, <2>3, GetHeldKeeps
<1>11. CASE \E a \in Arrays, i \in Items : CreateObjectArray(t, a, i)
  BY <1>1, <1>11, CreateObjectArrayKeeps
<1>12. CASE ReleaseContext(t)
  BY <1>1, <1>12, ReleaseContextKeeps
<1>13. QED
  BY <1>3, <1>4, <1>5, <1>6, <1>7, <1>8, <1>9, <1>10, <1>11, <1>12 DEF Call

(* Every call and every step of one preserves the invariant.               *)
LEMMA NextKeeps == IInv /\ [Next]_vars => IInv'
<1> SUFFICES ASSUME IInv, [Next]_vars PROVE IInv'
  OBVIOUS
<1>1. CASE UNCHANGED vars
  BY <1>1, StutterKeeps
<1>2. ASSUME NEW t \in Threads, Call(t) PROVE IInv'
  BY <1>2, CallKeeps
<1>3. ASSUME NEW t \in Threads, Step(t) PROVE IInv'
  BY <1>3, DecrementKeeps, IncrementKeeps, RemoveReferenceKeeps, FreeKeeps, DestructNextNodeKeeps,
     UnlinkNodeKeeps, InitObjectArrayKeeps, InitObjectArrayFailsKeeps, CollectNextKeeps DEF Step
<1>4. QED
  BY <1>1, <1>2, <1>3 DEF Next

(* The inductive invariant holds in every state of the module.             *)
THEOREM ReferencesInvariant == Spec => []IInv
<1>1. Init => IInv
  BY InitHolds
<1>2. IInv /\ [Next]_vars => IInv'
  BY NextKeeps
<1>3. QED
  BY <1>1, <1>2, PTL DEF Spec

-----------------------------------------------------------------------------
(* The properties. *)

(* The table of the context has the objects that exist and were not        *)
(* removed, once each, and counts its entries: ownAddReference and         *)
(* ownRemoveReference.                                                     *)
THEOREM TheTableIsComplete == Spec => []TableIsComplete
<1>1. IInv => TableIsComplete
  BY DEF IInv, TableInv, TableIsComplete
<1>2. QED
  BY <1>1, ReferencesInvariant, PTL

(* While the context is in use the counts of an object are exactly the     *)
(* references that exist, of the application, of other objects and of      *)
(* releases under way, and an object is taken out of the table when both   *)
(* are zero, by one thread: vxIncrementReference, vxDecrementReference.    *)
THEOREM TheCountsMatchTheHolders == Spec => []CountsMatchHolders
<1>1. IInv => CountsMatchHolders
  <2> SUFFICES ASSUME IInv, context = "live", NEW o \in Objects, phase[o] = "live"
               PROVE  /\ external[o] = Cardinality(Handed(o)) + Cardinality(HoldersOf(o, "external"))
                                         + Cardinality(Pending({Decrement(o, "external")}))
                      /\ internal[o] + Cardinality(Pending({Increment(n, o) : n \in Nodes}))
                           = Cardinality(HoldersOf(o, "internal"))
                               + Cardinality(Pending({Decrement(o, "internal")}))
                      /\ Cardinality(Pending({TakeOut(o)})) = IF external[o] + internal[o] = 0 THEN 1 ELSE 0
    BY DEF CountsMatchHolders
  <2>1. /\ \A W : Cardinality(Pending(W)) = Often(todo, W)
        /\ Cardinality(Handed(o)) = Hands(handles, o)
        /\ \A k : Cardinality(HoldersOf(o, k)) = Holders(holds, o, k)
    BY DEF Pending, Often, Handed, Hands, HoldersOf, Holders
  <2>2. /\ external[o] = Hands(handles, o) + Holders(holds, o, "external")
                           + Often(todo, Decrements(o, "external"))
        /\ internal[o] + Often(todo, IncrementsOf(o))
             = Holders(holds, o, "internal") + Often(todo, Decrements(o, "internal"))
        /\ external[o] + internal[o] = 0 <=> Often(todo, TakeOuts(o)) > 0
        /\ Often(todo, TakeOuts(o)) \in Nat
    BY Counts
  <2>3. Often(todo, TakeOuts(o)) <= 1
    BY DEF IInv, OnceInv
  <2>4. Often(todo, TakeOuts(o)) = IF external[o] + internal[o] = 0 THEN 1 ELSE 0
    <3> DEFINE c == Often(todo, TakeOuts(o))
    <3>1. c \in Nat /\ c <= 1 /\ (external[o] + internal[o] = 0 <=> c > 0)
      BY <2>2, <2>3
    <3> HIDE DEF c
    <3>2. c = IF external[o] + internal[o] = 0 THEN 1 ELSE 0
      BY <3>1
    <3>3. QED
      BY <3>2 DEF c
  <2>5. external[o] = Cardinality(Handed(o)) + Cardinality(HoldersOf(o, "external"))
                        + Cardinality(Pending(Decrements(o, "external")))
    BY <2>1, <2>2
  <2>6. internal[o] + Cardinality(Pending(IncrementsOf(o)))
          = Cardinality(HoldersOf(o, "internal")) + Cardinality(Pending(Decrements(o, "internal")))
    BY <2>1, <2>2
  <2>7. Cardinality(Pending(TakeOuts(o))) = IF external[o] + internal[o] = 0 THEN 1 ELSE 0
    BY <2>1, <2>4
  <2>8. QED
    BY <2>5, <2>6, <2>7 DEF Decrements, IncrementsOf, TakeOuts
<1>2. QED
  BY <1>1, ReferencesInvariant, PTL

(* Nothing refers to an object that is destroyed: ownReleaseReferenceInt.  *)
THEOREM NoReferenceDangles == Spec => []NothingDangles
<1>1. IInv => NothingDangles
  <2> SUFFICES ASSUME IInv PROVE NothingDangles
    OBVIOUS
  <2>1. TypeOK /\ todo \in [Threads -> Seq(Things)]
    BY DEF IInv, TypeOK
  <2>2. \A t \in Threads, o \in Objects : handles[t][o] > 0 => phase[o] = "live"
    BY DEF IInv, HandlesInv
  <2>3. ASSUME NEW h \in holds, phase[h[2]] # "live"
        PROVE  context = "collecting" /\ h[1] \in Arrays
    <3>1. h[1] \in Objects /\ h[2] \in Objects /\ h = <<h[1], h[2]>>
      BY <2>1 DEF TypeOK
    <3>2. <<h[1], h[2]>> \in holds
      BY <3>1
    <3>3. QED
      BY <2>3, <3>1, <3>2 DEF IInv, HoldsInv
  <2>4. ASSUME NEW t \in Threads, NEW i, i \in DOMAIN todo[t],
               todo[t][i].do \in {"decrement", "increment", "take out"},
               phase[todo[t][i].ref] # "live"
        PROVE  context = "collecting" /\ todo[t][i].ref \in Items
    <3> DEFINE x == todo[t][i]
    <3>1. x \in Things /\ Reason(handles, holds, phase, context, t, x)
      BY <2>1, <2>4, Entries DEF IInv, TodoInv
    <3>2. x.do \in {"decrement", "increment", "take out"} /\ phase[x.ref] # "live"
      BY <2>4
    <3> HIDE DEF x
    <3>3. x.do # "increment"
      <4> SUFFICES ASSUME x.do = "increment" PROVE FALSE
        OBVIOUS
      <4>1. x.ref \in Objects /\ handles[t][x.ref] > 0
        BY <3>1, ThingsOf, OneType DEF Reason
      <4>2. QED
        BY <2>2, <3>2, <4>1
    <3>4. context = "collecting" /\ x.ref \in Items
      BY <3>1, <3>2, <3>3 DEF Reason
    <3>5. QED
      BY <3>4 DEF x
  <2>5. QED
    BY <2>2, <2>3, <2>4 DEF NothingDangles
<1>2. QED
  BY <1>1, ReferencesInvariant, PTL

(* When vxReleaseContext has returned every object was freed.              *)
THEOREM EverythingIsCollected == Spec => []CollectedAtTheEnd
<1>1. IInv => CollectedAtTheEnd
  <2> SUFFICES ASSUME IInv, context = "gone"
               PROVE  (\A o \in Objects : phase[o] \in {"none", "freed"}) /\ num_references = 0
    BY DEF CollectedAtTheEnd
  <2>1. \A o \in Objects : phase[o] \in {"none", "freed"}
    BY DEF IInv, CollectInv
  <2>2. ASSUME NEW s \in Slots PROVE reftable[s] = Null
    <3> SUFFICES ASSUME reftable[s] # Null PROVE FALSE
      OBVIOUS
    <3>1. reftable[s] \in Objects
      BY DEF IInv, TypeOK
    <3>2. phase[reftable[s]] = "live"
      <4>1. Cardinality(Entry(reftable[s])) = IF phase[reftable[s]] = "live" THEN 1 ELSE 0
        BY <3>1 DEF IInv, TableInv
      <4>2. s \in Entry(reftable[s]) /\ IsFiniteSet(Entry(reftable[s]))
        <5>1. Entry(reftable[s]) \subseteq Slots /\ s \in Entry(reftable[s])
          BY DEF Entry
        <5>2. QED
          BY <5>1, SlotsFinite, FS_Subset
      <4>3. Cardinality(Entry(reftable[s])) # 0
        BY <4>2, FS_EmptySet
      <4>4. QED
        BY <4>1, <4>3
    <3>3. QED
      BY <2>1, <3>1, <3>2
  <2>3. {s \in Slots : reftable[s] # Null} = {}
    BY <2>2
  <2>4. num_references = 0
    BY <2>3, FS_EmptySet DEF IInv, TableInv
  <2>5. QED
    BY <2>1, <2>4
<1>2. QED
  BY <1>1, ReferencesInvariant, PTL
=============================================================================
