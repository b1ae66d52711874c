------------------------- MODULE GraphExecute_proofs -------------------------
(***************************************************************************)
(* The properties of GraphExecute, for any objects and overlaps of their   *)
(* memory, any catalog of nodes and any number of nodes in the graph.      *)
(*                                                                         *)
(* The sorting keeps its promise of every graph that can be built.  Those  *)
(* of the verification and of the execution are proved of graphs that stay *)
(* as they were verified and of kernels that can be deinitialized          *)
(* (Settled): without either the code does not keep them.                  *)
(*                                                                         *)
(* VerifyInv says what a verified graph is, heads included; BatchInv says  *)
(* how the lists of vxExecuteGraph account for its nodes: each is in at    *)
(* most one of them, those of a batch have their producers behind them,    *)
(* and one that waits, with a producer that has run, is among those left.  *)
(*                                                                         *)
(* In this order: the lists of nodes and what feeds what; the walk that    *)
(* looks for cycles; the sorting; building, verifying, executing.          *)
(***************************************************************************)
EXTENDS GraphExecute, FiniteSetTheorems, FunctionTheorems, WellFoundedInduction,
        NaturalsInduction, TLAPS

(* The graph is not changed while it is verified, and no deinitializer     *)
(* fails.                                                                  *)
Settled == ~Rebinds /\ ~DeinitFails

(* Lists of nodes, each with its parameters.                               *)
Lists == Seq(Seq(Params) \ {<<>>})

(* No memory is written by two nodes.                                      *)
SingleWriters(list) ==
  \A m, n \in DOMAIN list : \A r \in Writes(list, m), s \in Writes(list, n) :
    m # n => ~Touches(r, s)

(* What the verification promises of the graph it verified.                *)
VerifyInv ==
  verified => /\ ~Missing(nodes) /\ SingleWriters(nodes) /\ Acyclic(nodes)
              /\ heads = Heads(nodes)

(* One if a node has been executed in this call.                           *)
Done(n) == IF n \in executed THEN 1 ELSE 0

(* Each node is to be taken, or running, or executed, or none of these; it *)
(* runs once its producers have; and the nodes that are ready next are     *)
(* children of the batch or left from before.                              *)
BatchInv ==
  /\ \A n \in Nodes : todo[n] + running[n] + Done(n) <= 1
  /\ \A n \in Nodes : runs[n] = running[n] + Done(n)
  /\ Listed(todo) \cup Listed(running) \subseteq Listed(next)
  /\ Listed(next) \subseteq Listed(todo) \cup Listed(running) \cup executed
  /\ Listed(next) \cup executed = visited \cup heads
  /\ \A n \in Listed(next) : Producers(nodes, n) \subseteq executed
  /\ left \cap heads = {}
  /\ \A n \in Nodes \ (visited \cup heads) :
       Producers(nodes, n) \cap (executed \ Listed(next)) # {} => n \in left

(* Nothing is left of an execution that ended, one that was not abandoned  *)
(* has executed every node, and a batch is in step.                        *)
ExecInv ==
  /\ pc = "idle" => left = {} /\ visited = {} /\ executed = {} /\ action = "CONTINUE"
  /\ pc # "idle" => verified /\ \A n \in Nodes : runs[n] <= 1
  /\ pc = "end" /\ action = "CONTINUE" => executed = Nodes
  /\ pc = "batch" => BatchInv

(* The inductive invariant.                                                *)
IInv == TypeOK /\ VerifyInv /\ ExecInv

(* Memory is shared in both directions.                                    *)
LEMMA TouchesBoth ==
  ASSUME NEW r \in Refs \cup {NoRef}, NEW s \in Refs \cup {NoRef}
  PROVE  Touches(r, s) <=> Touches(s, r)
  BY RefsAssumption, OverlapsAssumption DEF Touches

(* The parameters of a node have their types.                              *)
LEMMA ReferencesOf ==
  ASSUME NEW list \in Lists, NEW n \in DOMAIN list
  PROVE  /\ Reads(list, n) \subseteq Refs \cup {NoRef}
         /\ Writes(list, n) \subseteq Refs \cup {NoRef}
         /\ DOMAIN list[n] = 1 .. Len(list[n]) /\ Len(list[n]) \in Nat
         /\ \A p \in DOMAIN list[n] : list[n][p] \in Params
<1>1. /\ list[n] \in Seq(Params) /\ DOMAIN list[n] = 1 .. Len(list[n]) /\ Len(list[n]) \in Nat
      /\ \A p \in DOMAIN list[n] : list[n][p] \in Params
  BY DEF Lists
<1>2. QED
  BY <1>1 DEF Reads, Writes, Params

(* The children of a node are those it feeds.                              *)
LEMMA ChildrenAreFed ==
  ASSUME NEW list \in Lists, NEW m \in DOMAIN list, NEW n \in DOMAIN list
  PROVE  n \in Children(list, m) <=> Feeds(list, m, n)
<1>1. \A q \in DOMAIN list[n] : list[n][q].ref \in Refs \cup {NoRef}
  BY ReferencesOf DEF Params
<1>2. \A r \in Writes(list, m) : r \in Refs \cup {NoRef}
  BY ReferencesOf
<1>3. n \in Children(list, m) <=>
        \E r \in Writes(list, m) : \E q \in DOMAIN list[n] :
          list[n][q].dir = "in" /\ Touches(list[n][q].ref, r)
  BY DEF Children, NodesWith
<1>4. Feeds(list, m, n) <=>
        \E r \in Writes(list, m) : \E q \in DOMAIN list[n] :
          list[n][q].dir = "in" /\ Touches(r, list[n][q].ref)
  BY DEF Feeds, Reads
<1>5. QED
  BY <1>1, <1>2, <1>3, <1>4, TouchesBoth

(* The producers of a node are those that feed it.                         *)
LEMMA ProducersFeed ==
  ASSUME NEW list \in Lists, NEW m \in DOMAIN list, NEW n \in DOMAIN list
  PROVE  m \in Producers(list, n) <=> Feeds(list, m, n)
<1>1. \A q \in DOMAIN list[m] : list[m][q].dir \in Dirs
  BY ReferencesOf DEF Params
<1>2. m \in Producers(list, n) <=>
        \E s \in Reads(list, n) : \E q \in DOMAIN list[m] :
          list[m][q].dir \in {"out", "bi"} /\ Touches(list[m][q].ref, s)
  BY DEF Producers, NodesWith
<1>3. Feeds(list, m, n) <=>
        \E s \in Reads(list, n) : \E q \in DOMAIN list[m] :
          list[m][q].dir # "in" /\ Touches(list[m][q].ref, s)
  BY DEF Feeds, Writes
<1>4. QED
  BY <1>1, <1>2, <1>3 DEF Dirs

(* Children and producers are nodes of the list.                           *)
LEMMA NeighboursAreNodes ==
  ASSUME NEW list, NEW n
  PROVE  Children(list, n) \subseteq DOMAIN list /\ Producers(list, n) \subseteq DOMAIN list
  BY DEF Children, Producers, NodesWith

(* In a graph without cycles a node does not feed itself, and so a head    *)
(* has no producers.                                                       *)
LEMMA HeadsReadNothing ==
  ASSUME NEW list \in Lists, Acyclic(list), NEW n \in Heads(list)
  PROVE  n \in DOMAIN list /\ Producers(list, n) = {}
<1>1. n \in DOMAIN list /\ Producers(list, n) \subseteq {n}
  BY DEF Heads
<1>2. {n} \in (SUBSET DOMAIN list) \ {{}}
  BY <1>1
<1>3. ~Feeds(list, n, n)
  BY <1>2 DEF Acyclic
<1>4. QED
  BY <1>1, <1>3, ProducersFeed

(* The scan for a second writer sees every parameter of one of the two     *)
(* nodes.                                                                  *)
LEMMA ScanFindsWriters ==
  ASSUME NEW list \in Lists, ~MultipleWriters(list)
  PROVE  SingleWriters(list)
<1> SUFFICES ASSUME NEW m \in DOMAIN list, NEW n \in DOMAIN list, m # n,
                    NEW r \in Writes(list, m), NEW s \in Writes(list, n), Touches(r, s)
             PROVE  FALSE
  BY DEF SingleWriters
<1>1. PICK p \in DOMAIN list[m] : list[m][p].dir # "in" /\ list[m][p].ref = r
  BY DEF Writes
<1>2. PICK q \in DOMAIN list[n] : list[n][q].dir # "in" /\ list[n][q].ref = s
  BY DEF Writes
<1>3. /\ DOMAIN list[m] = 1 .. Len(list[m]) /\ Len(list[m]) \in Nat
      /\ DOMAIN list[n] = 1 .. Len(list[n]) /\ Len(list[n]) \in Nat
      /\ r \in Refs \cup {NoRef} /\ s \in Refs \cup {NoRef}
  BY ReferencesOf
<1>4. CASE q \in DOMAIN list[m]
  BY <1>2, <1>4 DEF MultipleWriters
<1>5. CASE p \in DOMAIN list[n]
  <2>1. Touches(s, r)
    BY <1>3, TouchesBoth
  <2>2. QED
    BY <1>1, <1>5, <2>1 DEF MultipleWriters
<1>6. QED
  BY <1>3, <1>4, <1>5

-----------------------------------------------------------------------------
(* Induction and recursion up to a number. *)

(* A set of natural numbers has a least one.                               *)
LEMMA LeastNumber ==
  ASSUME NEW S \in SUBSET Nat, S # {}
  PROVE  \E x \in S : \A y \in S : x <= y
<1>1. PICK x \in S : \A y \in S : ~ (<<y, x>> \in OpToRel(<, Nat))
  BY NatLessThanWellFounded, WFMin
<1>2. ASSUME NEW y \in S PROVE x <= y
  <2>1. <<y, x>> \in Nat \X Nat /\ <<y, x>>[1] = y /\ <<y, x>>[2] = x
    OBVIOUS
  <2>2. <<y, x>> \in OpToRel(<, Nat) <=> y < x
    BY <2>1 DEF OpToRel
  <2>3. ~ (y < x)
    BY <1>1, <2>2, Zenon
  <2>4. QED
    BY <2>3
<1>3. QED
  BY <1>2

(* Induction up to N over the members of a set.                            *)
LEMMA UpTo ==
  ASSUME NEW N \in Nat, NEW P, 0 \in P, \A k \in 1 .. N : k - 1 \in P => k \in P
  PROVE  \A k \in 0 .. N : k \in P
<1> SUFFICES ASSUME NEW k \in 0 .. N, k \notin P PROVE FALSE
  OBVIOUS
<1>1. PICK x \in {j \in 0 .. N : j \notin P} : \A y \in {j \in 0 .. N : j \notin P} : x <= y
  <2>1. {j \in 0 .. N : j \notin P} \in SUBSET Nat /\ k \in {j \in 0 .. N : j \notin P}
    OBVIOUS
  <2>2. QED
    BY <2>1, LeastNumber
<1>2. x \in 1 .. N /\ x \notin P
  BY <1>1
<1>3. x - 1 \in 0 .. N /\ x - 1 < x
  BY <1>2
<1>4. x - 1 \in P
  BY <1>1, <1>3
<1>5. QED
  BY <1>2, <1>4

(* A function by recursion up to N.                                        *)
Iterates(f, N, base, step) == f[0] = base /\ \A k \in 1 .. N : f[k] = step[f[k - 1]]

(* A recursive definition has a solution.                                  *)
LEMMA Recursion ==
  ASSUME NEW N \in Nat, NEW X, NEW base \in X, NEW step \in [X -> X]
  PROVE  \E f \in [0 .. N -> X] : Iterates(f, N, base, step)
<1> DEFINE Good(j) == {f \in [0 .. j -> X] : f[0] = base /\ \A k \in 1 .. j : f[k] = step[f[k - 1]]}
           P == {j \in 0 .. N : Good(j) # {}}
<1>1. 0 \in P
  <2>1. [k \in 0 .. 0 |-> base] \in Good(0)
    OBVIOUS
  <2>2. QED
    BY <2>1
<1>2. ASSUME NEW j \in 1 .. N, j - 1 \in P PROVE j \in P
  <2>1. PICK f \in Good(j - 1) : TRUE
    BY <1>2
  <2> DEFINE g == [k \in 0 .. j |-> IF k = j THEN step[f[j - 1]] ELSE f[k]]
  <2>2. f \in [0 .. j - 1 -> X] /\ f[0] = base /\ \A k \in 1 .. j - 1 : f[k] = step[f[k - 1]]
    BY <2>1
  <2>3. step[f[j - 1]] \in X
    BY <2>2
  <2>4. g \in [0 .. j -> X]
    BY <2>2, <2>3
  <2>5. g[0] = base
    BY <2>2
  <2>6. ASSUME NEW k \in 1 .. j PROVE g[k] = step[g[k - 1]]
    <3>1. CASE k = j
      BY <3>1
    <3>2. CASE k # j
      BY <2>2, <3>2
    <3>3. QED
      BY <3>1, <3>2
  <2> HIDE DEF g
  <2>7. g \in Good(j)
    BY <2>4, <2>5, <2>6
  <2>8. QED
    BY <2>7
<1> HIDE DEF P
<1>3. N \in P
  BY <1>1, <1>2, UpTo
<1>4. Good(N) # {}
  BY <1>3 DEF P
<1>5. QED
  BY <1>4 DEF Iterates

-----------------------------------------------------------------------------
(* The walk that looks for cycles. *)

(* The nodes of a list from which the walk goes k levels deep.             *)
Deep(list, f) ==
  f = [k \in 0 .. Len(list) + 1 |->
         IF k = 0 THEN DOMAIN list
         ELSE {n \in DOMAIN list : \E m \in Children(list, n) : m \in f[k - 1] \cup {n}}]

(* WalkFails is the last of the levels it defines.                         *)
LEMMA WalkFailsIsDeep ==
  ASSUME NEW list \in Lists
  PROVE  \E f : Deep(list, f) /\ WalkFails(list) = f[Len(list) + 1]
<1> DEFINE More(S) == {n \in DOMAIN list : \E m \in Children(list, n) : m \in S \cup {n}}
           N == Len(list) + 1
           step == [S \in SUBSET DOMAIN list |-> More(S)]
<1>1. N \in Nat
  BY DEF Lists
<1>2. step \in [SUBSET DOMAIN list -> SUBSET DOMAIN list]
  OBVIOUS
<1> HIDE DEF N, step
<1>3. PICK f \in [0 .. N -> SUBSET DOMAIN list] : Iterates(f, N, DOMAIN list, step)
  <2> DEFINE X == SUBSET DOMAIN list
  <2>1. DOMAIN list \in X /\ step \in [X -> X]
    BY <1>2
  <2> HIDE DEF X
  <2>2. \E f \in [0 .. N -> X] : Iterates(f, N, DOMAIN list, step)
    BY <1>1, <2>1, Recursion
  <2>3. QED
    BY <2>2 DEF X
<1>4. ASSUME NEW k \in 1 .. N PROVE f[k] = More(f[k - 1])
  <2>1. f[k] = step[f[k - 1]] /\ f[k - 1] \in SUBSET DOMAIN list
    BY <1>1, <1>3 DEF Iterates
  <2>2. QED
    BY <2>1 DEF step
<1> HIDE DEF More
<1>5. f = [k \in 0 .. N |-> IF k = 0 THEN DOMAIN list ELSE More(f[k - 1])]
  BY <1>1, <1>3, <1>4 DEF Iterates
<1>6. Deep(list, f)
  BY <1>5 DEF Deep, N, More
<1>7. Deep(list, CHOOSE g : Deep(list, g))
  BY <1>6
<1>8. WalkFails(list) = (CHOOSE g : Deep(list, g))[Len(list) + 1]
  BY DEF WalkFails, Deep
<1>9. QED
  BY <1>7, <1>8

(* A sequence of subsets, each within the one before, stops falling before *)
(* it has more members than the set.                                       *)
LEMMA FallingSetsStop ==
  ASSUME NEW D, IsFiniteSet(D), NEW N \in Nat, Cardinality(D) < N
  PROVE  \A f \in [0 .. N -> SUBSET D] :
           (\A k \in 1 .. N : f[k] \subseteq f[k - 1]) => \E k \in 1 .. N : f[k] = f[k - 1]
<1> SUFFICES ASSUME NEW f \in [0 .. N -> SUBSET D],
                    \A k \in 1 .. N : f[k] \subseteq f[k - 1],
                    \A k \in 1 .. N : f[k] # f[k - 1]
             PROVE  FALSE
  OBVIOUS
<1> DEFINE size(k) == Cardinality(f[k])
           P == {k \in 0 .. N : size(k) + k <= Cardinality(D)}
<1>1. ASSUME NEW k \in 0 .. N
      PROVE  IsFiniteSet(f[k]) /\ size(k) \in Nat /\ size(k) <= Cardinality(D)
  BY FS_Subset, FS_CardinalityType
<1>2. Cardinality(D) \in Nat
  BY FS_CardinalityType
<1>3. 0 \in P
  <2>1. 0 \in 0 .. N
    OBVIOUS
  <2>2. size(0) \in Nat /\ size(0) <= Cardinality(D)
    BY <1>1, <2>1
  <2>3. QED
    BY <2>1, <2>2
<1>4. ASSUME NEW k \in 1 .. N, k - 1 \in P PROVE k \in P
  <2>1. k \in 0 .. N /\ k - 1 \in 0 .. N
    OBVIOUS
  <2>2. IsFiniteSet(f[k - 1]) /\ size(k - 1) \in Nat /\ size(k) \in Nat
    BY <1>1, <2>1
  <2>3. f[k] \subseteq f[k - 1] /\ f[k] # f[k - 1]
    OBVIOUS
  <2>4. size(k) < size(k - 1)
    <3>1. size(k) <= size(k - 1)
      BY <2>2, <2>3, FS_Subset
    <3>2. size(k) # size(k - 1)
      BY <2>2, <2>3, FS_Subset
    <3>3. QED
      BY <2>2, <3>1, <3>2
  <2> HIDE DEF size
  <2>5. size(k - 1) + (k - 1) <= Cardinality(D)
    BY <1>4
  <2>6. QED
    BY <1>2, <2>1, <2>2, <2>4, <2>5
<1> HIDE DEF P
<1>5. N \in P
  BY <1>3, <1>4, UpTo
<1>6. size(N) \in Nat
  BY <1>1
<1> HIDE DEF size
<1>7. QED
  BY <1>2, <1>5, <1>6 DEF P

(* What the walk is told to fail from is what it fails from however deep   *)
(* it may go: the levels have stopped falling.                             *)
LEMMA LevelsStop ==
  ASSUME NEW list \in Lists, NEW f, Deep(list, f)
  PROVE  /\ f[0] = DOMAIN list
         /\ \A k \in 1 .. Len(list) + 1 :
              f[k] = {n \in DOMAIN list : \E m \in Children(list, n) : m \in f[k - 1] \cup {n}}
         /\ \A n \in DOMAIN list : \A m \in Children(list, n) :
              m \in f[Len(list) + 1] => n \in f[Len(list) + 1]
<1> DEFINE N == Len(list) + 1
           D == DOMAIN list
           More(S) == {n \in D : \E m \in Children(list, n) : m \in S \cup {n}}
<1>1. Len(list) \in Nat /\ N \in Nat /\ D = 1 .. Len(list)
  BY DEF Lists
<1>2. IsFiniteSet(D) /\ Cardinality(D) = Len(list)
  <2>1. IsFiniteSet(1 .. Len(list)) /\ Cardinality(1 .. Len(list)) = Len(list)
    <3> DEFINE n == Len(list)
    <3>1. n \in Nat /\ 1 \in Int /\ n \in Int
      BY <1>1
    <3> HIDE DEF n
    <3>2. IsFiniteSet(1 .. n) /\ Cardinality(1 .. n) = IF 1 > n THEN 0 ELSE n - 1 + 1
      BY <3>1, FS_Interval
    <3>3. IsFiniteSet(1 .. n) /\ Cardinality(1 .. n) = n
      BY <3>1, <3>2
    <3>4. QED
      BY <3>3 DEF n
  <2>2. QED
    BY <1>1, <2>1
<1>3. f = [k \in 0 .. N |-> IF k = 0 THEN D ELSE More(f[k - 1])]
  BY DEF Deep
<1>4. \A S : More(S) \subseteq D
  OBVIOUS
<1>5. \A S, T : S \subseteq T => More(S) \subseteq More(T)
  OBVIOUS
<1>6. \A n \in D : \A m \in Children(list, n) : \A S : m \in S => n \in More(S)
  OBVIOUS
<1> HIDE DEF D, More
<1>7. f[0] = D /\ \A k \in 1 .. N : f[k] = More(f[k - 1])
  BY <1>1, <1>3
<1>8. f \in [0 .. N -> SUBSET D]
  BY <1>3, <1>4
<1>9. ASSUME NEW k \in 1 .. N PROVE f[k] \subseteq f[k - 1]
  <2> DEFINE P == {j \in 0 .. N : j >= 1 => f[j] \subseteq f[j - 1]}
  <2>1. 0 \in P
    BY <1>1
  <2>2. ASSUME NEW j \in 1 .. N, j - 1 \in P PROVE j \in P
    <3>1. CASE j = 1
      BY <1>1, <1>4, <1>7, <3>1
    <3>2. CASE j # 1
      <4>1. j - 1 \in 1 .. N /\ f[j - 1] \subseteq f[j - 1 - 1]
        BY <2>2, <3>2
      <4>2. f[j] = More(f[j - 1]) /\ f[j - 1] = More(f[j - 1 - 1])
        BY <1>7, <4>1
      <4>3. QED
        BY <1>5, <4>1, <4>2
    <3>3. QED
      BY <3>1, <3>2
  <2> HIDE DEF P
  <2>3. \A j \in 0 .. N : j \in P
    BY <1>1, <2>1, <2>2, UpTo
  <2>4. k \in P
    BY <2>3
  <2>5. QED
    BY <2>4 DEF P
<1>10. PICK k \in 1 .. N : f[k] = f[k - 1]
  <2>1. Cardinality(D) < N
    BY <1>1, <1>2
  <2> HIDE DEF N
  <2>2. \A g \in [0 .. N -> SUBSET D] :
          (\A j \in 1 .. N : g[j] \subseteq g[j - 1]) => \E j \in 1 .. N : g[j] = g[j - 1]
    <3>1. IsFiniteSet(D) /\ N \in Nat /\ Cardinality(D) < N
      BY <1>1, <1>2, <2>1
    <3>2. QED
      BY <3>1, FallingSetsStop, Zenon
  <2>3. QED
    BY <1>8, <1>9, <2>2
<1>11. f[N] = f[k]
  <2> DEFINE P == {j \in 0 .. N : j >= k => f[j] = f[k]}
  <2>1. 0 \in P
    BY <1>1
  <2>2. ASSUME NEW j \in 1 .. N, j - 1 \in P PROVE j \in P
    <3>1. CASE j <= k
      BY <3>1
    <3>2. CASE j > k
      BY <1>7, <1>10, <2>2, <3>2
    <3>3. QED
      BY <3>1, <3>2
  <2> HIDE DEF P
  <2>3. \A j \in 0 .. N : j \in P
    BY <1>1, <2>1, <2>2, UpTo
  <2>4. N \in P
    BY <1>1, <2>3
  <2>5. QED
    BY <1>1, <2>4 DEF P
<1>12. f[N] = More(f[N])
  BY <1>7, <1>10, <1>11
<1>13. QED
  <2>1. \A n \in D : \A m \in Children(list, n) : m \in f[N] => n \in f[N]
    BY <1>6, <1>12
  <2>2. QED
    BY <1>7, <2>1 DEF D, More

(* The nodes reached from the heads in k steps.                            *)
Spread(list, f) ==
  f = [k \in 0 .. Len(list) |->
         IF k = 0 THEN Heads(list)
         ELSE f[k - 1] \cup UNION {Children(list, n) : n \in f[k - 1]}]

(* Reached is the last of the sets it defines.                             *)
LEMMA ReachedIsSpread ==
  ASSUME NEW list \in Lists
  PROVE  \E f \in [0 .. Len(list) -> SUBSET DOMAIN list] :
           Spread(list, f) /\ Reached(list) = f[Len(list)]
<1> DEFINE N == Len(list)
           X == SUBSET DOMAIN list
           More(S) == S \cup UNION {Children(list, n) : n \in S}
           step == [S \in X |-> More(S)]
<1>1. N \in Nat
  BY DEF Lists
<1>2. step \in [X -> X]
  BY NeighboursAreNodes
<1>3. Heads(list) \in X
  BY DEF Heads
<1> HIDE DEF N, X, step
<1>4. PICK f \in [0 .. N -> X] : Iterates(f, N, Heads(list), step)
  BY <1>1, <1>2, <1>3, Recursion
<1>5. ASSUME NEW k \in 1 .. N PROVE f[k] = More(f[k - 1])
  <2>1. f[k] = step[f[k - 1]] /\ f[k - 1] \in X
    BY <1>1, <1>4 DEF Iterates
  <2>2. QED
    BY <2>1 DEF step
<1> HIDE DEF More
<1>6. f = [k \in 0 .. N |-> IF k = 0 THEN Heads(list) ELSE More(f[k - 1])]
  BY <1>1, <1>4, <1>5 DEF Iterates
<1>7. Spread(list, f)
  BY <1>6 DEF Spread, N, More
<1> DEFINE g == CHOOSE g : Spread(list, g)
<1>8. Spread(list, g)
  BY <1>7
<1>9. Reached(list) = g[Len(list)]
  BY DEF Reached, Spread
<1> HIDE DEF g
<1>10. g = [k \in 0 .. N |-> IF k = 0 THEN Heads(list) ELSE More(g[k - 1])]
  BY <1>8 DEF Spread, N, More
<1>11. g[0] = Heads(list) /\ \A k \in 1 .. N : g[k] = More(g[k - 1])
  BY <1>1, <1>10
<1>12. g \in [0 .. N -> X]
  <2> DEFINE P == {k \in 0 .. N : g[k] \in X}
  <2>1. 0 \in P
    BY <1>1, <1>3, <1>11
  <2>2. ASSUME NEW k \in 1 .. N, k - 1 \in P PROVE k \in P
    <3>1. More(g[k - 1]) \in X
      BY <2>2, NeighboursAreNodes DEF More, X
    <3>2. QED
      BY <1>11, <3>1
  <2> HIDE DEF P
  <2>3. \A k \in 0 .. N : k \in P
    BY <1>1, <2>1, <2>2, UpTo
  <2>4. \A k \in 0 .. N : g[k] \in X
    BY <2>3 DEF P
  <2>5. g = [k \in 0 .. N |-> g[k]]
    BY <1>10
  <2>6. QED
    BY <2>4, <2>5
<1>13. QED
  BY <1>8, <1>9, <1>12 DEF N, X

(* What the checks of the verification accept has no cycle: a cycle that   *)
(* is reached is walked too deep, and one that is not is found by the      *)
(* marks the walk leaves.                                                  *)
LEMMA RunnableIsAcyclic ==
  ASSUME NEW list \in Lists, Runnable(list)
  PROVE  Acyclic(list)
<1> DEFINE N == Len(list) + 1
<1>1. PICK f : Deep(list, f) /\ WalkFails(list) = f[N]
  BY WalkFailsIsDeep
<1>2. /\ f[0] = DOMAIN list
      /\ \A k \in 1 .. N :
           f[k] = {n \in DOMAIN list : \E m \in Children(list, n) : m \in f[k - 1] \cup {n}}
      /\ \A n \in DOMAIN list : \A m \in Children(list, n) : m \in f[N] => n \in f[N]
  BY <1>1, LevelsStop
<1>3. PICK r \in [0 .. Len(list) -> SUBSET DOMAIN list] :
        Spread(list, r) /\ Reached(list) = r[Len(list)]
  BY ReachedIsSpread
<1>4. Len(list) \in Nat /\ N \in Nat
  BY DEF Lists
<1>5. r[0] = Heads(list)
      /\ \A k \in 1 .. Len(list) :
           r[k] = r[k - 1] \cup UNION {Children(list, n) : n \in r[k - 1]}
  BY <1>3, <1>4 DEF Spread
<1>6. Heads(list) \cap f[N] = {} /\ Reached(list) = DOMAIN list
  BY <1>1 DEF Runnable, Unvisited
<1>7. r[Len(list)] \cap f[N] = {}
  <2> DEFINE P == {k \in 0 .. Len(list) : r[k] \cap f[N] = {}}
  <2>1. 0 \in P
    BY <1>4, <1>5, <1>6
  <2>2. ASSUME NEW k \in 1 .. Len(list), k - 1 \in P PROVE k \in P
    <3>1. r[k - 1] \cap f[N] = {} /\ r[k - 1] \subseteq DOMAIN list
      BY <1>3, <2>2
    <3>2. \A n \in r[k - 1] : Children(list, n) \cap f[N] = {}
      BY <1>2, <3>1
    <3>3. QED
      BY <1>5, <3>1, <3>2
  <2> HIDE DEF P
  <2>3. \A k \in 0 .. Len(list) : k \in P
    BY <1>4, <2>1, <2>2, UpTo
  <2>4. Len(list) \in P
    BY <1>4, <2>3
  <2>5. QED
    BY <2>4 DEF P
<1>8. f[N] = {}
  <2>1. N \in 1 .. N
    BY <1>4
  <2>2. f[N] \subseteq DOMAIN list
    BY <1>2, <2>1
  <2>3. QED
    BY <1>3, <1>6, <1>7, <2>2
<1>9. ASSUME NEW S \in (SUBSET DOMAIN list) \ {{}}
      PROVE  \E n \in S : \A m \in S : ~Feeds(list, m, n)
  <2> DEFINE T == {k \in 0 .. N : S \cap f[k] = {}}
  <2>1. T \in SUBSET Nat /\ N \in T
    BY <1>4, <1>8
  <2>2. PICK j \in T : \A k \in T : j <= k
    BY <2>1, LeastNumber
  <2>3. j \in 0 .. N /\ S \cap f[j] = {} /\ j # 0
    BY <1>2, <2>2
  <2>4. j \in 1 .. N /\ j - 1 \in 0 .. N /\ j - 1 < j
    BY <1>4, <2>3
  <2>5. S \cap f[j - 1] # {}
    BY <2>2, <2>4
  <2>6. PICK n \in S : n \in f[j - 1]
    BY <2>5
  <2>7. ASSUME NEW m \in S PROVE ~Feeds(list, m, n)
    <3>1. m \in DOMAIN list /\ n \in DOMAIN list
      OBVIOUS
    <3>2. n \in Children(list, m) => m \in f[j]
      BY <1>2, <2>4, <2>6, <3>1
    <3>3. m \notin f[j]
      BY <2>3
    <3>4. QED
      BY <3>1, <3>2, <3>3, ChildrenAreFed
  <2>8. QED
    BY <2>7
<1>10. QED
  BY <1>9 DEF Acyclic

-----------------------------------------------------------------------------
(* The order of places. *)

(* The order of places is total.                                           *)
LEMMA EarlierOrders ==
  ASSUME NEW l \in Nat \X Nat, NEW m \in Nat \X Nat
  PROVE  /\ ~Earlier(l, l)
         /\ l = m \/ Earlier(l, m) \/ Earlier(m, l)
         /\ \A k \in Nat \X Nat : Earlier(l, m) /\ Earlier(m, k) => Earlier(l, k)
<1>1. ASSUME NEW k \in Nat \X Nat PROVE k[1] \in Nat /\ k[2] \in Nat
  OBVIOUS
<1>2. l[1] = m[1] /\ l[2] = m[2] => l = m
  OBVIOUS
<1>3. QED
  BY <1>1, <1>2 DEF Earlier

(* A set of places has an earliest one.                                    *)
LEMMA EarliestPlace ==
  ASSUME NEW S \in SUBSET (Nat \X Nat), S # {}
  PROVE  \E l \in S : \A m \in S : ~Earlier(m, l)
<1> DEFINE rows == {l[1] : l \in S}
<1>1. \A l \in S : l[1] \in Nat /\ l[2] \in Nat
  OBVIOUS
<1>2. rows \in SUBSET Nat /\ rows # {}
  BY <1>1
<1>3. PICK a \in rows : \A x \in rows : a <= x
  BY <1>2, LeastNumber
<1> DEFINE row == {l \in S : l[1] = a}
           columns == {l[2] : l \in row}
<1>4. columns \in SUBSET Nat /\ columns # {}
  BY <1>1, <1>3
<1>5. PICK b \in columns : \A y \in columns : b <= y
  BY <1>4, LeastNumber
<1>6. PICK l \in S : l[1] = a /\ l[2] = b
  BY <1>5
<1>7. ASSUME NEW m \in S PROVE ~Earlier(m, l)
  <2>1. a <= m[1] /\ m[1] \in Nat /\ a \in Nat
    BY <1>1, <1>2, <1>3
  <2>2. m[1] = a => b <= m[2]
    BY <1>5
  <2>3. m[2] \in Nat /\ b \in Nat
    BY <1>1, <1>4, <1>5
  <2>4. QED
    BY <1>6, <2>1, <2>2, <2>3 DEF Earlier
<1>8. QED
  BY <1>7

(* InOrder lists a finite set of places, each once, in their order.        *)
LEMMA InOrderLists ==
  ASSUME NEW S \in SUBSET (Nat \X Nat), IsFiniteSet(S)
  PROVE  /\ Cardinality(S) \in Nat
         /\ InOrder(S) \in [1 .. Cardinality(S) -> S]
         /\ \A l \in S : \E i \in 1 .. Cardinality(S) : InOrder(S)[i] = l
         /\ \A i, j \in 1 .. Cardinality(S) : i < j => Earlier(InOrder(S)[i], InOrder(S)[j])
<1> DEFINE N == Cardinality(S)
           below(l) == {m \in S : Earlier(m, l)}
           rank == [l \in S |-> Cardinality(below(l)) + 1]
<1>1. N \in Nat
  BY FS_CardinalityType
<1>2. ASSUME NEW l \in S, NEW m \in S, Earlier(l, m)
      PROVE  rank[l] < rank[m]
  <2>1. below(l) \in SUBSET below(m)
    BY <1>2, EarlierOrders
  <2>2. l \in below(m) /\ l \notin below(l)
    BY <1>2, EarlierOrders
  <2>3. IsFiniteSet(below(m))
    <3>1. below(m) \in SUBSET S
      OBVIOUS
    <3>2. QED
      BY <3>1, FS_Subset
  <2> HIDE DEF below
  <2>4. IsFiniteSet(below(l)) /\ Cardinality(below(l)) <= Cardinality(below(m))
        /\ Cardinality(below(l)) # Cardinality(below(m))
    BY <2>1, <2>2, <2>3, FS_Subset
  <2>5. Cardinality(below(l)) \in Nat /\ Cardinality(below(m)) \in Nat
    BY <2>3, <2>4, FS_CardinalityType
  <2>6. QED
    BY <2>4, <2>5
<1>3. ASSUME NEW l \in S PROVE rank[l] \in 1 .. N
  <2>1. below(l) \in SUBSET S /\ l \notin below(l)
    BY EarlierOrders
  <2> HIDE DEF below
  <2>2. IsFiniteSet(below(l)) /\ Cardinality(below(l)) <= N /\ Cardinality(below(l)) # N
    BY <2>1, FS_Subset
  <2>3. Cardinality(below(l)) \in Nat
    BY <2>2, FS_CardinalityType
  <2>4. QED
    BY <1>1, <2>2, <2>3
<1>4. ASSUME NEW l \in S, NEW m \in S, rank[l] = rank[m] PROVE l = m
  <2>1. l = m \/ Earlier(l, m) \/ Earlier(m, l)
    BY EarlierOrders
  <2>2. rank[l] \in 1 .. N /\ rank[m] \in 1 .. N
    BY <1>3
  <2> HIDE DEF rank
  <2>3. QED
    BY <1>2, <1>4, <2>1, <2>2
<1>5. \A i \in 1 .. N : \E l \in S : rank[l] = i
  <2>1. rank \in [S -> 1 .. N]
    BY <1>3
  <2> HIDE DEF rank
  <2>2. rank \in Injection(S, 1 .. N)
    BY <1>4, <2>1, Fun_IsInj
  <2>3. IsFiniteSet(1 .. N) /\ Cardinality(1 .. N) = N
    <3> HIDE DEF N
    <3>1. 1 \in Int /\ N \in Int
      BY <1>1
    <3>2. IsFiniteSet(1 .. N) /\ Cardinality(1 .. N) = IF 1 > N THEN 0 ELSE N - 1 + 1
      BY <3>1, FS_Interval
    <3>3. QED
      BY <1>1, <3>2
  <2>4. rank \in Surjection(S, 1 .. N)
    BY <2>2, <2>3, FS_Injection
  <2>5. QED
    BY <2>4, Fun_SurjectionProperties
<1>6. ASSUME NEW i \in 1 .. N
      PROVE  InOrder(S)[i] \in S /\ rank[InOrder(S)[i]] = i
  <2> DEFINE o == CHOOSE l \in S : Cardinality(below(l)) = i - 1
  <2>1. PICK l \in S : rank[l] = i
    BY <1>5
  <2>2. Cardinality(below(l)) \in Nat
    <3>1. below(l) \in SUBSET S
      OBVIOUS
    <3>2. QED
      BY <3>1, FS_Subset, FS_CardinalityType
  <2>3. Cardinality(below(l)) = i - 1
    <3> HIDE DEF below
    <3>1. QED
      BY <2>1, <2>2
  <2>4. o \in S /\ Cardinality(below(o)) = i - 1
    BY <2>3
  <2>5. InOrder(S)[i] = o
    BY DEF InOrder
  <2> HIDE DEF o, below
  <2>6. QED
    BY <2>4, <2>5
<1>7. InOrder(S) = [i \in 1 .. N |-> InOrder(S)[i]]
  <2>1. \A e : e = [i \in 1 .. N |-> CHOOSE l \in S : Cardinality(below(l)) = i - 1]
                 => e = [i \in 1 .. N |-> e[i]]
    OBVIOUS
  <2>2. QED
    BY <2>1 DEF InOrder
<1>8. InOrder(S) \in [1 .. N -> S]
  BY <1>6, <1>7
<1>9. ASSUME NEW l \in S PROVE \E i \in 1 .. N : InOrder(S)[i] = l
  <2> DEFINE i == rank[l]
             m == InOrder(S)[i]
  <2>1. i \in 1 .. N
    BY <1>3
  <2> HIDE DEF i, rank
  <2>2. m \in S /\ rank[m] = rank[l]
    BY <1>6, <2>1 DEF i
  <2>3. m = l
    BY <1>4, <2>2
  <2>4. QED
    BY <2>1, <2>3
<1>10. ASSUME NEW i \in 1 .. N, NEW j \in 1 .. N, i < j
       PROVE  Earlier(InOrder(S)[i], InOrder(S)[j])
  <2> DEFINE l == InOrder(S)[i]
             m == InOrder(S)[j]
  <2>1. l \in S /\ m \in S /\ rank[l] = i /\ rank[m] = j
    BY <1>6
  <2> HIDE DEF l, m, rank
  <2>2. l = m \/ Earlier(l, m) \/ Earlier(m, l)
    BY <2>1, EarlierOrders
  <2>3. ~Earlier(m, l) /\ l # m
    BY <1>2, <1>10, <2>1
  <2>4. QED
    BY <2>2, <2>3 DEF l, m
<1>11. QED
  BY <1>1, <1>8, <1>9, <1>10

-----------------------------------------------------------------------------
(* The turns of the sorting. *)

(* What the sorting needs of relations between objects: each is at a place *)
(* of its own.                                                             *)
Sortable(relations, objects) ==
  /\ objects \in SUBSET (Nat \X Nat) /\ IsFiniteSet(objects)
  /\ \A l \in relations : l.before \in objects /\ l.after \in objects
  /\ {l.at : l \in relations} \in SUBSET (Nat \X Nat)
  /\ IsFiniteSet({l.at : l \in relations})
  /\ \A l, m \in relations : l.at = m.at => l = m

Queues(objects) == [out : Seq(objects), queue : Seq(objects)]

NoRepeats(s) == \A i, j \in DOMAIN s : s[i] = s[j] => i = j

(* A turn outputs the front of the queue, and queues, each once, the       *)
(* objects that waited for it and wait for nothing else.                   *)
LEMMA OutputQueuesFreed ==
  ASSUME NEW relations, NEW objects, Sortable(relations, objects),
         NEW x \in Queues(objects), x.queue # <<>>
  PROVE  \E fresh \in Seq(objects) :
           LET out == Append(x.out, Head(x.queue)) IN
           /\ Output(relations, x) = [out |-> out, queue |-> Tail(x.queue) \o fresh]
           /\ NoRepeats(fresh)
           /\ \A o \in objects :
                o \in Range(fresh) <=> /\ Head(x.queue) \in Before(relations, o)
                                       /\ Before(relations, o) \subseteq Range(out)
<1> DEFINE out == Append(x.out, Head(x.queue))
           freed == {l \in relations : /\ l.before = Head(x.queue)
                                       /\ Before(relations, l.after) \subseteq Range(out)}
           first == {l \in freed : \A m \in freed : m.after = l.after => ~Earlier(m.at, l.at)}
           ats == {l.at : l \in first}
           order == Reverse(InOrder(ats))
           successor(i) == (CHOOSE l \in first : l.at = order[i]).after
           fresh == [i \in DOMAIN order |-> successor(i)]
           N == Cardinality(ats)
<1>1. Output(relations, x) = [out |-> out, queue |-> Tail(x.queue) \o fresh]
  BY DEF Output
<1>2. first \subseteq relations
  OBVIOUS
<1>3. ats \in SUBSET (Nat \X Nat) /\ IsFiniteSet(ats)
  <2>1. ats \in SUBSET {l.at : l \in relations}
    BY <1>2
  <2> HIDE DEF ats
  <2>2. QED
    BY <2>1, FS_Subset DEF Sortable
<1>4. /\ N \in Nat /\ InOrder(ats) \in [1 .. N -> ats]
      /\ \A l \in ats : \E i \in 1 .. N : InOrder(ats)[i] = l
      /\ \A i, j \in 1 .. N : i < j => Earlier(InOrder(ats)[i], InOrder(ats)[j])
  <2> HIDE DEF ats
  <2>1. QED
    BY <1>3, InOrderLists
<1>5. /\ DOMAIN order = 1 .. N
      /\ \A i \in 1 .. N : order[i] = InOrder(ats)[N - i + 1] /\ order[i] \in ats
      /\ \A l \in ats : \E i \in 1 .. N : order[i] = l
      /\ \A i, j \in 1 .. N : order[i] = order[j] => i = j
  <2>1. Len(InOrder(ats)) = N
    <3> HIDE DEF N, ats
    <3>1. QED
      BY <1>4
  <2>2. order = [i \in 1 .. N |-> InOrder(ats)[N - i + 1]]
    BY <2>1 DEF Reverse
  <2> HIDE DEF order
  <2>3. \A i \in 1 .. N : N - i + 1 \in 1 .. N /\ N - (N - i + 1) + 1 = i
    <3> HIDE DEF N
    <3>1. N \in Nat
      BY <1>4
    <3>2. QED
      BY <3>1
  <2>4. DOMAIN order = 1 .. N /\ \A i \in 1 .. N : order[i] = InOrder(ats)[N - i + 1]
    BY <2>2
  <2> HIDE DEF N, ats
  <2>5. \A i \in 1 .. N : order[i] \in ats
    BY <1>4, <2>3, <2>4
  <2>6. \A l \in ats : \E i \in 1 .. N : order[i] = l
    BY <1>4, <2>3, <2>4
  <2>7. ASSUME NEW i \in 1 .. N, NEW j \in 1 .. N, order[i] = order[j] PROVE i = j
    <3> DEFINE a == N - i + 1
               b == N - j + 1
    <3>1. a \in 1 .. N /\ b \in 1 .. N /\ InOrder(ats)[a] = InOrder(ats)[b]
      BY <2>3, <2>4, <2>7
    <3>2. ~(a < b) /\ ~(b < a)
      <4>1. InOrder(ats)[a] \in Nat \X Nat
        BY <1>3, <1>4, <3>1
      <4>2. ~Earlier(InOrder(ats)[a], InOrder(ats)[a])
        BY <4>1, EarlierOrders
      <4> HIDE DEF a, b
      <4>3. QED
        BY <1>4, <3>1, <4>2
    <3>3. a = b
      <4> HIDE DEF a, b
      <4>1. QED
        BY <1>4, <3>1, <3>2
    <3>4. QED
      BY <1>4, <3>3
  <2>8. QED
    BY <2>4, <2>5, <2>6, <2>7
<1> HIDE DEF order
<1>6. ASSUME NEW i \in 1 .. N
      PROVE  \E l \in first : l.at = order[i] /\ fresh[i] = l.after
  <2>1. \E l \in first : l.at = order[i]
    <3>1. order[i] \in ats
      BY <1>5
    <3> HIDE DEF first
    <3>2. QED
      BY <3>1
  <2>2. (CHOOSE l \in first : l.at = order[i]) \in first
        /\ (CHOOSE l \in first : l.at = order[i]).at = order[i]
    <3> HIDE DEF first
    <3>1. QED
      BY <2>1
  <2>3. fresh[i] = (CHOOSE l \in first : l.at = order[i]).after
    BY <1>5
  <2> HIDE DEF fresh, first
  <2>4. QED
    BY <2>2, <2>3
<1>7. DOMAIN fresh = 1 .. N
  BY <1>5
<1>8. fresh \in [1 .. N -> objects]
  <2>1. fresh = [i \in 1 .. N |-> fresh[i]]
    <3>1. \A e : e = [i \in DOMAIN order |-> successor(i)] => e = [i \in DOMAIN order |-> e[i]]
      OBVIOUS
    <3>2. fresh = [i \in DOMAIN order |-> fresh[i]]
      BY <3>1
    <3> HIDE DEF fresh, N
    <3>3. QED
      BY <1>5, <3>2
  <2>2. \A i \in 1 .. N : fresh[i] \in objects
    <3> HIDE DEF fresh
    <3>1. QED
      BY <1>2, <1>6 DEF Sortable
  <2> HIDE DEF fresh
  <2>3. QED
    BY <2>1, <2>2
<1> HIDE DEF fresh
<1>9. NoRepeats(fresh)
  <2> SUFFICES ASSUME NEW i \in 1 .. N, NEW j \in 1 .. N, fresh[i] = fresh[j]
               PROVE  i = j
    BY <1>7 DEF NoRepeats
  <2>1. PICK l \in first : l.at = order[i] /\ fresh[i] = l.after
    BY <1>6
  <2>2. PICK m \in first : m.at = order[j] /\ fresh[j] = m.after
    BY <1>6
  <2>3. ~Earlier(l.at, m.at) /\ ~Earlier(m.at, l.at)
    BY <2>1, <2>2
  <2>4. l.at \in Nat \X Nat /\ m.at \in Nat \X Nat
    BY <1>3, <2>1, <2>2
  <2>5. l.at = m.at
    BY <2>3, <2>4, EarlierOrders
  <2> HIDE DEF N, ats, first
  <2>6. QED
    BY <1>5, <2>1, <2>2, <2>5
<1>10. ASSUME NEW o \in objects
       PROVE  o \in Range(fresh) <=> /\ Head(x.queue) \in Before(relations, o)
                                     /\ Before(relations, o) \subseteq Range(out)
  <2>1. ASSUME o \in Range(fresh)
        PROVE  Head(x.queue) \in Before(relations, o) /\ Before(relations, o) \subseteq Range(out)
    <3>1. PICK i \in 1 .. N : fresh[i] = o
      BY <1>7, <2>1 DEF Range
    <3>2. PICK l \in first : fresh[i] = l.after
      BY <1>6
    <3>3. l \in relations /\ l.before = Head(x.queue)
          /\ Before(relations, l.after) \subseteq Range(out)
      BY <3>2
    <3> HIDE DEF first, out
    <3>4. QED
      BY <3>1, <3>2, <3>3 DEF Before
  <2>2. ASSUME Head(x.queue) \in Before(relations, o), Before(relations, o) \subseteq Range(out)
        PROVE  o \in Range(fresh)
    <3> DEFINE related == {l \in freed : l.after = o}
               places == {l.at : l \in related}
    <3>1. PICK l0 \in relations : l0.after = o /\ l0.before = Head(x.queue)
      <4> HIDE DEF out
      <4>1. QED
        BY <2>2 DEF Before
    <3>2. l0 \in related
      BY <2>2, <3>1
    <3>3. places \in SUBSET (Nat \X Nat) /\ IsFiniteSet(places) /\ places # {}
      <4>1. places \in SUBSET {l.at : l \in relations} /\ places # {}
        BY <3>2
      <4> HIDE DEF places
      <4>2. QED
        BY <4>1, FS_Subset DEF Sortable
    <3>4. PICK earliest \in places : \A a \in places : ~Earlier(a, earliest)
      <4> HIDE DEF places
      <4>1. QED
        BY <3>3, EarliestPlace
    <3>5. PICK l \in related : l.at = earliest
      OBVIOUS
    <3>6. l \in first
      BY <3>4, <3>5
    <3>7. PICK i \in 1 .. N : order[i] = l.at
      <4>1. l.at \in ats
        BY <3>6
      <4> HIDE DEF ats
      <4>2. QED
        BY <1>5, <4>1
    <3>8. PICK m \in first : m.at = order[i] /\ fresh[i] = m.after
      BY <1>6
    <3>9. m = l
      <4>1. m \in relations /\ l \in relations
        BY <3>8, <3>6
      <4>2. QED
        BY <3>7, <3>8, <4>1 DEF Sortable
    <3>10. fresh[i] = o
      BY <3>5, <3>8, <3>9
    <3>11. QED
      BY <1>7, <3>10 DEF Range
  <2> HIDE DEF out
  <2>3. QED
    BY <2>1, <2>2
<1>11. fresh \in Seq(objects)
  <2> HIDE DEF N
  <2>1. QED
    BY <1>4, <1>8
<1> HIDE DEF out
<1>12. QED
  BY <1>1, <1>9, <1>10, <1>11 DEF out

(* After k turns: what is output comes after its predecessors; what is     *)
(* output or queued is what has all its predecessors output, each once;    *)
(* and k objects are output, unless the queue is empty.                    *)
SortInv(relations, objects, k, x) ==
  /\ x \in Queues(objects)
  /\ NoRepeats(x.out) /\ NoRepeats(x.queue) /\ Range(x.out) \cap Range(x.queue) = {}
  /\ \A i \in DOMAIN x.out : \A o \in Before(relations, x.out[i]) :
       \E j \in 1 .. i - 1 : x.out[j] = o
  /\ \A o \in objects :
       Before(relations, o) \subseteq Range(x.out) <=> o \in Range(x.out) \cup Range(x.queue)
  /\ Len(x.out) = k \/ x.queue = <<>>

(* SortInv holds before the first turn.                                    *)
LEMMA SortStarts ==
  ASSUME NEW relations, NEW objects, Sortable(relations, objects)
  PROVE  SortInv(relations, objects, 0,
                 [out |-> <<>>,
                  queue |-> InOrder({o \in objects : Before(relations, o) = {}})])
<1> DEFINE free == {o \in objects : Before(relations, o) = {}}
           N == Cardinality(free)
           q == InOrder(free)
           x == [out |-> <<>>, queue |-> q]
<1>1. free \in SUBSET objects /\ free \in SUBSET (Nat \X Nat) /\ IsFiniteSet(free)
  <2>1. free \in SUBSET objects
    OBVIOUS
  <2> HIDE DEF free
  <2>2. QED
    BY <2>1, FS_Subset DEF Sortable
<1>2. \A o \in objects : o \in free <=> Before(relations, o) = {}
  OBVIOUS
<1> HIDE DEF free
<1>3. /\ N \in Nat /\ q \in [1 .. N -> free]
      /\ \A l \in free : \E i \in 1 .. N : q[i] = l
      /\ \A i, j \in 1 .. N : i < j => Earlier(q[i], q[j])
  BY <1>1, InOrderLists
<1> HIDE DEF N, q
<1>4. q \in Seq(objects) /\ DOMAIN q = 1 .. N /\ Range(q) = free
  <2>1. q \in Seq(free) /\ DOMAIN q = 1 .. N
    BY <1>3
  <2>2. Range(q) = free
    BY <1>3 DEF Range
  <2>3. QED
    BY <1>1, <2>1, <2>2
<1>5. NoRepeats(q)
  <2> SUFFICES ASSUME NEW i \in 1 .. N, NEW j \in 1 .. N, q[i] = q[j], i < j PROVE FALSE
    BY <1>3, <1>4 DEF NoRepeats
  <2>1. q[i] \in Nat \X Nat
    BY <1>1, <1>3
  <2>2. QED
    BY <1>3, <2>1, EarlierOrders
<1>6. x.out = <<>> /\ x.queue = q /\ x \in Queues(objects) /\ DOMAIN x.out = {}
      /\ Len(x.out) = 0 /\ Range(x.out) = {}
  BY <1>4 DEF Queues, Range
<1> HIDE DEF x
<1>7. SortInv(relations, objects, 0, x)
  <2>1. NoRepeats(x.out) /\ NoRepeats(x.queue)
    BY <1>5, <1>6 DEF NoRepeats
  <2>2. \A o \in objects :
          Before(relations, o) \subseteq Range(x.out) <=> o \in Range(x.out) \cup Range(x.queue)
    BY <1>2, <1>4, <1>6
  <2>3. QED
    BY <1>6, <2>1, <2>2 DEF SortInv
<1>8. QED
  BY <1>7 DEF x, q, free

(* A turn keeps SortInv.                                                   *)
LEMMA SortGoesOn ==
  ASSUME NEW relations, NEW objects, Sortable(relations, objects),
         NEW k \in Nat, NEW x, SortInv(relations, objects, k, x)
  PROVE  SortInv(relations, objects, k + 1, Output(relations, x))
<1>1. CASE x.queue = <<>>
  <2>1. Output(relations, x) = x
    BY <1>1 DEF Output
  <2>2. QED
    BY <1>1, <2>1 DEF SortInv
<1>2. CASE x.queue # <<>>
  <2> DEFINE h == Head(x.queue)
             out == Append(x.out, h)
             rest == Tail(x.queue)
  <2>1. /\ x \in Queues(objects) /\ x.out \in Seq(objects) /\ x.queue \in Seq(objects)
        /\ NoRepeats(x.out) /\ NoRepeats(x.queue) /\ Range(x.out) \cap Range(x.queue) = {}
        /\ \A i \in DOMAIN x.out : \A o \in Before(relations, x.out[i]) :
             \E j \in 1 .. i - 1 : x.out[j] = o
        /\ \A o \in objects :
             Before(relations, o) \subseteq Range(x.out)
               <=> o \in Range(x.out) \cup Range(x.queue)
        /\ Len(x.out) = k
    BY <1>2 DEF SortInv, Queues
  <2>2. PICK fresh \in Seq(objects) :
          /\ Output(relations, x) = [out |-> out, queue |-> rest \o fresh]
          /\ NoRepeats(fresh)
          /\ \A o \in objects :
               o \in Range(fresh) <=> /\ h \in Before(relations, o)
                                      /\ Before(relations, o) \subseteq Range(out)
    BY <1>2, <2>1, OutputQueuesFreed
  <2> DEFINE queue == rest \o fresh
  <2>3. /\ h \in objects /\ h \in Range(x.queue) /\ rest \in Seq(objects)
        /\ Range(x.queue) = {h} \cup Range(rest) /\ h \notin Range(rest) /\ NoRepeats(rest)
    <3>1. /\ Len(x.queue) \in Nat \ {0} /\ h = x.queue[1] /\ rest \in Seq(objects)
          /\ DOMAIN x.queue = 1 .. Len(x.queue) /\ DOMAIN rest = 1 .. Len(x.queue) - 1
          /\ \A i \in 1 .. Len(x.queue) - 1 : rest[i] = x.queue[i + 1]
          /\ h \in objects
      BY <1>2, <2>1
    <3> HIDE DEF h, rest
    <3>2. \A i \in 1 .. Len(x.queue) : i = 1 \/ (i - 1 \in 1 .. Len(x.queue) - 1
                                                   /\ rest[i - 1] = x.queue[i])
      BY <3>1
    <3>3. 1 \in DOMAIN x.queue
          /\ \A i \in DOMAIN rest : i + 1 \in DOMAIN x.queue /\ i + 1 # 1
      BY <3>1
    <3>4. Range(x.queue) = {h} \cup Range(rest)
      <4>1. ASSUME NEW o \in Range(x.queue) PROVE o \in {h} \cup Range(rest)
        <5>1. PICK i \in 1 .. Len(x.queue) : x.queue[i] = o
          BY <3>1, <4>1 DEF Range
        <5>2. CASE i = 1
          BY <3>1, <5>1, <5>2
        <5>3. CASE i # 1
          <6>1. i - 1 \in DOMAIN rest /\ rest[i - 1] = o
            BY <3>1, <3>2, <5>1, <5>3
          <6>2. QED
            BY <6>1 DEF Range
        <5>4. QED
          BY <5>2, <5>3
      <4>2. ASSUME NEW o \in Range(rest) PROVE o \in Range(x.queue)
        BY <3>1, <3>3 DEF Range
      <4>3. h \in Range(x.queue)
        BY <3>1, <3>3 DEF Range
      <4>4. QED
        BY <4>1, <4>2, <4>3
    <3>5. h \notin Range(rest)
      <4> SUFFICES ASSUME NEW i \in DOMAIN rest, rest[i] = h PROVE FALSE
        BY DEF Range
      <4>1. x.queue[i + 1] = x.queue[1] /\ i + 1 \in DOMAIN x.queue /\ 1 \in DOMAIN x.queue
        BY <3>1, <3>3
      <4>2. QED
        BY <2>1, <3>3, <4>1 DEF NoRepeats
    <3>6. NoRepeats(rest)
      BY <2>1, <3>1, <3>3 DEF NoRepeats
    <3>7. QED
      BY <3>1, <3>4, <3>5, <3>6
  <2> HIDE DEF h, rest
  <2>4. /\ out \in Seq(objects) /\ Len(out) = k + 1 /\ DOMAIN out = 1 .. k + 1
        /\ DOMAIN x.out = 1 .. k /\ out[k + 1] = h /\ \A i \in 1 .. k : out[i] = x.out[i]
    BY <2>1, <2>3
  <2>5. /\ queue \in Seq(objects)
        /\ DOMAIN queue = 1 .. Len(rest) + Len(fresh)
        /\ \A i \in 1 .. Len(rest) + Len(fresh) :
             queue[i] = IF i <= Len(rest) THEN rest[i] ELSE fresh[i - Len(rest)]
        /\ DOMAIN rest = 1 .. Len(rest) /\ DOMAIN fresh = 1 .. Len(fresh)
        /\ Len(rest) \in Nat /\ Len(fresh) \in Nat
    BY <2>3
  <2> HIDE DEF out, queue
  <2>6. Range(out) = Range(x.out) \cup {h}
    BY <2>4 DEF Range
  <2>7. Range(queue) = Range(rest) \cup Range(fresh)
    <3>1. ASSUME NEW o \in Range(queue) PROVE o \in Range(rest) \cup Range(fresh)
      <4>1. PICK i \in 1 .. Len(rest) + Len(fresh) : queue[i] = o
        BY <2>5, <3>1 DEF Range
      <4>2. i <= Len(rest) \/ i - Len(rest) \in 1 .. Len(fresh)
        BY <2>5
      <4>3. CASE i <= Len(rest)
        <5>1. i \in DOMAIN rest /\ rest[i] = o
          BY <2>5, <4>1, <4>3
        <5>2. QED
          BY <5>1 DEF Range
      <4>4. CASE i > Len(rest)
        <5>1. i - Len(rest) \in DOMAIN fresh /\ fresh[i - Len(rest)] = o
          BY <2>5, <4>1, <4>2, <4>4
        <5>2. QED
          BY <5>1 DEF Range
      <4>5. QED
        BY <2>5, <4>3, <4>4
    <3>2. ASSUME NEW o \in Range(rest) PROVE o \in Range(queue)
      BY <2>5 DEF Range
    <3>3. ASSUME NEW o \in Range(fresh) PROVE o \in Range(queue)
      <4>1. PICK i \in 1 .. Len(fresh) : fresh[i] = o
        BY <2>5 DEF Range
      <4>2. i + Len(rest) \in DOMAIN queue /\ queue[i + Len(rest)] = fresh[i]
        BY <2>5
      <4>3. QED
        BY <4>1, <4>2 DEF Range
    <3>4. QED
      BY <3>1, <3>2, <3>3
  <2>8. Range(x.out) \subseteq objects /\ Range(x.queue) \subseteq objects
        /\ Range(fresh) \subseteq objects
    <3>1. \A s \in Seq(objects) : Range(s) \subseteq objects
      BY DEF Range
    <3>2. QED
      BY <2>1, <3>1
  <2>9. h \notin Range(x.out)
    BY <2>1, <2>3
  <2>10. \A o \in Range(fresh) : o \notin Range(x.out) \cup Range(x.queue)
    <3> SUFFICES ASSUME NEW o \in Range(fresh) PROVE o \notin Range(x.out) \cup Range(x.queue)
      OBVIOUS
    <3>1. o \in objects /\ h \in Before(relations, o)
      BY <2>2, <2>8
    <3>2. ~(Before(relations, o) \subseteq Range(x.out))
      BY <2>9, <3>1
    <3>3. QED
      BY <2>1, <3>1, <3>2
  <2>11. NoRepeats(out)
    <3>1. \A i \in 1 .. k : x.out[i] # h
      BY <2>4, <2>9 DEF Range
    <3>2. QED
      BY <2>1, <2>4, <3>1 DEF NoRepeats
  <2>12. NoRepeats(queue)
    <3> SUFFICES ASSUME NEW i \in DOMAIN queue, NEW j \in DOMAIN queue, queue[i] = queue[j],
                        i < j
                 PROVE  FALSE
      BY <2>5 DEF NoRepeats
    <3>1. CASE j <= Len(rest)
      <4>1. i \in DOMAIN rest /\ j \in DOMAIN rest /\ rest[i] = rest[j]
        BY <2>5, <3>1
      <4>2. i = j
        BY <2>3, <4>1 DEF NoRepeats
      <4>3. QED
        BY <2>5, <4>2
    <3>2. CASE i > Len(rest)
      <4>1. i - Len(rest) \in DOMAIN fresh /\ j - Len(rest) \in DOMAIN fresh
            /\ fresh[i - Len(rest)] = fresh[j - Len(rest)]
        BY <2>5, <3>2
      <4>2. i - Len(rest) = j - Len(rest)
        BY <2>2, <4>1 DEF NoRepeats
      <4>3. QED
        BY <2>5, <4>2
    <3>3. CASE i <= Len(rest) /\ j > Len(rest)
      <4>1. i \in DOMAIN rest /\ j - Len(rest) \in DOMAIN fresh
            /\ rest[i] = fresh[j - Len(rest)]
        BY <2>5, <3>3
      <4>2. rest[i] \in Range(x.queue) /\ rest[i] \in Range(fresh)
        BY <2>3, <4>1 DEF Range
      <4>3. QED
        BY <2>10, <4>2
    <3>4. QED
      BY <2>5, <3>1, <3>2, <3>3
  <2>13. Range(out) \cap Range(queue) = {}
    BY <2>1, <2>3, <2>6, <2>7, <2>10
  <2>14. ASSUME NEW i \in DOMAIN out, NEW o \in Before(relations, out[i])
         PROVE  \E j \in 1 .. i - 1 : out[j] = o
    <3>1. CASE i \in 1 .. k
      <4>1. PICK j \in 1 .. i - 1 : x.out[j] = o
        BY <2>1, <2>4, <3>1
      <4>2. j \in 1 .. k
        BY <3>1
      <4>3. QED
        BY <2>4, <4>1, <4>2
    <3>2. CASE i = k + 1
      <4>1. o \in Range(x.out)
        BY <2>1, <2>3, <2>4, <3>2
      <4>2. PICK j \in 1 .. k : x.out[j] = o
        BY <2>4, <4>1 DEF Range
      <4>3. QED
        BY <2>4, <3>2, <4>2
    <3>3. QED
      BY <2>4, <3>1, <3>2
  <2>15. ASSUME NEW o \in objects
         PROVE  Before(relations, o) \subseteq Range(out) <=> o \in Range(out) \cup Range(queue)
    <3>1. CASE Before(relations, o) \subseteq Range(x.out)
      BY <2>1, <2>3, <2>6, <2>7, <3>1
    <3>2. CASE ~(Before(relations, o) \subseteq Range(x.out))
      <4>1. o \notin Range(x.out) \cup Range(x.queue)
        BY <2>1, <3>2
      <4>2. o \in Range(out) \cup Range(queue) <=> o \in Range(fresh)
        BY <2>3, <2>6, <2>7, <4>1
      <4>3. Before(relations, o) \subseteq Range(out) => h \in Before(relations, o)
        BY <2>6, <3>2
      <4>4. QED
        BY <2>2, <4>2, <4>3
    <3>3. QED
      BY <3>1, <3>2
  <2> DEFINE y == [out |-> out, queue |-> queue]
  <2>16. y.out = out /\ y.queue = queue /\ y \in Queues(objects) /\ Output(relations, x) = y
    BY <2>2, <2>4, <2>5 DEF Queues, out, queue
  <2> HIDE DEF y
  <2>17. SortInv(relations, objects, k + 1, y)
    BY <2>4, <2>11, <2>12, <2>13, <2>14, <2>15, <2>16 DEF SortInv
  <2>18. QED
    BY <2>16, <2>17
<1>3. QED
  BY <1>1, <1>2

(* The turns of the sorting, one for each object.                          *)
Turns(relations, objects, f) ==
  f = [k \in 0 .. Cardinality(objects) |->
         IF k = 0
         THEN [out |-> <<>>, queue |-> InOrder({o \in objects : Before(relations, o) = {}})]
         ELSE Output(relations, f[k - 1])]

(* The definition of the turns has a solution.                             *)
LEMMA TurnsAreTaken ==
  ASSUME NEW relations, NEW objects, Sortable(relations, objects)
  PROVE  \E f : Turns(relations, objects, f)
<1> DEFINE N == Cardinality(objects)
           X == Queues(objects)
           first == [out |-> <<>>,
                     queue |-> InOrder({o \in objects : Before(relations, o) = {}})]
           step == [x \in X |-> Output(relations, x)]
<1>1. N \in Nat
  BY FS_CardinalityType DEF Sortable
<1>2. first \in X
  BY SortStarts DEF SortInv
<1>3. step \in [X -> X]
  <2> SUFFICES ASSUME NEW x \in X PROVE Output(relations, x) \in X
    OBVIOUS
  <2>1. CASE x.queue = <<>>
    BY <2>1 DEF Output
  <2>2. CASE x.queue # <<>>
    <3>1. x.out \in Seq(objects) /\ x.queue \in Seq(objects)
      BY DEF Queues
    <3>2. Head(x.queue) \in objects /\ Tail(x.queue) \in Seq(objects)
      BY <2>2, <3>1
    <3>3. Append(x.out, Head(x.queue)) \in Seq(objects)
      BY <3>1, <3>2
    <3>4. PICK fresh \in Seq(objects) :
            Output(relations, x) = [out |-> Append(x.out, Head(x.queue)),
                                    queue |-> Tail(x.queue) \o fresh]
      BY <2>2, OutputQueuesFreed
    <3>5. Tail(x.queue) \o fresh \in Seq(objects)
      BY <3>2
    <3>6. QED
      BY <3>3, <3>4, <3>5 DEF Queues
  <2>3. QED
    BY <2>1, <2>2
<1> HIDE DEF N, X, first, step
<1>4. PICK f \in [0 .. N -> X] : Iterates(f, N, first, step)
  BY <1>1, <1>2, <1>3, Recursion
<1>5. ASSUME NEW k \in 1 .. N PROVE f[k] = Output(relations, f[k - 1])
  <2>1. f[k] = step[f[k - 1]] /\ f[k - 1] \in X
    BY <1>1, <1>4 DEF Iterates
  <2>2. QED
    BY <2>1 DEF step
<1>6. f = [k \in 0 .. N |-> IF k = 0 THEN first ELSE Output(relations, f[k - 1])]
  BY <1>1, <1>4, <1>5 DEF Iterates
<1>7. QED
  BY <1>6 DEF Turns, N, first

(* SortInv holds after the last turn.                                      *)
LEMMA TurnsKeepInv ==
  ASSUME NEW relations, NEW objects, Sortable(relations, objects),
         NEW g, Turns(relations, objects, g)
  PROVE  SortInv(relations, objects, Cardinality(objects), g[Cardinality(objects)])
<1> DEFINE N == Cardinality(objects)
           first == [out |-> <<>>,
                     queue |-> InOrder({o \in objects : Before(relations, o) = {}})]
           P == {k \in 0 .. N : SortInv(relations, objects, k, g[k])}
<1>1. N \in Nat
  BY FS_CardinalityType DEF Sortable
<1>2. SortInv(relations, objects, 0, first)
  BY SortStarts
<1>3. g = [k \in 0 .. N |-> IF k = 0 THEN first ELSE Output(relations, g[k - 1])]
  BY DEF Turns
<1> HIDE DEF N, first
<1>4. g[0] = first /\ \A k \in 1 .. N : g[k] = Output(relations, g[k - 1])
  BY <1>1, <1>3
<1>5. 0 \in P
  BY <1>1, <1>2, <1>4
<1>6. ASSUME NEW k \in 1 .. N, k - 1 \in P PROVE k \in P
  <2>1. k - 1 \in Nat /\ (k - 1) + 1 = k /\ SortInv(relations, objects, k - 1, g[k - 1])
    BY <1>6
  <2>2. SortInv(relations, objects, (k - 1) + 1, Output(relations, g[k - 1]))
    BY <2>1, SortGoesOn
  <2>3. SortInv(relations, objects, k, g[k])
    BY <1>4, <2>1, <2>2
  <2>4. QED
    BY <2>3
<1> HIDE DEF P
<1>7. \A k \in 0 .. N : k \in P
  BY <1>1, <1>5, <1>6, UpTo
<1>8. N \in 0 .. N
  BY <1>1
<1>9. SortInv(relations, objects, N, g[N])
  BY <1>7, <1>8 DEF P
<1>10. QED
  BY <1>9 DEF N

(* What vxTopologicalSort outputs is in the order of SortInv.              *)
LEMMA OutputsAreInOrder ==
  ASSUME NEW list, Sortable(Relations(list), Objects(list))
  PROVE  \E x : /\ Outputs(list) = x.out
                /\ SortInv(Relations(list), Objects(list), Cardinality(Objects(list)), x)
<1> DEFINE R == Relations(list)
           O == Objects(list)
           g == CHOOSE g : Turns(R, O, g)
<1>1. Turns(R, O, g)
  BY TurnsAreTaken
<1>2. Outputs(list) = g[Cardinality(O)].out
  BY DEF Outputs, Turns
<1> HIDE DEF R, O, g
<1>3. SortInv(R, O, Cardinality(O), g[Cardinality(O)])
  BY <1>1, TurnsKeepInv DEF R, O
<1>4. QED
  BY <1>2, <1>3 DEF R, O

-----------------------------------------------------------------------------
(* Objects and relations of a list. *)

(* The places of a list: its parameters that are set.                      *)
LEMMA PlacesAreParameters ==
  ASSUME NEW list \in Lists
  PROVE  /\ Places(list) \in SUBSET (Nat \X Nat)
         /\ \A n \in DOMAIN list : \A p \in DOMAIN list[n] :
              list[n][p].ref # NoRef => <<n, p>> \in Places(list)
         /\ \A l \in Places(list) :
              /\ l = <<l[1], l[2]>> /\ l[1] \in DOMAIN list /\ l[2] \in DOMAIN list[l[1]]
              /\ list[l[1]][l[2]].ref # NoRef
<1>1. DOMAIN list = 1 .. Len(list) /\ Len(list) \in Nat
  BY DEF Lists
<1>2. ASSUME NEW n \in DOMAIN list PROVE DOMAIN list[n] = 1 .. Len(list[n]) /\ Len(list[n]) \in Nat
  BY ReferencesOf
<1>3. ASSUME NEW l \in Places(list)
      PROVE  /\ l = <<l[1], l[2]>> /\ l[1] \in DOMAIN list /\ l[2] \in DOMAIN list[l[1]]
             /\ list[l[1]][l[2]].ref # NoRef /\ l \in Nat \X Nat
  <2>1. PICK n \in DOMAIN list : l \in {n} \X DOMAIN list[n]
    BY DEF Places
  <2>2. l = <<l[1], l[2]>> /\ l[1] = n /\ l[2] \in DOMAIN list[n]
    BY <2>1
  <2>3. l[1] \in Nat /\ l[2] \in Nat
    BY <1>1, <1>2, <2>2
  <2>4. list[l[1]][l[2]].ref # NoRef
    BY DEF Places
  <2>5. QED
    BY <2>2, <2>3, <2>4
<1>4. ASSUME NEW n \in DOMAIN list, NEW p \in DOMAIN list[n], list[n][p].ref # NoRef
      PROVE  <<n, p>> \in Places(list)
  <2>1. <<n, p>> \in {n} \X DOMAIN list[n]
    OBVIOUS
  <2>2. <<n, p>>[1] = n /\ <<n, p>>[2] = p
    OBVIOUS
  <2>3. QED
    BY <1>4, <2>1, <2>2 DEF Places
<1>5. QED
  BY <1>3, <1>4

(* A list has finitely many parameters.                                    *)
LEMMA PlacesAreFinite ==
  ASSUME NEW list \in Lists
  PROVE  IsFiniteSet(Places(list))
<1> DEFINE upto(k) == {l \in Places(list) : l[1] <= k}
           row(k) == {l \in Places(list) : l[1] = k}
           P == {k \in 0 .. Len(list) : IsFiniteSet(upto(k))}
<1>1. DOMAIN list = 1 .. Len(list) /\ Len(list) \in Nat
  BY DEF Lists
<1>2. \A l \in Places(list) :
        l = <<l[1], l[2]>> /\ l[1] \in 1 .. Len(list) /\ l[2] \in DOMAIN list[l[1]]
  BY <1>1, PlacesAreParameters
<1>3. 0 \in P
  <2>1. upto(0) = {}
    BY <1>1, <1>2
  <2>2. IsFiniteSet(upto(0))
    BY <2>1, FS_EmptySet
  <2> HIDE DEF upto
  <2>3. QED
    BY <1>1, <2>2
<1>4. ASSUME NEW k \in 1 .. Len(list), k - 1 \in P PROVE k \in P
  <2>1. DOMAIN list[k] = 1 .. Len(list[k]) /\ Len(list[k]) \in Nat
    BY <1>1, ReferencesOf
  <2> DEFINE column == [l \in row(k) |-> l[2]]
  <2>2. column \in [row(k) -> 1 .. Len(list[k])]
    BY <1>2, <2>1
  <2>3. \A l, m \in row(k) : column[l] = column[m] => l = m
    <3> SUFFICES ASSUME NEW l \in row(k), NEW m \in row(k), l[2] = m[2] PROVE l = m
      OBVIOUS
    <3>1. l = <<l[1], l[2]>> /\ m = <<m[1], m[2]>> /\ l[1] = m[1]
      BY <1>2
    <3>2. QED
      BY <3>1
  <2>4. IsFiniteSet(row(k))
    <3> HIDE DEF row, column
    <3>1. column \in Injection(row(k), 1 .. Len(list[k]))
      BY <2>2, <2>3, Fun_IsInj
    <3>2. IsFiniteSet(1 .. Len(list[k]))
      BY <2>1, FS_Interval
    <3>3. QED
      BY <3>1, <3>2, FS_Injection
  <2>5. upto(k) = upto(k - 1) \cup row(k)
    BY <1>1, <1>2
  <2>6. IsFiniteSet(upto(k - 1))
    BY <1>4
  <2> HIDE DEF upto, row
  <2>7. IsFiniteSet(upto(k))
    <3>1. IsFiniteSet(upto(k - 1) \cup row(k))
      BY <2>4, <2>6, FS_Union, Zenon
    <3>2. QED
      BY <2>5, <3>1
  <2>8. QED
    BY <2>7
<1> HIDE DEF P
<1>5. \A k \in 0 .. Len(list) : k \in P
  BY <1>1, <1>3, <1>4, UpTo
<1>6. IsFiniteSet(upto(Len(list)))
  <2> HIDE DEF upto
  <2>1. Len(list) \in P
    BY <1>1, <1>5
  <2>2. QED
    BY <2>1 DEF P
<1>7. Places(list) = upto(Len(list))
  BY <1>1, <1>2
<1> HIDE DEF upto
<1>8. QED
  BY <1>6, <1>7

(* An object that is a reference is a place where that reference is met.   *)
LEMMA DataIsAPlace ==
  ASSUME NEW list \in Lists, NEW l \in Places(list)
  PROVE  LET d == Data(list, list[l[1]][l[2]].ref) IN
         d \in Places(list) /\ list[d[1]][d[2]].ref = list[l[1]][l[2]].ref
<1> DEFINE r == list[l[1]][l[2]].ref
           met == {m \in Places(list) : list[m[1]][m[2]].ref = r}
<1>1. met \in SUBSET (Nat \X Nat) /\ met # {}
  BY PlacesAreParameters
<1>2. PICK d \in met : \A m \in met : ~Earlier(m, d)
  BY <1>1, EarliestPlace
<1>3. \E e \in Places(list) :
        /\ list[e[1]][e[2]].ref = r
        /\ \A m \in Places(list) : list[m[1]][m[2]].ref = r => ~Earlier(m, e)
  BY <1>2
<1> HIDE DEF r
<1>4. Data(list, r) \in Places(list) /\ list[Data(list, r)[1]][Data(list, r)[2]].ref = r
  BY <1>3 DEF Data
<1>5. QED
  BY <1>4 DEF r

(* The relation of a place.                                                *)
LEMMA RelationOfAPlace ==
  ASSUME NEW list \in Lists, NEW l \in Places(list)
  PROVE  LET x == Relation(list, l[1], l[2])
             d == Data(list, list[l[1]][l[2]].ref)
         IN /\ x.at = l
            /\ IF list[l[1]][l[2]].dir = "in" THEN x.before = d /\ x.after = Node(l[1])
                                              ELSE x.before = Node(l[1]) /\ x.after = d
<1>1. l = <<l[1], l[2]>>
  BY PlacesAreParameters
<1>2. QED
  BY <1>1 DEF Relation

(* The relations of a list of nodes are as the sorting needs them.         *)
LEMMA ListsAreSortable ==
  ASSUME NEW list \in Lists
  PROVE  Sortable(Relations(list), Objects(list))
<1> DEFINE ats == {x.at : x \in Relations(list)}
           Data1(l) == Data(list, list[l[1]][l[2]].ref)
           ns == {Node(n) : n \in DOMAIN list}
           ds == {Data1(l) : l \in Places(list)}
<1>1. DOMAIN list = 1 .. Len(list) /\ Len(list) \in Nat
  BY DEF Lists
<1>2. \A l \in Places(list) : l[1] \in DOMAIN list /\ Data1(l) \in Places(list)
  BY PlacesAreParameters, DataIsAPlace
<1>3. Objects(list) = ns \cup ds
  BY DEF Objects
<1>4. ASSUME NEW x \in Relations(list)
      PROVE  /\ x.at \in Places(list) /\ x = Relation(list, x.at[1], x.at[2])
             /\ x.before \in ns \cup ds /\ x.after \in ns \cup ds
  <2>1. PICK l \in Places(list) : x = Relation(list, l[1], l[2])
    BY DEF Relations
  <2>2. x.at = l /\ {x.before, x.after} = {Node(l[1]), Data1(l)}
    BY <2>1, RelationOfAPlace
  <2>3. Node(l[1]) \in ns /\ Data1(l) \in ds
    BY <1>2
  <2> HIDE DEF ns, ds, Data1
  <2>4. QED
    BY <2>1, <2>2, <2>3
<1>5. ats \in SUBSET Places(list)
  BY <1>4
<1>6. \A x, y \in Relations(list) : x.at = y.at => x = y
  <2> SUFFICES ASSUME NEW x \in Relations(list), NEW y \in Relations(list), x.at = y.at
               PROVE  x = y
    OBVIOUS
  <2>1. x = Relation(list, x.at[1], x.at[2]) /\ y = Relation(list, y.at[1], y.at[2])
    BY <1>4
  <2>2. QED
    BY <2>1
<1>7. IsFiniteSet(ns)
  <2> DEFINE f == [n \in DOMAIN list |-> Node(n)]
  <2>1. f \in [DOMAIN list -> ns] /\ \A o \in ns : \E n \in DOMAIN list : f[n] = o
    OBVIOUS
  <2> HIDE DEF f, ns
  <2>2. f \in Surjection(DOMAIN list, ns)
    BY <2>1, Fun_IsSurj
  <2>3. IsFiniteSet(DOMAIN list)
    BY <1>1, FS_Interval
  <2>4. QED
    BY <2>2, <2>3, FS_Surjection
<1>8. ns \in SUBSET (Nat \X Nat)
  BY <1>1 DEF Node
<1>9. ds \in SUBSET Places(list)
  BY <1>2
<1> HIDE DEF ns, ds, ats
<1>10. Places(list) \in SUBSET (Nat \X Nat) /\ IsFiniteSet(Places(list))
  BY PlacesAreParameters, PlacesAreFinite
<1>11. IsFiniteSet(ds) /\ IsFiniteSet(ats)
  BY <1>5, <1>9, <1>10, FS_Subset
<1>12. IsFiniteSet(ns \cup ds)
  BY <1>7, <1>11, FS_Union
<1>13. \A x \in Relations(list) : x.before \in Objects(list) /\ x.after \in Objects(list)
  BY <1>3, <1>4
<1>14. QED
  BY <1>3, <1>5, <1>6, <1>8, <1>9, <1>10, <1>11, <1>12, <1>13 DEF Sortable, ats

(* A node waits for the references it reads, a reference for the nodes     *)
(* that write it.                                                          *)
LEMMA WaitsOf ==
  ASSUME NEW list \in Lists
  PROVE  LET datum(l) == Data(list, list[l[1]][l[2]].ref) IN
         /\ \A l \in Places(list) :
              IF list[l[1]][l[2]].dir = "in"
              THEN datum(l) \in Before(Relations(list), Node(l[1]))
              ELSE Node(l[1]) \in Before(Relations(list), datum(l))
         /\ \A n \in DOMAIN list : \A o \in Before(Relations(list), Node(n)) :
              \E l \in Places(list) :
                l[1] = n /\ list[l[1]][l[2]].dir = "in" /\ o = datum(l)
         /\ \A l \in Places(list) : \A o \in Before(Relations(list), datum(l)) :
              \E m \in Places(list) :
                /\ list[m[1]][m[2]].dir # "in" /\ o = Node(m[1])
                /\ list[m[1]][m[2]].ref = list[l[1]][l[2]].ref
<1> DEFINE datum(l) == Data(list, list[l[1]][l[2]].ref)
           R == Relations(list)
<1>1. DOMAIN list = 1 .. Len(list) /\ Len(list) \in Nat
  BY DEF Lists
<1>2. ASSUME NEW l \in Places(list)
      PROVE  /\ l[1] \in DOMAIN list /\ datum(l) \in Places(list)
             /\ list[datum(l)[1]][datum(l)[2]].ref = list[l[1]][l[2]].ref
             /\ datum(l)[1] \in DOMAIN list
  BY PlacesAreParameters, DataIsAPlace
<1>3. ASSUME NEW l \in Places(list)
      PROVE  /\ Relation(list, l[1], l[2]) \in R
             /\ IF list[l[1]][l[2]].dir = "in"
                THEN /\ Relation(list, l[1], l[2]).before = datum(l)
                     /\ Relation(list, l[1], l[2]).after = Node(l[1])
                ELSE /\ Relation(list, l[1], l[2]).before = Node(l[1])
                     /\ Relation(list, l[1], l[2]).after = datum(l)
  BY RelationOfAPlace DEF Relations
<1>4. \A n : Node(n)[1] = 0 /\ Node(n)[2] = n
  BY DEF Node
<1>5. ASSUME NEW n, NEW l \in Places(list) PROVE datum(l) # Node(n)
  <2> HIDE DEF datum
  <2>1. datum(l)[1] \in 1 .. Len(list)
    BY <1>1, <1>2
  <2>2. datum(l)[1] # 0
    BY <1>1, <2>1
  <2>3. QED
    BY <1>4, <2>2
<1>6. \A x \in R : \E l \in Places(list) : x = Relation(list, l[1], l[2])
  BY DEF Relations
<1> HIDE DEF datum, R
<1>7. ASSUME NEW l \in Places(list)
      PROVE  IF list[l[1]][l[2]].dir = "in" THEN datum(l) \in Before(R, Node(l[1]))
                                            ELSE Node(l[1]) \in Before(R, datum(l))
  BY <1>3 DEF Before
<1>8. ASSUME NEW n \in DOMAIN list, NEW o \in Before(R, Node(n))
      PROVE  \E l \in Places(list) : l[1] = n /\ list[l[1]][l[2]].dir = "in" /\ o = datum(l)
  <2>1. PICK x \in R : x.after = Node(n) /\ x.before = o
    BY DEF Before
  <2>2. PICK l \in Places(list) : x = Relation(list, l[1], l[2])
    BY <1>6
  <2>3. list[l[1]][l[2]].dir = "in"
    BY <1>3, <1>5, <2>1, <2>2
  <2>4. Node(l[1]) = Node(n) /\ o = datum(l)
    BY <1>3, <2>1, <2>2, <2>3
  <2>5. l[1] = n
    BY <1>4, <2>4
  <2>6. QED
    BY <2>3, <2>4, <2>5
<1>9. ASSUME NEW l \in Places(list), NEW o \in Before(R, datum(l))
      PROVE  \E m \in Places(list) :
               /\ list[m[1]][m[2]].dir # "in" /\ o = Node(m[1])
               /\ list[m[1]][m[2]].ref = list[l[1]][l[2]].ref
  <2>1. PICK x \in R : x.after = datum(l) /\ x.before = o
    BY DEF Before
  <2>2. PICK m \in Places(list) : x = Relation(list, m[1], m[2])
    BY <1>6
  <2>3. list[m[1]][m[2]].dir # "in"
    BY <1>3, <1>5, <2>1, <2>2
  <2>4. datum(m) = datum(l) /\ o = Node(m[1])
    BY <1>3, <2>1, <2>2, <2>3
  <2>5. list[m[1]][m[2]].ref = list[l[1]][l[2]].ref
    BY <1>2, <2>4
  <2>6. QED
    BY <2>3, <2>4, <2>5
<1>10. QED
  BY <1>7, <1>8, <1>9 DEF datum, R

(* As many objects output as there are: every one of them.                 *)
LEMMA FullOutput ==
  ASSUME NEW relations, NEW objects, Sortable(relations, objects),
         NEW k, NEW x, SortInv(relations, objects, k, x)
  PROVE  Len(x.out) = Cardinality(objects) <=> Range(x.out) = objects
<1> DEFINE n == Len(x.out)
           out == x.out
<1>1. out \in Seq(objects) /\ n \in Nat /\ out \in [1 .. n -> objects] /\ DOMAIN out = 1 .. n
  BY DEF SortInv, Queues
<1>2. \A i, j \in 1 .. n : out[i] = out[j] => i = j
  BY <1>1 DEF SortInv, NoRepeats
<1>3. IsFiniteSet(objects)
  BY DEF Sortable
<1> HIDE DEF n, out
<1>4. out \in Injection(1 .. n, objects)
  BY <1>1, <1>2, Fun_IsInj
<1>5. Cardinality(1 .. n) = n
  <2>1. Cardinality(1 .. n) = IF 1 > n THEN 0 ELSE n - 1 + 1
    BY <1>1, FS_Interval
  <2>2. QED
    BY <1>1, <2>1
<1>6. n = Cardinality(objects) <=> out \in Surjection(1 .. n, objects)
  BY <1>3, <1>4, <1>5, FS_Injection
<1>7. out \in Surjection(1 .. n, objects) <=> Range(out) = objects
  <2>1. ASSUME out \in Surjection(1 .. n, objects) PROVE Range(out) = objects
    BY <2>1, Fun_SurjectionProperties
  <2>2. ASSUME Range(out) = objects PROVE out \in Surjection(1 .. n, objects)
    <3>1. \A o \in objects : \E i \in 1 .. n : out[i] = o
      BY <1>1, <2>2 DEF Range
    <3>2. QED
      BY <1>1, <3>1, Fun_IsSurj
  <2>3. QED
    BY <2>1, <2>2
<1>8. QED
  BY <1>6, <1>7 DEF n, out

(* The sorting of a list without cycles does not stop before the end: the  *)
(* nodes that were left would each wait for another one of them.           *)
LEMMA NothingIsLeft ==
  ASSUME NEW list \in Lists, Acyclic(list),
         NEW x, SortInv(Relations(list), Objects(list), Cardinality(Objects(list)), x)
  PROVE  Range(x.out) = Objects(list)
<1> DEFINE R == Relations(list)
           O == Objects(list)
           datum(l) == Data(list, list[l[1]][l[2]].ref)
           rest == {n \in DOMAIN list : Node(n) \notin Range(x.out)}
<1> SUFFICES ASSUME Range(x.out) # O PROVE FALSE
  OBVIOUS
<1>1. Sortable(R, O)
  BY ListsAreSortable
<1>2. x.queue = <<>>
  BY <1>1, FullOutput DEF SortInv
<1>3. \A o \in O : Before(R, o) \subseteq Range(x.out) => o \in Range(x.out)
  BY <1>2 DEF SortInv, Range
<1>4. Range(x.out) \subseteq O
  BY DEF SortInv, Queues, Range
<1>5. \A n \in DOMAIN list : Node(n) \in O
  BY DEF Objects
<1>6. \A l \in Places(list) : datum(l) \in O
  BY DEF Objects
<1>7. \A o \in O : (\E n \in DOMAIN list : o = Node(n)) \/ \E l \in Places(list) : o = datum(l)
  BY DEF Objects
<1>8. \A n \in DOMAIN list : \A o \in Before(R, Node(n)) :
        \E l \in Places(list) : l[1] = n /\ list[l[1]][l[2]].dir = "in" /\ o = datum(l)
  BY WaitsOf
<1>9. \A l \in Places(list) : \A o \in Before(R, datum(l)) :
        \E m \in Places(list) :
          /\ list[m[1]][m[2]].dir # "in" /\ o = Node(m[1])
          /\ list[m[1]][m[2]].ref = list[l[1]][l[2]].ref
  BY WaitsOf
<1>10. \A l \in Places(list) : /\ l[1] \in DOMAIN list /\ l[2] \in DOMAIN list[l[1]]
                               /\ list[l[1]][l[2]].ref # NoRef
  BY PlacesAreParameters
<1> HIDE DEF R, O, datum
<1>11. ASSUME NEW l \in Places(list), datum(l) \notin Range(x.out)
       PROVE  \E m \in Places(list) :
                /\ m[1] \in rest /\ list[m[1]][m[2]].dir # "in"
                /\ list[m[1]][m[2]].ref = list[l[1]][l[2]].ref
  <2>1. PICK o \in Before(R, datum(l)) : o \notin Range(x.out)
    BY <1>3, <1>6, <1>11
  <2>2. PICK m \in Places(list) : /\ list[m[1]][m[2]].dir # "in" /\ o = Node(m[1])
                                  /\ list[m[1]][m[2]].ref = list[l[1]][l[2]].ref
    BY <1>9
  <2>3. m[1] \in rest
    BY <1>10, <2>1, <2>2
  <2>4. QED
    BY <2>2, <2>3
<1>12. rest # {}
  <2>1. PICK o \in O : o \notin Range(x.out)
    BY <1>4 DEF O
  <2>2. CASE \E n \in DOMAIN list : o = Node(n)
    BY <2>1, <2>2
  <2>3. CASE \E l \in Places(list) : o = datum(l)
    BY <1>11, <2>1, <2>3
  <2>4. QED
    BY <1>7, <2>2, <2>3
<1>13. ASSUME NEW n \in rest PROVE \E m \in rest : Feeds(list, m, n)
  <2>1. PICK o \in Before(R, Node(n)) : o \notin Range(x.out)
    BY <1>3, <1>5
  <2>2. PICK l \in Places(list) : l[1] = n /\ list[l[1]][l[2]].dir = "in" /\ o = datum(l)
    BY <1>8
  <2>3. PICK m \in Places(list) : /\ m[1] \in rest /\ list[m[1]][m[2]].dir # "in"
                                  /\ list[m[1]][m[2]].ref = list[l[1]][l[2]].ref
    BY <1>11, <2>1, <2>2
  <2> DEFINE r == list[l[1]][l[2]].ref
  <2>4. r \in Reads(list, n)
    BY <1>10, <2>2 DEF Reads
  <2>5. r \in Writes(list, m[1])
    BY <1>10, <2>3 DEF Writes
  <2>6. Touches(r, r)
    BY <1>10 DEF Touches
  <2>7. Feeds(list, m[1], n)
    BY <2>4, <2>5, <2>6 DEF Feeds
  <2>8. QED
    BY <2>3, <2>7
<1>14. rest \in (SUBSET DOMAIN list) \ {{}}
  BY <1>12
<1> HIDE DEF rest
<1>15. QED
  BY <1>13, <1>14 DEF Acyclic

-----------------------------------------------------------------------------
(* The sorted list. *)

(* The turns at which nodes are output.                                    *)
NodeTurns(out) == {<<k, out[k][2]>> : k \in {j \in DOMAIN out : out[j][1] = 0}}

(* An output that is complete holds each node at one turn.                 *)
LEMMA NodesInTurn ==
  ASSUME NEW list \in Lists, NEW out \in Seq(Objects(list)),
         NoRepeats(out), Range(out) = Objects(list)
  PROVE  LET turns == NodeTurns(out) IN
         /\ turns \in SUBSET (Nat \X Nat) /\ IsFiniteSet(turns)
         /\ Cardinality(turns) = Len(list)
         /\ \A l \in turns : /\ l[1] \in DOMAIN out /\ l[2] \in DOMAIN list
                             /\ out[l[1]] = Node(l[2])
         /\ \A l, m \in turns : l[2] = m[2] => l = m
         /\ \A n \in DOMAIN list : \E l \in turns : l[2] = n
<1> DEFINE turns == NodeTurns(out)
<1>1. /\ DOMAIN list = 1 .. Len(list) /\ Len(list) \in Nat
      /\ DOMAIN out = 1 .. Len(out) /\ Len(out) \in Nat
      /\ \A k \in DOMAIN out : out[k] \in Objects(list)
  BY DEF Lists
<1>2. \A n : Node(n)[1] = 0 /\ Node(n)[2] = n
  BY DEF Node
<1>3. ASSUME NEW o \in Objects(list), o[1] = 0
      PROVE  o[2] \in DOMAIN list /\ o = Node(o[2])
  <2>1. CASE \E n \in DOMAIN list : o = Node(n)
    BY <1>2, <2>1
  <2>2. CASE o \in Places(list)
    <3>1. o[1] \in DOMAIN list
      BY <2>2, PlacesAreParameters
    <3>2. QED
      BY <1>1, <1>3, <3>1
  <2>3. \/ \E n \in DOMAIN list : o = Node(n)
        \/ o \in Places(list)
    BY DataIsAPlace DEF Objects
  <2>4. QED
    BY <2>1, <2>2, <2>3
<1>4. ASSUME NEW l \in turns
      PROVE  /\ l[1] \in DOMAIN out /\ l[2] \in DOMAIN list /\ out[l[1]] = Node(l[2])
             /\ l = <<l[1], l[2]>> /\ l \in Nat \X Nat
  <2>1. PICK k \in DOMAIN out : out[k][1] = 0 /\ l = <<k, out[k][2]>>
    BY DEF NodeTurns
  <2>2. l[1] = k /\ l[2] = out[k][2] /\ l = <<l[1], l[2]>>
    BY <2>1
  <2>3. out[k][2] \in DOMAIN list /\ out[k] = Node(out[k][2])
    BY <1>1, <1>3, <2>1
  <2>4. k \in Nat /\ out[k][2] \in Nat
    BY <1>1, <2>3
  <2>5. QED
    BY <2>1, <2>2, <2>3, <2>4
<1>5. ASSUME NEW n \in DOMAIN list PROVE \E l \in turns : l[2] = n
  <2>1. Node(n) \in Range(out)
    BY DEF Objects
  <2>2. PICK k \in DOMAIN out : out[k] = Node(n)
    BY <2>1 DEF Range
  <2>3. out[k][1] = 0 /\ out[k][2] = n
    BY <1>2, <2>2
  <2>4. <<k, out[k][2]>> \in turns /\ <<k, out[k][2]>>[2] = n
    BY <2>3 DEF NodeTurns
  <2> HIDE DEF turns
  <2>5. QED
    BY <2>4
<1> HIDE DEF turns
<1>6. ASSUME NEW l \in turns, NEW m \in turns, l[2] = m[2] PROVE l = m
  <2>1. l[1] = m[1]
    BY <1>4, <1>6 DEF NoRepeats
  <2>2. l = <<l[1], l[2]>> /\ m = <<m[1], m[2]>>
    BY <1>4
  <2>3. QED
    BY <1>6, <2>1, <2>2
<1> DEFINE node == [l \in turns |-> l[2]]
<1>7. /\ node \in [turns -> DOMAIN list] /\ \A l, m \in turns : node[l] = node[m] => l = m
      /\ \A n \in DOMAIN list : \E l \in turns : node[l] = n
  BY <1>4, <1>5, <1>6
<1> HIDE DEF node
<1>8. node \in Injection(turns, DOMAIN list) /\ node \in Surjection(turns, DOMAIN list)
  BY <1>7, Fun_IsInj, Fun_IsSurj
<1>9. IsFiniteSet(DOMAIN list) /\ Cardinality(DOMAIN list) = Len(list)
  <2> DEFINE n == Len(list)
  <2>1. n \in Nat
    BY <1>1
  <2> HIDE DEF n
  <2>2. IsFiniteSet(1 .. n) /\ Cardinality(1 .. n) = IF 1 > n THEN 0 ELSE n - 1 + 1
    BY <2>1, FS_Interval
  <2>3. IsFiniteSet(1 .. n) /\ Cardinality(1 .. n) = n
    BY <2>1, <2>2
  <2>4. QED
    BY <1>1, <2>3 DEF n
<1>10. IsFiniteSet(turns) /\ Cardinality(turns) = Len(list)
  BY <1>8, <1>9, FS_Injection
<1>11. turns \in SUBSET (Nat \X Nat)
  BY <1>4
<1>12. QED
  BY <1>4, <1>5, <1>6, <1>10, <1>11 DEF turns

(* Sorting permutes a list, and orders one that has no cycle.              *)
LEMMA SortPermutes ==
  ASSUME NEW list \in Lists
  PROVE  \E p \in [DOMAIN list -> DOMAIN list] :
           /\ \A i, j \in DOMAIN list : p[i] = p[j] => i = j
           /\ \A n \in DOMAIN list : \E i \in DOMAIN list : p[i] = n
           /\ TopologicalSort(list) = [i \in DOMAIN list |-> list[p[i]]]
           /\ Acyclic(list) =>
                \A m, n \in DOMAIN list : Precedes(list, p[m], p[n]) => m < n
<1> DEFINE R == Relations(list)
           O == Objects(list)
           N == Len(list)
<1>1. Sortable(R, O)
  BY ListsAreSortable
<1>2. PICK x : Outputs(list) = x.out /\ SortInv(R, O, Cardinality(O), x)
  BY <1>1, OutputsAreInOrder
<1>3. DOMAIN list = 1 .. N /\ N \in Nat
  BY DEF Lists
<1>4. Len(x.out) = Cardinality(O) <=> Range(x.out) = O
  BY <1>1, <1>2, FullOutput
<1>5. CASE Len(x.out) # Cardinality(O)
  <2> DEFINE p == [i \in DOMAIN list |-> i]
  <2>1. TopologicalSort(list) = list
    BY <1>2, <1>5 DEF TopologicalSort
  <2>2. ~Acyclic(list)
    BY <1>2, <1>4, <1>5, NothingIsLeft
  <2>3. list = [i \in DOMAIN list |-> list[i]]
    BY DEF Lists
  <2>4. p \in [DOMAIN list -> DOMAIN list] /\ \A i \in DOMAIN list : p[i] = i
    OBVIOUS
  <2>5. TopologicalSort(list) = [i \in DOMAIN list |-> list[p[i]]]
    BY <2>1, <2>3, <2>4
  <2> HIDE DEF p
  <2>6. QED
    BY <2>2, <2>4, <2>5
<1>6. CASE Len(x.out) = Cardinality(O)
  <2> DEFINE out == x.out
             turns == NodeTurns(out)
             sorted == InOrder(turns)
             p == [i \in DOMAIN list |-> sorted[i][2]]
  <2>1. /\ out \in Seq(O) /\ NoRepeats(out)
        /\ \A i \in DOMAIN out : \A o \in Before(R, out[i]) : \E j \in 1 .. i - 1 : out[j] = o
        /\ DOMAIN out = 1 .. Len(out) /\ Len(out) \in Nat
    BY <1>2 DEF SortInv, Queues
  <2>2. TopologicalSort(list) = [i \in DOMAIN list |-> list[sorted[i][2]]]
    BY <1>2, <1>6 DEF TopologicalSort, NodeTurns
  <2>3. /\ turns \in SUBSET (Nat \X Nat) /\ IsFiniteSet(turns) /\ Cardinality(turns) = N
        /\ \A l \in turns : /\ l[1] \in DOMAIN out /\ l[2] \in DOMAIN list
                            /\ out[l[1]] = Node(l[2])
        /\ \A l, m \in turns : l[2] = m[2] => l = m
        /\ \A n \in DOMAIN list : \E l \in turns : l[2] = n
    <3>1. Range(out) = O
      BY <1>4, <1>6
    <3>2. QED
      BY <2>1, <3>1, NodesInTurn
  <2> HIDE DEF turns
  <2>4. /\ sorted \in [1 .. N -> turns]
        /\ \A l \in turns : \E i \in 1 .. N : sorted[i] = l
        /\ \A i, j \in 1 .. N : i < j => Earlier(sorted[i], sorted[j])
    <3>1. /\ InOrder(turns) \in [1 .. Cardinality(turns) -> turns]
          /\ \A l \in turns : \E i \in 1 .. Cardinality(turns) : InOrder(turns)[i] = l
          /\ \A i, j \in 1 .. Cardinality(turns) :
               i < j => Earlier(InOrder(turns)[i], InOrder(turns)[j])
      BY <2>3, InOrderLists
    <3>2. QED
      BY <2>3, <3>1
  <2> HIDE DEF sorted
  <2>5. p \in [DOMAIN list -> DOMAIN list] /\ \A i \in DOMAIN list : p[i] = sorted[i][2]
    BY <1>3, <2>3, <2>4
  <2>6. TopologicalSort(list) = [i \in DOMAIN list |-> list[p[i]]]
    BY <2>2
  <2> HIDE DEF p
  <2>7. ASSUME NEW i \in DOMAIN list, NEW j \in DOMAIN list, p[i] = p[j] PROVE i = j
    <3>1. sorted[i] = sorted[j] /\ sorted[i] \in Nat \X Nat
      BY <1>3, <2>3, <2>4, <2>5, <2>7
    <3>2. ~Earlier(sorted[i], sorted[j]) /\ ~Earlier(sorted[j], sorted[i])
      BY <3>1, EarlierOrders
    <3>3. QED
      BY <1>3, <2>4, <3>2
  <2>8. ASSUME NEW n \in DOMAIN list PROVE \E i \in DOMAIN list : p[i] = n
    <3>1. PICK l \in turns : l[2] = n
      BY <2>3
    <3>2. PICK i \in 1 .. N : sorted[i] = l
      BY <2>4
    <3>3. QED
      BY <1>3, <2>5, <3>1, <3>2
  <2>9. ASSUME NEW m \in DOMAIN list, NEW n \in DOMAIN list, Precedes(list, p[m], p[n])
        PROVE  m < n
    <3>1. PICK r \in Writes(list, p[m]) \cap Reads(list, p[n]) : r # NoRef
      BY <2>9 DEF Precedes
    <3>2. p[m] \in DOMAIN list /\ p[n] \in DOMAIN list
      BY <2>5
    <3>3. PICK q \in DOMAIN list[p[m]] : list[p[m]][q].dir # "in" /\ list[p[m]][q].ref = r
      BY <3>1 DEF Writes
    <3>4. PICK s \in DOMAIN list[p[n]] : list[p[n]][s].dir = "in" /\ list[p[n]][s].ref = r
      BY <3>1 DEF Reads
    <3> DEFINE a == <<p[m], q>>
               b == <<p[n], s>>
               d == Data(list, r)
    <3>5. /\ a \in Places(list) /\ a[1] = p[m] /\ a[2] = q
          /\ b \in Places(list) /\ b[1] = p[n] /\ b[2] = s
      BY <3>1, <3>2, <3>3, <3>4, PlacesAreParameters
    <3> HIDE DEF a, b
    <3>6. Node(p[m]) \in Before(R, d) /\ d \in Before(R, Node(p[n]))
      <4>1. /\ IF list[a[1]][a[2]].dir = "in"
               THEN Data(list, list[a[1]][a[2]].ref) \in Before(R, Node(a[1]))
               ELSE Node(a[1]) \in Before(R, Data(list, list[a[1]][a[2]].ref))
            /\ IF list[b[1]][b[2]].dir = "in"
               THEN Data(list, list[b[1]][b[2]].ref) \in Before(R, Node(b[1]))
               ELSE Node(b[1]) \in Before(R, Data(list, list[b[1]][b[2]].ref))
        BY <3>5, WaitsOf
      <4>2. QED
        BY <3>3, <3>4, <3>5, <4>1
    <3> HIDE DEF d
    <3> DEFINE i == sorted[m][1]
               k == sorted[n][1]
    <3>7. /\ i \in DOMAIN out /\ k \in DOMAIN out
          /\ out[i] = Node(p[m]) /\ out[k] = Node(p[n])
          /\ sorted[m] \in Nat \X Nat /\ sorted[n] \in Nat \X Nat
      <4>1. sorted[m] \in turns /\ sorted[n] \in turns
        BY <1>3, <2>4
      <4>2. p[m] = sorted[m][2] /\ p[n] = sorted[n][2]
        BY <2>5
      <4> HIDE DEF out
      <4>3. QED
        BY <2>3, <4>1, <4>2
    <3> HIDE DEF i, k, out
    <3>8. PICK j \in 1 .. k - 1 : out[j] = d
      BY <2>1, <3>6, <3>7
    <3>9. j \in DOMAIN out
      BY <2>1, <3>7, <3>8
    <3>10. PICK h \in 1 .. j - 1 : out[h] = Node(p[m])
      BY <2>1, <3>6, <3>8, <3>9
    <3>11. h = i
      <4>1. h \in DOMAIN out
        BY <2>1, <3>9, <3>10
      <4>2. QED
        BY <2>1, <3>7, <3>10, <4>1 DEF NoRepeats
    <3>12. i < k /\ i \in Nat /\ k \in Nat
      BY <2>1, <3>7, <3>8, <3>10, <3>11
    <3>13. ~Earlier(sorted[n], sorted[m]) /\ m # n
      BY <3>12 DEF Earlier, i, k
    <3>14. QED
      BY <1>3, <2>4, <3>13
  <2>10. QED
    BY <2>5, <2>6, <2>7, <2>8, <2>9
<1>7. QED
  BY <1>5, <1>6

(* The sorted list is a list of as many nodes.                             *)
LEMMA SortKeepsLists ==
  ASSUME NEW list \in Lists
  PROVE  TopologicalSort(list) \in Lists /\ Len(TopologicalSort(list)) = Len(list)
<1>1. PICK p \in [DOMAIN list -> DOMAIN list] :
        TopologicalSort(list) = [i \in DOMAIN list |-> list[p[i]]]
  BY SortPermutes
<1>2. DOMAIN list = 1 .. Len(list) /\ Len(list) \in Nat
      /\ \A n \in DOMAIN list : list[n] \in Seq(Params) \ {<<>>}
  BY DEF Lists
<1>3. TopologicalSort(list) \in [1 .. Len(list) -> Seq(Params) \ {<<>>}]
  BY <1>1, <1>2
<1>4. ASSUME NEW Y, NEW n \in Nat, NEW s \in [1 .. n -> Y] PROVE s \in Seq(Y) /\ Len(s) = n
  OBVIOUS
<1>5. QED
  BY <1>2, <1>3, <1>4 DEF Lists

(* The sorted list has the same nodes.                                     *)
LEMMA SortKeepsNodes ==
  ASSUME NEW list \in Lists, NEW params
  PROVE  Occurrences(TopologicalSort(list), params) = Occurrences(list, params)
<1> DEFINE sorted == TopologicalSort(list)
           S == {i \in DOMAIN sorted : sorted[i] = params}
           T == {n \in DOMAIN list : list[n] = params}
<1>1. PICK p \in [DOMAIN list -> DOMAIN list] :
        /\ \A i, j \in DOMAIN list : p[i] = p[j] => i = j
        /\ \A n \in DOMAIN list : \E i \in DOMAIN list : p[i] = n
        /\ sorted = [i \in DOMAIN list |-> list[p[i]]]
  BY SortPermutes
<1>2. DOMAIN sorted = DOMAIN list /\ \A i \in DOMAIN list : sorted[i] = list[p[i]]
  BY <1>1
<1> HIDE DEF sorted
<1> DEFINE f == [i \in S |-> p[i]]
<1>3. /\ f \in [S -> T] /\ \A i, j \in S : f[i] = f[j] => i = j
      /\ \A n \in T : \E i \in S : f[i] = n
  BY <1>1, <1>2
<1>4. IsFiniteSet(T)
  <2>1. IsFiniteSet(1 .. Len(list)) /\ DOMAIN list = 1 .. Len(list)
    BY FS_Interval DEF Lists
  <2>2. T \in SUBSET (1 .. Len(list))
    BY <2>1
  <2> HIDE DEF T
  <2>3. QED
    BY <2>1, <2>2, FS_Subset
<1> HIDE DEF S, T, f
<1>5. f \in Injection(S, T) /\ f \in Surjection(S, T)
  BY <1>3, Fun_IsInj, Fun_IsSurj
<1>6. Cardinality(S) = Cardinality(T)
  BY <1>4, <1>5, FS_Injection
<1>7. QED
  BY <1>6 DEF Occurrences, S, T, sorted

-----------------------------------------------------------------------------
(* Building and verifying a graph. *)

(* A list that a verification yields is one that can be executed, if it is *)
(* to be verified.                                                         *)
LEMMA VerifiedLists ==
  ASSUME Settled, TypeOK, NEW v \in Verifications
  PROVE  /\ v.nodes \in Lists /\ Len(v.nodes) <= MaxNodes /\ v.verified \in BOOLEAN
         /\ v.verified => /\ ~Missing(v.nodes) /\ SingleWriters(v.nodes) /\ Acyclic(v.nodes)
                          /\ v.heads = Heads(v.nodes) /\ v.heads \subseteq DOMAIN v.nodes
<1> DEFINE list == TopologicalSort(nodes)
<1>1. nodes \in Lists /\ Len(nodes) <= MaxNodes
  BY DEF TypeOK, Lists
<1>2. list \in Lists /\ Len(list) <= MaxNodes
  BY <1>1, SortKeepsLists
<1>3. PICK env \in Environments : v = Verification(list, env)
  BY DEF Verifications
<1>4. env.deinit = TRUE /\ env.checks \in BOOLEAN
  BY <1>3 DEF Environments, Settled
<1> HIDE DEF list
<1>5. v = [nodes |-> list, heads |-> IF env.checks /\ Runnable(list) THEN Heads(list) ELSE {},
           verified |-> env.checks /\ Runnable(list)]
  BY <1>3, <1>4 DEF Verification
<1>6. ASSUME Runnable(list)
      PROVE  ~Missing(list) /\ SingleWriters(list) /\ Acyclic(list)
  <2>1. ~Missing(list) /\ ~MultipleWriters(list)
    BY <1>6 DEF Runnable
  <2>2. QED
    BY <1>2, <1>6, <2>1, ScanFindsWriters, RunnableIsAcyclic
<1>7. Heads(list) \subseteq DOMAIN list /\ Runnable(list) \in BOOLEAN
  BY DEF Heads, Runnable, Missing
<1>8. QED
  BY <1>2, <1>4, <1>5, <1>6, <1>7

(* ownRemoveNodeInt leaves a list with a node less.                        *)
LEMMA WithoutIsAList ==
  ASSUME NEW list \in Lists, NEW i \in DOMAIN list
  PROVE  Without(list, i) \in Lists /\ Len(Without(list, i)) = Len(list) - 1
<1> DEFINE swapped == [list EXCEPT ![i] = Last(list)]
<1>1. Len(list) \in Nat /\ i \in 1 .. Len(list)
  BY DEF Lists
<1>2. Last(list) \in Seq(Params) \ {<<>>}
  BY <1>1 DEF Last, Lists
<1>3. swapped \in Lists /\ Len(swapped) = Len(list)
  BY <1>1, <1>2 DEF Lists
<1> HIDE DEF swapped
<1>4. Without(list, i) = SubSeq(swapped, 1, Len(list) - 1)
  BY <1>3 DEF Without, Front, swapped
<1> DEFINE n == Len(list) - 1
           X == Seq(Params) \ {<<>>}
<1>5. swapped \in Seq(X) /\ n \in Nat /\ Len(swapped) = n + 1
  BY <1>1, <1>3 DEF Lists
<1> HIDE DEF n, X
<1>6. SubSeq(swapped, 1, n) \in Seq(X) /\ Len(SubSeq(swapped, 1, n)) = n
  BY <1>5
<1>7. QED
  BY <1>4, <1>6 DEF Lists, n, X

(* The application can only build lists of nodes, as long as MaxNodes.     *)
Built == nodes \in Lists /\ Len(nodes) <= MaxNodes

(* Every step keeps the list of nodes one that can be built.               *)
LEMMA BuildStep == Built /\ [Next]_vars => Built'
<1> SUFFICES ASSUME Built, [Next]_vars PROVE Built'
  OBVIOUS
<1>1. /\ nodes \in Lists /\ DOMAIN nodes = 1 .. Len(nodes) /\ Len(nodes) \in Nat
      /\ Len(nodes) <= MaxNodes /\ Nodes = DOMAIN nodes
  BY DEF Built, Lists, Nodes
<1>2. \A v \in Verifications : v.nodes \in Lists /\ Len(v.nodes) <= MaxNodes
  <2>1. ASSUME NEW v \in Verifications PROVE v.nodes = TopologicalSort(nodes)
    <3> DEFINE list == TopologicalSort(nodes)
    <3>1. PICK env \in Environments : v = Verification(list, env)
      BY DEF Verifications
    <3> HIDE DEF list
    <3>2. \E h, ok : v = [nodes |-> list, heads |-> h, verified |-> ok]
      BY <3>1 DEF Verification
    <3>3. v.nodes = list
      BY <3>2
    <3>4. QED
      BY <3>3 DEF list
  <2>2. QED
    BY <1>1, <2>1, SortKeepsLists
<1>3. ASSUME NEW params \in Catalog, CreateNode(params) PROVE Built'
  <2>1. params \in Seq(Params) \ {<<>>}
    BY CatalogAssumption
  <2>2. QED
    BY <1>1, <1>3, <2>1, MaxNodesAssumption DEF CreateNode, Lists, Built
<1>4. ASSUME NEW i \in Nodes, RemoveNode(i) PROVE Built'
  BY <1>1, <1>4, MaxNodesAssumption, WithoutIsAList DEF RemoveNode, Built
<1>5. ASSUME NEW i \in Nodes, NEW p \in DOMAIN nodes[i], NEW r \in Refs,
             SetParameterByIndex(i, p, r)
      PROVE  Built'
  <2>1. nodes' = [nodes EXCEPT ![i] = nodes'[i]] /\ nodes'[i] \in Catalog
    BY <1>1, <1>5 DEF SetParameterByIndex
  <2>2. PICK params \in Seq(Params) \ {<<>>} : nodes' = [nodes EXCEPT ![i] = params]
    BY <2>1, CatalogAssumption
  <2>3. QED
    BY <1>1, <2>2 DEF Lists, Built
<1>6. CASE VerifyGraph
  BY <1>2, <1>6 DEF VerifyGraph, Built
<1>7. ASSUME NEW m \in Modes, ProcessGraph(m) PROVE Built'
  <2>1. PICK v \in IF verified THEN {[nodes |-> nodes, heads |-> heads, verified |-> TRUE]}
                   ELSE Verifications : nodes' = v.nodes
    BY <1>7 DEF ProcessGraph
  <2>2. CASE verified
    BY <1>1, <2>1, <2>2 DEF Built
  <2>3. CASE ~verified
    BY <1>2, <2>1, <2>3 DEF Built
  <2>4. QED
    BY <2>2, <2>3
<1>8. CASE UNCHANGED nodes
  BY <1>1, <1>8 DEF Built
<1>9. ASSUME NEW n, StartNode(n) \/ (\E a : FinishNode(n, a)) \/ Decide \/ End
      PROVE  UNCHANGED nodes
  BY <1>9 DEF StartNode, FinishNode, Decide, End, graphVars
<1>10. QED
  BY <1>3, <1>4, <1>5, <1>6, <1>7, <1>8, <1>9 DEF Next, vars

(* A step between two executions.                                          *)
LEMMA IdleTypes ==
  ASSUME IInv, pc = "idle", UNCHANGED runVars,
         nodes' \in Lists, Len(nodes') <= MaxNodes,
         verified' \in BOOLEAN, reverify' \in BOOLEAN,
         state' \in {"UNVERIFIED", "VERIFIED", "RUNNING", "COMPLETED", "ABANDONED"},
         verified' => heads' \subseteq Nodes'
  PROVE  TypeOK'
<1>1. TypeOK /\ left \cup visited \cup executed = {}
  BY DEF IInv, ExecInv
<1>2. pc' = "idle" /\ UNCHANGED <<mode, next, todo, running, runs, action>>
      /\ left' \cup visited' \cup executed' = {}
  BY <1>1 DEF runVars
<1>3. mode' \in Modes /\ action' \in {"CONTINUE", "ABANDON"}
      /\ <<next', todo', running', runs'>> = <<(<<>>), <<>>, <<>>, <<>>>>
  BY <1>1, <1>2 DEF TypeOK, Modes
<1>4. nodes' \in Seq(Seq(Params) \ {<<>>})
  BY DEF Lists
<1>5. QED
  BY <1>2, <1>3, <1>4 DEF TypeOK

(* Every step keeps the types.                                             *)
LEMMA TypeStep == Settled /\ IInv /\ [Next]_vars => TypeOK'
<1> SUFFICES ASSUME Settled, IInv, [Next]_vars PROVE TypeOK'
  OBVIOUS
<1> USE DEF IInv
<1>1. TypeOK /\ nodes \in Lists /\ DOMAIN nodes = 1 .. Len(nodes) /\ Len(nodes) \in Nat
  BY DEF TypeOK, Lists
<1>2. nodes' \in Lists /\ Len(nodes') <= MaxNodes
  BY <1>1, BuildStep DEF Built, TypeOK
<1>3. ASSUME NEW params \in Catalog, CreateNode(params) PROVE TypeOK'
  BY <1>1, <1>2, <1>3, IdleTypes DEF CreateNode, Unverify, TypeOK, runVars
<1>4. ASSUME NEW i \in Nodes, RemoveNode(i) PROVE TypeOK'
  BY <1>1, <1>2, <1>4, IdleTypes DEF RemoveNode, Unverify, TypeOK, runVars
<1>5. ASSUME NEW i \in Nodes, NEW p \in DOMAIN nodes[i], NEW r \in Refs,
             SetParameterByIndex(i, p, r)
      PROVE  TypeOK'
  <2>1. ~verified
    BY <1>5 DEF SetParameterByIndex, Settled
  <2>2. QED
    BY <1>1, <1>2, <1>5, <2>1, IdleTypes DEF SetParameterByIndex, TypeOK, runVars
<1>6. CASE VerifyGraph
  <2>1. PICK v \in Verifications :
          /\ nodes' = v.nodes /\ heads' = v.heads /\ verified' = v.verified
          /\ state' = IF v.verified THEN "VERIFIED" ELSE "UNVERIFIED"
    BY <1>6 DEF VerifyGraph
  <2>2. /\ nodes' \in Lists /\ Len(nodes') <= MaxNodes /\ verified' \in BOOLEAN
        /\ verified' => heads' \subseteq Nodes'
    BY <1>1, <2>1, VerifiedLists DEF Nodes
  <2>3. state' \in {"UNVERIFIED", "VERIFIED"}
    BY <2>1
  <2>4. QED
    BY <1>6, <2>2, <2>3, IdleTypes DEF VerifyGraph, runVars
<1>7. ASSUME NEW m \in Modes, ProcessGraph(m) PROVE TypeOK'
  <2>1. PICK v \in IF verified THEN {[nodes |-> nodes, heads |-> heads, verified |-> TRUE]}
                   ELSE Verifications :
          /\ nodes' = v.nodes /\ heads' = v.heads /\ verified' = v.verified
          /\ state' = IF v.verified THEN "RUNNING" ELSE "UNVERIFIED"
          /\ IF v.verified
             THEN /\ pc' = "batch" /\ mode' = m
                  /\ next' = Once(v.nodes, v.heads) /\ todo' = Once(v.nodes, v.heads)
                  /\ running' = Once(v.nodes, {}) /\ runs' = Once(v.nodes, {})
                  /\ UNCHANGED <<left, visited, executed, action>>
             ELSE UNCHANGED runVars
    BY <1>7 DEF ProcessGraph
  <2>2. /\ nodes' \in Lists /\ Len(nodes') <= MaxNodes /\ verified' \in BOOLEAN
        /\ verified' => heads' \subseteq Nodes'
    <3>1. CASE verified
      <4>1. v = [nodes |-> nodes, heads |-> heads, verified |-> TRUE]
        BY <3>1
      <4>2. nodes' = nodes /\ heads' = heads /\ verified' = TRUE
        BY <2>1, <4>1
      <4>3. QED
        BY <1>1, <3>1, <4>2 DEF TypeOK, Nodes
    <3>2. CASE ~verified
      BY <1>1, <2>1, <3>2, VerifiedLists DEF Nodes
    <3>3. QED
      BY <3>1, <3>2
  <2>3. ASSUME NEW S PROVE Once(nodes', S) \in [Nodes' -> Nat]
    BY DEF Once, Nodes
  <2>4. pc = "idle" /\ left \cup visited \cup executed = {}
    BY <1>7 DEF ProcessGraph, ExecInv
  <2>5. reverify' \in BOOLEAN /\ state' \in {"RUNNING", "UNVERIFIED"}
    BY <1>1, <1>7, <2>1 DEF ProcessGraph, TypeOK
  <2>6. CASE v.verified
    <3>1. {next', todo', running', runs'} \subseteq [Nodes' -> Nat]
      BY <2>1, <2>3, <2>6
    <3>2. nodes' \in Seq(Seq(Params) \ {<<>>})
      BY <2>2 DEF Lists
    <3>3. left' \cup visited' \cup executed' \subseteq Nodes' /\ action' = action
          /\ pc' = "batch" /\ mode' \in Modes
      BY <2>1, <2>4, <2>6
    <3>4. QED
      BY <1>1, <2>2, <2>5, <3>1, <3>2, <3>3 DEF TypeOK
  <2>7. CASE ~v.verified
    BY <2>1, <2>2, <2>4, <2>5, <2>7, IdleTypes
  <2>8. QED
    BY <2>6, <2>7
<1>8. ASSUME NEW n \in Nodes, StartNode(n) PROVE TypeOK'
  <2>1. /\ pc = "batch" /\ n \in Listed(todo)
        /\ todo' = Take(todo, n) /\ running' = Put(running, n) /\ runs' = Put(runs, n)
        /\ UNCHANGED <<nodes, verified, reverify, state, heads>>
        /\ UNCHANGED <<pc, mode, next, left, visited, executed, action>>
    BY <1>8 DEF StartNode, graphVars
  <2>2. {next, todo, running, runs} \subseteq [Nodes -> Nat] /\ todo[n] > 0
    BY <1>1, <2>1 DEF TypeOK, Listed
  <2>3. todo' \in [Nodes -> Nat]
    BY <2>1, <2>2 DEF Take
  <2>4. running' \in [Nodes -> Nat] /\ runs' \in [Nodes -> Nat]
    BY <2>1, <2>2 DEF Put
  <2>5. {next', todo', running', runs'} \subseteq [Nodes' -> Nat] /\ Nodes' = Nodes
    BY <2>1, <2>2, <2>3, <2>4 DEF Nodes
  <2>6. QED
    BY <1>1, <2>1, <2>5 DEF TypeOK
<1>9. ASSUME NEW n \in Nodes, NEW a \in {"CONTINUE", "ABANDON"}, FinishNode(n, a)
      PROVE  TypeOK'
  <2>1. running \in [Nodes -> Nat] /\ running[n] > 0
    BY <1>1, <1>9 DEF FinishNode, TypeOK, Listed
  <2>2. running' \in [Nodes -> Nat]
    BY <1>9, <2>1 DEF FinishNode, Take
  <2>3. action' \in {"CONTINUE", "ABANDON"} /\ executed' = executed \cup {n}
    BY <1>1, <1>9 DEF FinishNode, TypeOK
  <2>4. /\ pc = "batch" /\ UNCHANGED <<nodes, verified, reverify, state, heads>>
        /\ UNCHANGED <<pc, mode, next, todo, left, visited, runs>>
    BY <1>9 DEF FinishNode, graphVars
  <2>5. QED
    BY <1>1, <2>2, <2>3, <2>4 DEF TypeOK, Nodes
<1>10. CASE Decide
  <2>1. FindNext \in [Nodes -> Nat] /\ Listed(FindNext) \subseteq Nodes
    BY DEF FindNext, Once, Nodes, Listed
  <2>2. Possible \subseteq Nodes
    <3>1. \A n : Children(nodes, n) \subseteq Nodes
      BY NeighboursAreNodes DEF Nodes
    <3>2. left \subseteq Nodes
      BY <1>1 DEF TypeOK
    <3>3. QED
      BY <3>1, <3>2 DEF Possible
  <2>3. QED
    BY <1>1, <1>10, <2>1, <2>2 DEF Decide, TypeOK, graphVars, Nodes
<1>11. CASE End
  BY <1>1, <1>11 DEF End, TypeOK, Nodes, Modes
<1>12. CASE UNCHANGED vars
  BY <1>1, <1>12 DEF vars, TypeOK, Nodes
<1>13. QED
  BY <1>3, <1>4, <1>5, <1>6, <1>7, <1>8, <1>9, <1>10, <1>11, <1>12 DEF Next

-----------------------------------------------------------------------------
(* Executing it. *)

(* The steps that leave the graph as it was, or unverify it, keep what the *)
(* verification promised; a new verification makes it anew.                *)
LEMMA VerifyStep == Settled /\ IInv /\ [Next]_vars => VerifyInv'
<1> SUFFICES ASSUME Settled, IInv, [Next]_vars PROVE VerifyInv'
  OBVIOUS
<1> USE DEF IInv
<1>1. TypeOK
  OBVIOUS
<1>2. CASE UNCHANGED <<nodes, verified, heads>>
  BY <1>2 DEF VerifyInv
<1>3. CASE verified' = FALSE
  BY <1>3 DEF VerifyInv
<1>4. ASSUME NEW v \in Verifications, nodes' = v.nodes, heads' = v.heads, verified' = v.verified
      PROVE  VerifyInv'
  BY <1>1, <1>4, VerifiedLists DEF VerifyInv
<1>5. ASSUME NEW params \in Catalog, CreateNode(params) PROVE VerifyInv'
  BY <1>3, <1>5 DEF CreateNode, Unverify
<1>6. ASSUME NEW i \in Nodes, RemoveNode(i) PROVE VerifyInv'
  BY <1>3, <1>6 DEF RemoveNode, Unverify
<1>7. ASSUME NEW i \in Nodes, NEW p \in DOMAIN nodes[i], NEW r \in Refs,
             SetParameterByIndex(i, p, r)
      PROVE  VerifyInv'
  BY <1>1, <1>3, <1>7 DEF SetParameterByIndex, Settled, TypeOK
<1>8. CASE VerifyGraph
  BY <1>4, <1>8 DEF VerifyGraph
<1>9. ASSUME NEW m \in Modes, ProcessGraph(m) PROVE VerifyInv'
  <2>1. CASE verified
    <3>1. \E v \in {[nodes |-> nodes, heads |-> heads, verified |-> TRUE]} :
            nodes' = v.nodes /\ heads' = v.heads /\ verified' = v.verified
      BY <1>9, <2>1 DEF ProcessGraph
    <3>2. nodes' = nodes /\ heads' = heads /\ verified' = TRUE
      BY <3>1
    <3>3. QED
      BY <1>1, <1>2, <2>1, <3>2 DEF TypeOK
  <2>2. CASE ~verified
    BY <1>4, <1>9, <2>2 DEF ProcessGraph
  <2>3. QED
    BY <2>1, <2>2
<1>10. ASSUME NEW n \in Nodes, StartNode(n) PROVE VerifyInv'
  BY <1>2, <1>10 DEF StartNode, graphVars
<1>11. ASSUME NEW n \in Nodes, NEW a \in {"CONTINUE", "ABANDON"}, FinishNode(n, a)
       PROVE  VerifyInv'
  BY <1>2, <1>11 DEF FinishNode, graphVars
<1>12. CASE Decide
  BY <1>2, <1>12 DEF Decide, graphVars
<1>13. CASE End
  BY <1>2, <1>13 DEF End
<1>14. CASE UNCHANGED vars
  BY <1>2, <1>14 DEF vars
<1>15. QED
  BY <1>5, <1>6, <1>7, <1>8, <1>9, <1>10, <1>11, <1>12, <1>13, <1>14 DEF Next

(* The first batch are the heads, and nothing was executed.                *)
LEMMA FirstBatch ==
  ASSUME Settled, IInv, TypeOK', VerifyInv', NEW m \in Modes, ProcessGraph(m)
  PROVE  ExecInv'
<1>1. PICK v \in IF verified THEN {[nodes |-> nodes, heads |-> heads, verified |-> TRUE]}
                 ELSE Verifications :
        /\ nodes' = v.nodes /\ heads' = v.heads /\ verified' = v.verified
        /\ IF v.verified
           THEN /\ pc' = "batch"
                /\ next' = Once(v.nodes, v.heads) /\ todo' = Once(v.nodes, v.heads)
                /\ running' = Once(v.nodes, {}) /\ runs' = Once(v.nodes, {})
                /\ UNCHANGED <<left, visited, executed, action>>
           ELSE UNCHANGED runVars
  BY DEF ProcessGraph
<1>2. pc = "idle" /\ left = {} /\ visited = {} /\ executed = {} /\ action = "CONTINUE"
  BY DEF ProcessGraph, IInv, ExecInv
<1>3. CASE ~v.verified
  BY <1>1, <1>2, <1>3 DEF runVars, ExecInv
<1>4. CASE v.verified
  <2>1. /\ pc' = "batch" /\ verified' = TRUE /\ heads' = Heads(nodes') /\ Acyclic(nodes')
        /\ nodes' \in Lists
    <3>1. verified' = TRUE
      BY <1>1, <1>4 DEF TypeOK
    <3>2. nodes' \in Lists
      BY DEF TypeOK, Lists
    <3>3. QED
      BY <1>1, <1>4, <3>1, <3>2 DEF VerifyInv
  <2>2. /\ next' = Once(nodes', heads') /\ todo' = Once(nodes', heads')
        /\ running' = Once(nodes', {}) /\ runs' = Once(nodes', {})
        /\ left' = {} /\ visited' = {} /\ executed' = {}
    BY <1>1, <1>2, <1>4
  <2>3. ASSUME NEW S
        PROVE  /\ DOMAIN Once(nodes', S) = DOMAIN nodes'
               /\ \A n \in DOMAIN nodes' : Once(nodes', S)[n] = IF n \in S THEN 1 ELSE 0
    BY DEF Once
  <2>4. heads' \subseteq DOMAIN nodes' /\ \A n \in heads' : Producers(nodes', n) = {}
    BY <2>1, HeadsReadNothing
  <2>5. Listed(next)' = heads' /\ Listed(todo)' = heads' /\ Listed(running)' = {}
    BY <2>2, <2>3, <2>4 DEF Listed
  <2>6. BatchInv'
    BY <2>2, <2>3, <2>4, <2>5 DEF BatchInv, Done, Nodes
  <2>7. \A n \in Nodes' : runs'[n] <= 1
    BY <2>2, <2>3 DEF Nodes
  <2>8. QED
    BY <2>1, <2>6, <2>7 DEF ExecInv
<1>5. QED
  BY <1>3, <1>4

(* A node leaves the list of those that wait.                              *)
LEMMA Starts ==
  ASSUME IInv, NEW n \in Nodes, StartNode(n)
  PROVE  ExecInv'
<1>1. /\ pc = "batch" /\ pc' = "batch" /\ verified' = verified /\ nodes' = nodes /\ heads' = heads
      /\ next' = next /\ left' = left /\ visited' = visited /\ executed' = executed
      /\ todo' = [todo EXCEPT ![n] = @ - 1] /\ running' = [running EXCEPT ![n] = @ + 1]
      /\ runs' = [runs EXCEPT ![n] = @ + 1] /\ todo[n] > 0
  BY DEF StartNode, graphVars, Take, Put, Listed
<1>2. /\ todo \in [Nodes -> Nat] /\ running \in [Nodes -> Nat] /\ runs \in [Nodes -> Nat]
      /\ next \in [Nodes -> Nat]
  BY <1>1 DEF IInv, TypeOK
<1>3. BatchInv /\ verified /\ \A k \in Nodes : runs[k] <= 1
  BY <1>1 DEF IInv, ExecInv
<1>4. Nodes' = Nodes /\ \A k \in Nodes : Done(k)' = Done(k) /\ Done(k) \in {0, 1}
  BY <1>1 DEF Nodes, Done
<1>5. ASSUME NEW k \in Nodes
      PROVE  /\ todo'[k] + running'[k] = todo[k] + running[k] /\ todo'[k] \in Nat
             /\ running'[k] \in Nat /\ runs'[k] = running'[k] + Done(k)
             /\ todo[k] + running[k] + Done(k) <= 1
             /\ todo'[k] > 0 \/ running'[k] > 0 <=> todo[k] > 0 \/ running[k] > 0
  BY <1>1, <1>2, <1>3, <1>4 DEF BatchInv
<1>6. Listed(todo)' \cup Listed(running)' = Listed(todo) \cup Listed(running)
  BY <1>1, <1>2, <1>5 DEF Listed
<1>7. Listed(next)' = Listed(next)
  BY <1>1 DEF Listed
<1>8. BatchInv'
  BY <1>1, <1>3, <1>4, <1>5, <1>6, <1>7 DEF BatchInv
<1>9. \A k \in Nodes : runs'[k] <= 1
  BY <1>4, <1>5
<1>10. QED
  BY <1>1, <1>3, <1>4, <1>8, <1>9 DEF ExecInv

(* A node that ends was in the batch, and now is executed.                 *)
LEMMA Finishes ==
  ASSUME IInv, NEW n \in Nodes, NEW a, FinishNode(n, a)
  PROVE  ExecInv'
<1>1. /\ pc = "batch" /\ pc' = "batch" /\ verified' = verified /\ nodes' = nodes /\ heads' = heads
      /\ next' = next /\ left' = left /\ visited' = visited /\ executed' = executed \cup {n}
      /\ todo' = todo /\ running' = [running EXCEPT ![n] = @ - 1]
      /\ runs' = runs /\ running[n] > 0
  BY DEF FinishNode, graphVars, Take, Listed
<1>2. /\ todo \in [Nodes -> Nat] /\ running \in [Nodes -> Nat] /\ runs \in [Nodes -> Nat]
      /\ next \in [Nodes -> Nat]
  BY <1>1 DEF IInv, TypeOK
<1>3. BatchInv /\ verified /\ \A k \in Nodes : runs[k] <= 1
  BY <1>1 DEF IInv, ExecInv
<1>4. Nodes' = Nodes /\ \A k \in Nodes : Done(k)' = (IF k = n THEN 1 ELSE Done(k)) /\ Done(k) \in {0, 1}
  BY <1>1 DEF Nodes, Done
<1>5. todo[n] = 0 /\ running[n] = 1 /\ Done(n) = 0
  BY <1>1, <1>2, <1>3, <1>4 DEF BatchInv
<1>6. ASSUME NEW k \in Nodes
      PROVE  /\ todo'[k] + running'[k] + Done(k)' <= 1
             /\ runs'[k] = running'[k] + Done(k)'
             /\ k # n => running'[k] = running[k]
  BY <1>1, <1>2, <1>3, <1>4, <1>5 DEF BatchInv
<1>7. /\ Listed(next)' = Listed(next) /\ Listed(todo)' = Listed(todo)
      /\ Listed(running)' = Listed(running) \ {n} /\ n \in Listed(running)
  BY <1>1, <1>2, <1>5, <1>6 DEF Listed
<1>8. n \in Listed(next)
  BY <1>3, <1>7 DEF BatchInv
<1>9. executed' \ Listed(next)' = executed \ Listed(next)
      /\ Listed(next)' \cup executed' = Listed(next) \cup executed
  BY <1>1, <1>7, <1>8
<1>10. /\ Listed(todo)' \cup Listed(running)' \subseteq Listed(next)'
       /\ Listed(next)' \subseteq Listed(todo)' \cup Listed(running)' \cup executed'
  BY <1>1, <1>3, <1>7 DEF BatchInv
<1>11. BatchInv'
  BY <1>1, <1>3, <1>4, <1>6, <1>7, <1>9, <1>10 DEF BatchInv
<1>12. QED
  BY <1>1, <1>3, <1>4, <1>11 DEF ExecInv

(* The nodes that come next were not started yet: none of them is a head,  *)
(* and the others are visited when they are listed.                        *)
LEMMA NextAreNew ==
  ASSUME IInv, pc = "batch", NEW n \in Listed(FindNext)
  PROVE  /\ n \in Nodes /\ n \in Possible /\ Ready(n)
         /\ n \notin visited \cup heads
<1>1. n \in Nodes /\ n \in Possible /\ Ready(n) /\ n \notin visited
  BY DEF Listed, FindNext, Once, Nodes
<1>2. nodes \in Lists /\ BatchInv /\ Acyclic(nodes) /\ heads = Heads(nodes)
  BY DEF IInv, TypeOK, ExecInv, VerifyInv, Lists
<1>3. SUFFICES ASSUME n \in heads PROVE FALSE
  BY <1>1
<1>4. Producers(nodes, n) = {} /\ n \notin left
  BY <1>2, <1>3, HeadsReadNothing DEF BatchInv
<1>5. PICK m \in Listed(next) : n \in Children(nodes, m)
  BY <1>1, <1>4 DEF Possible
<1>6. m \in DOMAIN nodes
  BY DEF Listed, IInv, TypeOK, Nodes
<1>7. m \in Producers(nodes, n)
  BY <1>1, <1>2, <1>5, <1>6, ChildrenAreFed, ProducersFeed DEF Nodes
<1>8. QED
  BY <1>4, <1>7

(* What is not executed when the batch is empty waits for something that   *)
(* is not executed either, which no graph without cycles does.             *)
LEMMA NothingWaits ==
  ASSUME IInv, pc = "batch", Listed(next) \subseteq executed, Listed(FindNext) = {}
  PROVE  executed = Nodes
<1>1. nodes \in Lists /\ BatchInv /\ Acyclic(nodes) /\ heads = Heads(nodes)
      /\ executed \subseteq Nodes
  BY DEF IInv, TypeOK, ExecInv, VerifyInv, Lists
<1>2. SUFFICES ASSUME Nodes \ executed # {} PROVE FALSE
  BY <1>1
<1>3. visited \cup heads = executed
  BY <1>1 DEF BatchInv
<1>4. PICK n \in Nodes \ executed : \A m \in Nodes \ executed : ~Feeds(nodes, m, n)
  <2>1. Nodes \ executed \in (SUBSET DOMAIN nodes) \ {{}}
    BY <1>2 DEF Nodes
  <2>2. QED
    BY <1>1, <2>1 DEF Acyclic
<1>5. Producers(nodes, n) \subseteq executed
  BY <1>1, <1>4, NeighboursAreNodes, ProducersFeed DEF Nodes
<1>6. PICK m \in Producers(nodes, n) : m \in executed
  <2>1. n \notin heads /\ n \in DOMAIN nodes
    BY <1>3, <1>4 DEF Nodes
  <2>2. Producers(nodes, n) # {}
    BY <1>1, <2>1 DEF Heads
  <2>3. QED
    BY <1>5, <2>2
<1>7. n \in Possible
  <2>1. CASE m \in Listed(next)
    <3>1. n \in Children(nodes, m)
      BY <1>1, <1>4, <1>6, ChildrenAreFed, ProducersFeed DEF Nodes
    <3>2. QED
      BY <2>1, <3>1 DEF Possible
  <2>2. CASE m \notin Listed(next)
    <3>1. n \in left
      BY <1>1, <1>3, <1>4, <1>6, <2>2 DEF BatchInv
    <3>2. QED
      BY <3>1 DEF Possible
  <2>3. QED
    BY <2>1, <2>2
<1>8. n \in Listed(FindNext)
  <2>1. n \in DOMAIN nodes /\ n \notin visited /\ Ready(n)
    BY <1>3, <1>4, <1>5 DEF Nodes, Ready
  <2>2. QED
    BY <1>7, <2>1 DEF FindNext, Once, Listed
<1>9. QED
  BY <1>8

(* The end of a batch that goes on.                                        *)
LEMMA NextBatch ==
  ASSUME IInv, Decide, action # "ABANDON"
  PROVE  ExecInv'
<1>1. /\ pc = "batch" /\ next' = FindNext /\ todo' = FindNext /\ action' = action
      /\ left' = {n \in Possible : ~Ready(n)} /\ visited' = visited \cup Listed(FindNext)
      /\ pc' = (IF Listed(FindNext) = {} THEN "end" ELSE "batch")
      /\ nodes' = nodes /\ heads' = heads /\ verified' = verified
      /\ executed' = executed /\ running' = running /\ runs' = runs /\ BatchOver
  BY DEF Decide, graphVars
<1>2. /\ todo \in [Nodes -> Nat] /\ running \in [Nodes -> Nat] /\ runs \in [Nodes -> Nat]
      /\ next \in [Nodes -> Nat] /\ left \cup visited \cup executed \subseteq Nodes
  BY <1>1 DEF IInv, TypeOK
<1>3. /\ BatchInv /\ verified /\ \A k \in Nodes : runs[k] <= 1
      /\ nodes \in Lists /\ Acyclic(nodes) /\ heads = Heads(nodes)
  BY <1>1 DEF IInv, ExecInv, VerifyInv, TypeOK, Lists
<1>4. Listed(running) = {} /\ \A k \in Nodes : running[k] = 0
  BY <1>1, <1>2 DEF BatchOver, Listed
<1>5. Listed(todo) = {}
  <2>1. Listed(todo) \cap executed = {}
    BY <1>2, <1>3 DEF BatchInv, Listed, Done
  <2>2. QED
    BY <1>1, <2>1 DEF BatchOver
<1>6. Listed(next) \subseteq executed /\ executed = visited \cup heads
  BY <1>3, <1>4, <1>5 DEF BatchInv
<1>7. CASE Listed(FindNext) = {}
  <2>1. executed = Nodes
    BY <1>1, <1>6, <1>7, NothingWaits
  <2>2. QED
    BY <1>1, <1>3, <1>7, <2>1 DEF ExecInv, Nodes
<1>8. CASE Listed(FindNext) # {}
  <2>1. /\ Nodes' = Nodes /\ Listed(next)' = Listed(FindNext) /\ Listed(todo)' = Listed(FindNext)
        /\ Listed(running)' = {} /\ \A k \in Nodes : Done(k)' = Done(k)
    BY <1>1, <1>4 DEF Nodes, Listed, Done
  <2>2. \A n \in Listed(FindNext) : n \in Nodes /\ n \notin executed /\ Producers(nodes, n) \subseteq executed
    BY <1>1, <1>6, NextAreNew DEF Ready
  <2>3. \A k \in Nodes : /\ FindNext[k] = IF k \in Listed(FindNext) THEN 1 ELSE 0
    BY DEF Listed, FindNext, Once, Nodes
  <2>4. \A k \in Nodes : /\ todo'[k] + running'[k] + Done(k)' <= 1
                         /\ runs'[k] = running'[k] + Done(k)'
    BY <1>1, <1>2, <1>3, <1>4, <2>1, <2>2, <2>3 DEF BatchInv, Done
  <2>5. left' \cap heads' = {}
    BY <1>1, <1>3, HeadsReadNothing DEF Ready
  <2>6. ASSUME NEW n \in Nodes \ (visited' \cup heads'),
               Producers(nodes, n) \cap (executed \ Listed(FindNext)) # {}
        PROVE  n \in left'
    <3>1. PICK m \in Producers(nodes, n) : m \in executed
      BY <2>6
    <3>2. n \in Possible
      <4>1. CASE m \in Listed(next)
        <5>1. n \in Children(nodes, m)
          BY <1>2, <1>3, <3>1, ChildrenAreFed, ProducersFeed DEF Nodes
        <5>2. QED
          BY <4>1, <5>1 DEF Possible
      <4>2. CASE m \notin Listed(next)
        <5>1. n \in left
          BY <1>1, <1>3, <3>1, <4>2 DEF BatchInv
        <5>2. QED
          BY <5>1 DEF Possible
      <4>3. QED
        BY <4>1, <4>2
    <3>3. n \notin Listed(FindNext) /\ n \in DOMAIN nodes /\ n \notin visited
      BY <1>1 DEF Nodes
    <3>4. ~Ready(n)
      BY <3>2, <3>3 DEF Listed, FindNext, Once
    <3>5. QED
      BY <1>1, <3>2, <3>4
  <2>7. /\ Listed(todo)' \cup Listed(running)' \subseteq Listed(next)'
        /\ Listed(next)' \subseteq Listed(todo)' \cup Listed(running)' \cup executed'
        /\ Listed(next)' \cup executed' = visited' \cup heads'
    BY <1>1, <1>6, <2>1
  <2>8. BatchInv'
    BY <1>1, <2>1, <2>2, <2>4, <2>5, <2>6, <2>7 DEF BatchInv
  <2>9. QED
    BY <1>1, <1>3, <1>8, <2>1, <2>8 DEF ExecInv
<1>9. QED
  BY <1>7, <1>8

(* Every step keeps the lists of vxExecuteGraph in step with the graph.    *)
LEMMA ExecStep == Settled /\ IInv /\ [Next]_vars => ExecInv'
<1> SUFFICES ASSUME Settled, IInv, [Next]_vars PROVE ExecInv'
  OBVIOUS
<1>1. TypeOK' /\ VerifyInv' /\ ExecInv
  BY TypeStep, VerifyStep DEF IInv
<1>2. CASE pc = "idle" /\ UNCHANGED runVars
  BY <1>1, <1>2 DEF ExecInv, runVars
<1>3. ASSUME NEW params \in Catalog, CreateNode(params) PROVE ExecInv'
  BY <1>2, <1>3 DEF CreateNode
<1>4. ASSUME NEW i \in Nodes, RemoveNode(i) PROVE ExecInv'
  BY <1>2, <1>4 DEF RemoveNode
<1>5. ASSUME NEW i \in Nodes, NEW p \in DOMAIN nodes[i], NEW r \in Refs,
             SetParameterByIndex(i, p, r)
      PROVE  ExecInv'
  BY <1>2, <1>5 DEF SetParameterByIndex
<1>6. CASE VerifyGraph
  BY <1>2, <1>6 DEF VerifyGraph
<1>7. ASSUME NEW m \in Modes, ProcessGraph(m) PROVE ExecInv'
  BY <1>1, <1>7, FirstBatch
<1>8. ASSUME NEW n \in Nodes, StartNode(n) PROVE ExecInv'
  BY <1>8, Starts
<1>9. ASSUME NEW n \in Nodes, NEW a \in {"CONTINUE", "ABANDON"}, FinishNode(n, a)
      PROVE  ExecInv'
  BY <1>9, Finishes
<1>10. CASE Decide
  <2>1. CASE action = "ABANDON"
    <3>1. /\ pc = "batch" /\ pc' = "end" /\ action' = "ABANDON" /\ verified' = verified
          /\ nodes' = nodes /\ runs' = runs
      BY <1>10, <2>1 DEF Decide, graphVars
    <3>2. QED
      BY <1>1, <3>1 DEF ExecInv, Nodes
  <2>2. QED
    BY <1>10, <2>1, NextBatch
<1>11. CASE End
  BY <1>11 DEF End, ExecInv
<1>12. CASE UNCHANGED vars
  BY <1>1, <1>12 DEF vars, ExecInv, BatchInv, Nodes, Listed, Done
<1>13. QED
  BY <1>3, <1>4, <1>5, <1>6, <1>7, <1>8, <1>9, <1>10, <1>11, <1>12 DEF Next

-----------------------------------------------------------------------------
(* Theorems. *)

(* While a graph is executed it stays as it was verified, and the lists of *)
(* vxExecuteGraph account for each of its nodes.                           *)
THEOREM ExecutionInStep == ASSUME Settled PROVE Spec => []IInv
<1>1. Init => IInv
  <2> SUFFICES ASSUME Init PROVE IInv
    OBVIOUS
  <2>1. nodes \in Lists /\ Len(nodes) = 0 /\ "serial" \in Modes
    BY DEF Init, Lists, Modes
  <2>2. nodes \in Seq(Seq(Params) \ {<<>>}) /\ Len(nodes) <= MaxNodes
    BY <2>1, MaxNodesAssumption DEF Lists
  <2>3. /\ <<next, todo, running, runs>> = <<(<<>>), <<>>, <<>>, <<>>>>
        /\ left \cup visited \cup executed \subseteq Nodes
    BY DEF Init
  <2>4. TypeOK
    BY <2>1, <2>2, <2>3 DEF Init, TypeOK
  <2>5. QED
    BY <2>4 DEF Init, IInv, VerifyInv, ExecInv
<1>2. IInv /\ [Next]_vars => IInv'
  BY TypeStep, VerifyStep, ExecStep DEF IInv
<1>3. QED
  BY <1>1, <1>2, PTL DEF Spec

(* vxVerifyGraph: a graph that vxIsGraphVerified calls verified has its    *)
(* parameters, one writer of any piece of memory and no cycle.             *)
THEOREM VerifiedGraphsRun == ASSUME Settled PROVE Spec => []VerifiedIsRunnable
<1>1. IInv => VerifiedIsRunnable
  BY DEF IInv, VerifyInv, VerifiedIsRunnable, SingleWriters, Nodes
<1>2. QED
  BY <1>1, ExecutionInStep, PTL

(* ownFindNextNodes: a node runs after every node it reads from.           *)
THEOREM ProducersRunFirst == ASSUME Settled PROVE Spec => []RunsAfterProducers
<1>1. IInv => RunsAfterProducers
  <2> SUFFICES ASSUME IInv, pc = "batch", NEW n \in Listed(running), NEW m \in Nodes,
                      Feeds(nodes, m, n)
               PROVE  m \in executed
    BY DEF RunsAfterProducers
  <2>1. nodes \in Lists /\ BatchInv /\ n \in DOMAIN nodes
    BY DEF IInv, TypeOK, ExecInv, Lists, Listed, Nodes
  <2>2. m \in Producers(nodes, n)
    BY <2>1, ProducersFeed DEF Nodes
  <2>3. QED
    BY <2>1, <2>2 DEF BatchInv
<1>2. QED
  BY <1>1, ExecutionInStep, PTL

(* vxWorkerNode: nodes that run at the same time share nothing that one of *)
(* them writes: the writer would have to have run before.                  *)
THEOREM NoRace == ASSUME Settled PROVE Spec => []NoDataRace
<1>1. IInv => NoDataRace
  <2> SUFFICES ASSUME IInv, pc = "batch", NEW m \in Listed(running), NEW n \in Listed(running),
                      m # n, NEW r \in Writes(nodes, m),
                      NEW s \in Writes(nodes, n) \cup Reads(nodes, n), Touches(r, s)
               PROVE  FALSE
    BY DEF NoDataRace
  <2>1. /\ nodes \in Lists /\ BatchInv /\ SingleWriters(nodes)
        /\ running \in [Nodes -> Nat] /\ todo \in [Nodes -> Nat]
    BY DEF IInv, TypeOK, ExecInv, VerifyInv, Lists
  <2>2. m \in Nodes /\ n \in Nodes /\ m \notin executed
    BY <2>1 DEF Listed, BatchInv, Done
  <2>3. CASE s \in Writes(nodes, n)
    BY <2>1, <2>2, <2>3 DEF SingleWriters, Nodes
  <2>4. CASE s \in Reads(nodes, n)
    <3>1. m \in Producers(nodes, n)
      BY <2>1, <2>2, <2>4, ProducersFeed DEF Feeds, Nodes
    <3>2. QED
      BY <2>1, <2>2, <3>1 DEF BatchInv
  <2>5. QED
    BY <2>3, <2>4
<1>2. QED
  BY <1>1, ExecutionInStep, PTL

(* vxExecuteGraph: no node is executed twice in a call, and if nobody asks *)
(* to abandon it every node has been executed at the end.                  *)
THEOREM NodesRunOnce == ASSUME Settled PROVE Spec => []EveryNodeRunsOnce
<1>1. IInv => EveryNodeRunsOnce
  BY DEF IInv, ExecInv, EveryNodeRunsOnce, TypeOK
<1>2. QED
  BY <1>1, ExecutionInStep, PTL

(* vxTopologicalSort: the sorted list has the nodes of the list, and if    *)
(* these have no cycle each is listed after those whose outputs it reads.  *)
THEOREM SortsGraphs == Spec => []SortIsTopological
<1>1. Init => Built
  BY MaxNodesAssumption DEF Init, Built, Lists
<1>2. Built => SortIsTopological
  <2> SUFFICES ASSUME Built PROVE SortIsTopological
    OBVIOUS
  <2> DEFINE list == TopologicalSort(nodes)
  <2>1. nodes \in Lists
    BY DEF Built
  <2>2. PICK p \in [DOMAIN nodes -> DOMAIN nodes] :
          /\ list = [i \in DOMAIN nodes |-> nodes[p[i]]]
          /\ Acyclic(nodes) => \A m, n \in DOMAIN nodes : Precedes(nodes, p[m], p[n]) => m < n
    BY <2>1, SortPermutes
  <2>3. \A params : Occurrences(list, params) = Occurrences(nodes, params)
    BY <2>1, SortKeepsNodes
  <2>4. DOMAIN list = DOMAIN nodes /\ \A i \in DOMAIN nodes : list[i] = nodes[p[i]]
    BY <2>2
  <2> HIDE DEF list
  <2>5. \A m, n \in DOMAIN list : Precedes(list, m, n) => Precedes(nodes, p[m], p[n])
    BY <2>4 DEF Precedes, Writes, Reads
  <2>6. QED
    BY <2>2, <2>3, <2>4, <2>5 DEF SortIsTopological, list
<1>3. QED
  BY <1>1, <1>2, BuildStep, PTL DEF Spec

=============================================================================
