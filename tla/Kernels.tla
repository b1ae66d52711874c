------------------------------- MODULE Kernels -------------------------------
(***************************************************************************)
(* The kernels of a target (vx_kernel.c, vxTargetAddKernel, vxTargetSupports *)
(* and ownInitializeTarget): registration, finalisation and removal of user *)
(* kernels, the references that applications, modules and nodes have to    *)
(* them, and the modules of vxLoadKernels that publish one kernel each.    *)
(*                                                                         *)
(* A kernel is an entry of the static array target->kernels: it is used    *)
(* again, with counts that start anew, as soon as it is not enabled,       *)
(* whoever still refers to it.  The functions take no lock: one thread     *)
(* calls them.                                                             *)
(***************************************************************************)
EXTENDS Integers, FiniteSets, FiniteSetsExt

CONSTANTS
  NumSlots,     (* VX_INT_MAX_KERNELS, 1024                                *)
  Builtin,      (* the kernel of the target itself, in the first entry     *)
  UserKernels,  (* kernels, each with a name and an enumeration of its own *)
  Invalid,      (* VX_KERNEL_INVALID, and the empty name                   *)
  Modules,      (* loadable modules                                        *)
  Publishes,    (* the kernel each publishes                               *)
  App,          (* the application, whose code is always there             *)
  Handles,      (* bound: references of the application at a time          *)
  Nodes,        (* bound: nodes at a time                                  *)
  RefWidth,     (* number of values of a module's ref_count, 2^32          *)
  MaxSlips      (* bound: registrations overwritten, finalised twice       *)

Slots == 1 .. NumSlots
Kernels == UserKernels \cup {Builtin}
Nowhere == [slot |-> 0, kernel |-> Invalid]

ASSUME SizesAssumption == NumSlots \in Nat \ {0} /\ RefWidth \in Nat \ {0} /\ MaxSlips \in Nat
ASSUME NamesAssumption ==
  /\ Builtin \notin UserKernels /\ Invalid \notin UserKernels \cup {Builtin}
  /\ Publishes \in [Modules -> UserKernels] /\ App \notin Modules

VARIABLES
  kernels,             (* target->kernels                                  *)
  num_kernels,         (* target->num_kernels                              *)
  all_kernels,         (* context->num_kernels                             *)
  num_unique_kernels,  (* context->num_unique_kernels                      *)
  modules,             (* per module its handle and its ref_count          *)
  handle,              (* the references of the application                *)
  node,                (* node->kernel                                     *)
  published,           (* the entries a module has a reference to: what    *)
                       (* vxAddUserKernel returns is given up only by the  *)
                       (* removal                                          *)
  dirty,               (* history: entries used again, or whose kernel was *)
                       (* removed, while someone else referred to them     *)
  again,               (* history: kernels registered while a kernel of    *)
                       (* the same name was                                *)
  overwritten, twice   (* history: how often a registration was lost, and  *)
                       (* an enabled kernel finalised                      *)

table == <<kernels, num_kernels, all_kernels, num_unique_kernels>>
vars == <<table, modules, handle, node, published, dirty, again, overwritten, twice>>

Empty == [enumeration |-> Invalid, name |-> Invalid, enabled |-> FALSE, user_kernel |-> FALSE,
          valid |-> FALSE, internal |-> 0, external |-> 0, described |-> FALSE, code |-> App]

Init ==
  /\ kernels = [s \in Slots |->
       IF s = 1 THEN [Empty EXCEPT !.enumeration = Builtin, !.name = Builtin, !.enabled = TRUE,
                                   !.valid = TRUE, !.internal = 1, !.described = TRUE]
       ELSE Empty]
  /\ num_kernels = 1 /\ all_kernels = 1 /\ num_unique_kernels = 1
  /\ modules = [m \in Modules |-> [loaded |-> FALSE, ref_count |-> 0]]
  /\ handle = [h \in Handles |-> Nowhere]
  /\ node = [n \in Nodes |-> Nowhere]
  /\ published = [m \in Modules |-> {}]
  /\ dirty = {} /\ again = {} /\ overwritten = 0 /\ twice = 0

-----------------------------------------------------------------------------
(* The table.  The operators take the table as t, the function kernels, so *)
(* that a module's publish function can call several in a row.             *)

(* The first entry, if any, is the one the loops stop at.                  *)
First(S) == IF S = {} THEN 0 ELSE Min(S)

Free == {s \in Slots : ~kernels[s].enabled}

ByName(k) == First({s \in Slots : kernels[s].name = k})
ByEnum(k) == First({s \in Slots : kernels[s].enumeration = k})

(* findKernelByEnum searches as many entries as there are kernels, which   *)
(* is not far enough when one in between was removed.                      *)
ByEnumCounted(k) == First({s \in Slots : s <= num_kernels /\ kernels[s].enumeration = k})

IsKernelUnique(t, k) == ~ \E s \in Slots : t[s].enabled /\ t[s].enumeration = k

(* The parameters are not reset: the next kernel inherits them.            *)
Initialized(t, s, k, owner) ==
  [t EXCEPT ![s] = [@ EXCEPT !.enumeration = k, !.name = k, !.user_kernel = TRUE, !.code = owner,
                             !.valid = TRUE, !.internal = 1, !.external = 1]]

Counted(t, s, kind) ==
  [t EXCEPT ![s] = IF kind = "internal" THEN [@ EXCEPT !.internal = @ + 1]
                                        ELSE [@ EXCEPT !.external = @ + 1]]

Less(n) == IF n = 0 THEN 0 ELSE n - 1

(* ownReleaseReferenceInt of a valid kernel: its counts are clamped.       *)
Uncounted(t, s, kind) ==
  LET k == t[s]
      left == IF kind = "internal" THEN [k EXCEPT !.internal = Less(@)]
                                   ELSE [k EXCEPT !.external = Less(@)]
  IN IF ~k.valid THEN t
     ELSE [t EXCEPT ![s] = [left EXCEPT !.valid = left.internal + left.external > 0]]

Disabled_Not(t, s) == t
Disabled(t, s) == [t EXCEPT ![s].enabled = FALSE]

(* vxRemoveKernel after its checks: the entry is given up, in use or not.  *)
Removed(t, s) ==
  LET k == Disabled(t, s)[s]
      left == [k EXCEPT !.external = Less(@), !.internal = Less(@)]
  IN [t EXCEPT ![s] = [left EXCEPT !.valid = left.internal + left.external > 0,
                                   !.enumeration = Invalid, !.user_kernel = FALSE]]

Removable(s) == s # 0 /\ kernels[s].valid /\ kernels[s].user_kernel

(* Whoever refers to the entry, apart from the table itself.               *)
Holders(s) ==
  {h \in Handles : handle[h].slot = s} \cup {n \in Nodes : node[n].slot = s}
  \cup {m \in Modules : s \in published[m]}

-----------------------------------------------------------------------------
(* What the counters become. *)

(* The kernel is tested before it is enabled. *)
CountUnique_Late(t, s) == num_unique_kernels
CountUnique(t, s) ==
  num_unique_kernels + (IF IsKernelUnique(t, t[s].enumeration) THEN 1 ELSE 0)

(* An entry of t is enabled. *)
Finalize(t, s) ==
  /\ all_kernels' = all_kernels + 1
  /\ num_unique_kernels' = CountUnique(t, s)
  /\ kernels' = [t EXCEPT ![s].enabled = TRUE]

(* The kernel of entry s is removed by the holder who. *)
Remove(s, who) ==
  LET k == kernels[s] IN
  /\ kernels' = Removed(kernels, s)
  /\ num_kernels' = num_kernels - 1
  /\ all_kernels' = all_kernels - (IF k.enabled THEN 1 ELSE 0)
  /\ num_unique_kernels' = num_unique_kernels
       - (IF k.enabled /\ IsKernelUnique(Disabled(kernels, s), k.enumeration) THEN 1 ELSE 0)
  /\ dirty' = IF Holders(s) \subseteq {who} THEN dirty ELSE dirty \cup {s}

(* A kernel k is put into the entry s: what it means for the histories.    *)
Remember(s, k) ==
  /\ dirty' = IF Holders(s) = {} THEN dirty \ {s} ELSE dirty \cup {s}
  /\ again' = IF \E r \in Slots \ {s} :
                   kernels[r].name = k /\ (kernels[r].enabled \/ kernels[r].user_kernel)
              THEN again \cup {k} ELSE again
  /\ IF kernels[s].user_kernel THEN overwritten + twice < MaxSlips /\ overwritten' = overwritten + 1
                               ELSE UNCHANGED overwritten

Register(s, k) == num_kernels' = num_kernels + 1 /\ Remember(s, k)

-----------------------------------------------------------------------------
(* Calls of the application. *)

NewHandle(h, s, k) == handle' = [handle EXCEPT ![h] = [slot |-> s, kernel |-> k]]
DropHandle(h) == handle' = [handle EXCEPT ![h] = Nowhere]
Used(h) == handle[h].slot
IsKernel(h) == handle[h] # Nowhere /\ kernels[Used(h)].valid

(* With no entry left vxTargetAddKernel returns NULL, which addkernel      *)
(* dereferences: left out.                                                 *)
AddUserKernel(h, k) ==
  /\ handle[h] = Nowhere /\ Free # {}
  /\ LET s == First(Free) IN
     /\ kernels' = Initialized(kernels, s, k, App)
     /\ Register(s, k)
     /\ NewHandle(h, s, k)
  /\ UNCHANGED <<all_kernels, num_unique_kernels, modules, node, published, twice>>

AddParameterToKernel(h) ==
  /\ IsKernel(h)
  /\ kernels' = [kernels EXCEPT ![Used(h)].described = TRUE]
  /\ UNCHANGED <<num_kernels, all_kernels, num_unique_kernels, modules, handle, node, published,
                 dirty, again, overwritten, twice>>

(* Nothing keeps a kernel from being finalised twice. *)
FinalizeKernel(h) ==
  /\ IsKernel(h) /\ kernels[Used(h)].described
  /\ Finalize(kernels, Used(h))
  /\ IF kernels[Used(h)].enabled THEN overwritten + twice < MaxSlips /\ twice' = twice + 1
                                 ELSE UNCHANGED twice
  /\ UNCHANGED <<num_kernels, modules, handle, node, published, dirty, again, overwritten>>

RemoveKernel(h) ==
  /\ handle[h] # Nowhere /\ Removable(Used(h))
  /\ Remove(Used(h), h)
  /\ DropHandle(h)
  /\ UNCHANGED <<modules, node, published, again, overwritten, twice>>

ReleaseKernel(h) ==
  /\ handle[h] # Nowhere
  /\ kernels' = Uncounted(kernels, Used(h), "external")
  /\ DropHandle(h)
  /\ UNCHANGED <<num_kernels, all_kernels, num_unique_kernels, modules, node, published,
                 dirty, again, overwritten, twice>>

(* vxGetKernelByName: the first entry with the name, if it is enabled.     *)
NamedKernel(k) == IF ByName(k) # 0 /\ kernels[ByName(k)].enabled THEN ByName(k) ELSE 0

(* An entry that was destroyed has no lock to count with: left out.        *)
GetKernel(h, s, k) ==
  /\ handle[h] = Nowhere /\ s # 0 /\ kernels[s].valid
  /\ kernels' = Counted(kernels, s, "external")
  /\ NewHandle(h, s, k)
  /\ UNCHANGED <<num_kernels, all_kernels, num_unique_kernels, modules, node, published,
                 dirty, again, overwritten, twice>>

GetKernelByName(h, k) == GetKernel(h, NamedKernel(k), k)

(* vxGetKernelByEnum finds kernels that are not finalised. *)
GetKernelByEnum(h, k) == GetKernel(h, ByEnum(k), k)

CreateGenericNode(n, h) ==
  /\ node[n] = Nowhere /\ IsKernel(h)
  /\ node' = [node EXCEPT ![n] = handle[h]]
  /\ kernels' = Counted(kernels, Used(h), "internal")
  /\ UNCHANGED <<num_kernels, all_kernels, num_unique_kernels, modules, handle, published,
                 dirty, again, overwritten, twice>>

(* The last reference of ownDestructNode to its kernel. *)
DestructNode(n) ==
  /\ node[n] # Nowhere
  /\ kernels' = Uncounted(kernels, node[n].slot, "internal")
  /\ node' = [node EXCEPT ![n] = Nowhere]
  /\ UNCHANGED <<num_kernels, all_kernels, num_unique_kernels, modules, handle, published,
                 dirty, again, overwritten, twice>>

(* vxSetNodeTarget: the kernel with the same enumeration, if it is found.  *)
(* A node whose kernel was removed would find an unused entry: left out.   *)
SetNodeTarget(n) ==
  LET old == node[n].slot
      s == ByEnumCounted(kernels[old].enumeration)
  IN /\ node[n] # Nowhere /\ kernels[old].enumeration # Invalid
     /\ s # 0 /\ kernels[s].valid
     /\ kernels' = Counted([kernels EXCEPT ![old].internal = Less(@)], s, "internal")
     /\ node' = [node EXCEPT ![n] = [slot |-> s, kernel |-> kernels[s].enumeration]]
     /\ UNCHANGED <<num_kernels, all_kernels, num_unique_kernels, modules, handle, published,
                    dirty, again, overwritten, twice>>

-----------------------------------------------------------------------------
(* Modules. *)

LoadAgain(m) ==
  /\ modules[m].loaded
  /\ modules' = [modules EXCEPT ![m].ref_count = (@ + 1) % RefWidth]
  /\ UNCHANGED <<table, handle, node, published, dirty, again, overwritten, twice>>

(* vxPublishKernels of the module: a kernel is added, described, finalised. *)
LoadKernels(m) ==
  /\ ~modules[m].loaded /\ Free # {}
  /\ LET s == First(Free)
         t == Initialized(kernels, s, Publishes[m], m)
     IN /\ Finalize([t EXCEPT ![s].described = TRUE], s)
        /\ Register(s, Publishes[m])
        /\ published' = [published EXCEPT ![m] = @ \cup {s}]
  /\ modules' = [modules EXCEPT ![m] = [loaded |-> TRUE, ref_count |-> 1]]
  /\ UNCHANGED <<handle, node, twice>>

(* A call in between fails, and the function removes its kernel again.     *)
LoadFails(m) ==
  /\ ~modules[m].loaded /\ Free # {}
  /\ LET s == First(Free)
         t == Initialized(kernels, s, Publishes[m], m)
     IN /\ \E d \in {t[s].described, TRUE} : kernels' = Removed([t EXCEPT ![s].described = d], s)
        /\ Remember(s, Publishes[m])
  /\ UNCHANGED <<num_kernels, all_kernels, num_unique_kernels, modules, handle, node, published,
                 twice>>

LastLoad(m) == modules[m].ref_count = 1

UnloadCounts(m) ==
  /\ modules[m].loaded /\ ~LastLoad(m)
  /\ modules' = [modules EXCEPT ![m].ref_count = (@ + RefWidth - 1) % RefWidth]
  /\ UNCHANGED <<table, handle, node, published, dirty, again, overwritten, twice>>

(* vxUnpublishKernels looks its kernel up, releases it and removes it.     *)
UnloadKernels(m) ==
  LET s == NamedKernel(Publishes[m]) IN
  /\ modules[m].loaded /\ LastLoad(m)
  /\ Removable(s)
  /\ Remove(s, m)
  /\ published' = [published EXCEPT ![m] = @ \ {s}]
  /\ modules' = [modules EXCEPT ![m] = [loaded |-> FALSE, ref_count |-> 0]]
  /\ UNCHANGED <<handle, node, again, overwritten, twice>>

(* The kernel is not there, or not the table's, any more: the module stays *)
(* loaded, its count is zero and the next call takes it below.             *)
UnloadFails(m) ==
  LET s == NamedKernel(Publishes[m]) IN
  /\ modules[m].loaded /\ LastLoad(m)
  /\ s # 0 => kernels[s].valid /\ ~kernels[s].user_kernel
  /\ modules' = [modules EXCEPT ![m].ref_count = 0]
  /\ UNCHANGED <<table, handle, node, published, dirty, again, overwritten, twice>>

-----------------------------------------------------------------------------
Next ==
  \/ \E h \in Handles, k \in UserKernels : AddUserKernel(h, k)
  \/ \E h \in Handles :
       \/ AddParameterToKernel(h) \/ FinalizeKernel(h) \/ RemoveKernel(h) \/ ReleaseKernel(h)
       \/ \E k \in Kernels : GetKernelByName(h, k) \/ GetKernelByEnum(h, k)
       \/ \E n \in Nodes : CreateGenericNode(n, h)
  \/ \E n \in Nodes : DestructNode(n) \/ SetNodeTarget(n)
  \/ \E m \in Modules :
       \/ LoadAgain(m) \/ LoadKernels(m) \/ LoadFails(m)
       \/ UnloadCounts(m) \/ UnloadKernels(m) \/ UnloadFails(m)

Spec == Init /\ [][Next]_vars

-----------------------------------------------------------------------------
(* Properties. *)

InTable(s) == kernels[s].user_kernel \/ s = 1

(* The three counters of kernels, changed at different moments by          *)
(* registration, finalisation and removal, agree with the entries (but for *)
(* registrations that were overwritten and kernels finalised twice), and   *)
(* the counts of a kernel with those who refer to it: a kernel lives       *)
(* exactly as long as the table or somebody has it.                        *)
TableAddsUp ==
  /\ num_kernels = Cardinality({s \in Slots : InTable(s)}) + overwritten
  /\ all_kernels = Cardinality({s \in Slots : kernels[s].enabled}) + twice
  /\ num_unique_kernels =
       Cardinality({kernels[s].enumeration : s \in {r \in Slots : kernels[r].enabled}})
  /\ \A s \in Slots \ dirty :
       LET k == kernels[s] IN
       /\ k.external = Cardinality({h \in Handles : handle[h].slot = s})
                       + Cardinality({m \in Modules : s \in published[m]})
       /\ k.internal = Cardinality({n \in Nodes : node[n].slot = s})
                       + (IF InTable(s) THEN 1 ELSE 0)
       /\ k.valid <=> k.internal + k.external > 0

CodeIsThere(s) == kernels[s].code = App \/ modules[kernels[s].code].loaded

(* A kernel that was finalised is found by its name and its enumeration,   *)
(* its code is there, and who refers to a kernel, an application or a      *)
(* node, goes on referring to that kernel: unless it was removed or its    *)
(* entry used again beneath, or its name registered twice.                 *)
KernelsAreServed ==
  /\ \A s \in Slots \ dirty :
       kernels[s].enabled /\ kernels[s].name \notin again =>
         NamedKernel(kernels[s].name) = s /\ ByEnum(kernels[s].enumeration) = s /\ CodeIsThere(s)
  /\ \A r \in {handle[h] : h \in Handles} \cup {node[n] : n \in Nodes} :
       r # Nowhere /\ r.slot \notin dirty =>
         /\ kernels[r.slot].valid /\ kernels[r.slot].enumeration = r.kernel
         /\ r.kernel \notin again => CodeIsThere(r.slot)
=============================================================================
