----------------------------- MODULE BoundedFifo -----------------------------
(***************************************************************************)
(* What vx_queue_t promises its users, with the ring, the lock and the two *)
(* events of vx_osal.c abstracted away: a first-in first-out buffer of at  *)
(* most Depth pointers that one call closes for ever.  OsalQueue is shown  *)
(* to implement it, and ThreadPool is built from one such queue per worker.*)
(***************************************************************************)
EXTENDS Naturals, Sequences

CONSTANTS
  Depth,    (* VX_INT_MAX_QUEUE_DEPTH, 32 in vx_internal.h                 *)
  Readers,  (* the threads that call ownReadQueue                          *)
  Values,   (* the vx_value_set_t pointers that travel through the queue   *)
  NULL      (* a NULL pointer                                              *)

VARIABLES
  fifo,     (* the pointers written and not yet read, oldest first         *)
  closed,   (* TRUE once ownPopQueue has run                               *)
  got       (* what the last successful ownReadQueue of each reader stored *)
            (* through its out-parameter                                   *)

vars == <<fifo, closed, got>>

Init ==
  /\ fifo = <<>>
  /\ closed = FALSE
  /\ got = [r \in Readers |-> NULL]

(* A write succeeds only into an open queue with a free place. *)
Put(v) ==
  /\ ~closed
  /\ Len(fifo) < Depth
  /\ fifo' = Append(fifo, v)
  /\ UNCHANGED <<closed, got>>

(* A read hands the oldest pointer to exactly one reader. *)
Take(r) ==
  /\ ~closed
  /\ fifo # <<>>
  /\ got' = [got EXCEPT ![r] = Head(fifo)]
  /\ fifo' = Tail(fifo)
  /\ UNCHANGED closed

(* Closing keeps the pointers that are still in the queue; none of them is *)
(* ever delivered.                                                         *)
Close ==
  /\ closed' = TRUE
  /\ UNCHANGED <<fifo, got>>

Next ==
  \/ \E v \in Values : Put(v)
  \/ \E r \in Readers : Take(r)
  \/ Close

Spec == Init /\ [][Next]_vars
=============================================================================
