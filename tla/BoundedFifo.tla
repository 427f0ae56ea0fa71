---------------------------- MODULE BoundedFifo ----------------------------
(***************************************************************************)
(* What k3-code/include/lockfree_ring_buffer.hpp promises to its callers:  *)
(* a first-in first-out queue of at most Capacity items.  push either      *)
(* appends the item or reports failure and changes nothing, pop either     *)
(* hands out the oldest item or reports emptiness and changes nothing.     *)
(* Failing calls are stuttering steps.                                     *)
(***************************************************************************)
EXTENDS Naturals, Sequences

CONSTANTS Values,    (* what is queued *)
          Capacity,  (* the constructor argument *)
          Nil        (* no value *)

VARIABLES q,    (* the queued items, oldest first *)
          got   (* the item of the last successful pop *)

fifoVars == <<q, got>>

Init == q = <<>> /\ got = Nil

Full == Len(q) = Capacity
Empty == q = <<>>

(* push() that returns true *)
Push(v) ==
    /\ ~Full
    /\ q' = Append(q, v)
    /\ UNCHANGED got

(* pop() that returns an item *)
Pop ==
    /\ ~Empty
    /\ got' = Head(q)
    /\ q' = Tail(q)

Next == Pop \/ \E v \in Values : Push(v)

Spec == Init /\ [][Next]_fifoVars
=============================================================================
