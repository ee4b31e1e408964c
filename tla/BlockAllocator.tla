--------------------------- MODULE BlockAllocator ---------------------------
(***************************************************************************)
(* What a memory allocator promises to its callers: a pointer it hands out *)
(* is in nobody's hands, and it is its holder's until the holder gives it  *)
(* back.  MemoryPool, the block pools of memory/memory_pool.c, is shown to *)
(* implement this specification.                                           *)
(***************************************************************************)
EXTENDS Naturals

CONSTANT Ptr  \* the pointers the allocator can hand out

VARIABLE held  \* how many times each pointer has been handed out and not returned

Init == held = [ptr \in Ptr |-> 0]

(* A caller receives a pointer nobody holds. *)
Allocate(ptr) ==
  /\ held[ptr] = 0
  /\ held' = [held EXCEPT ![ptr] = 1]

(* A caller gives back a pointer it holds. *)
Release(ptr) ==
  /\ held[ptr] = 1
  /\ held' = [held EXCEPT ![ptr] = 0]

Next == \E ptr \in Ptr : Allocate(ptr) \/ Release(ptr)

Spec == Init /\ [][Next]_held
=============================================================================
