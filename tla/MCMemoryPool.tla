---------------------------- MODULE MCMemoryPool ----------------------------
EXTENDS MemoryPool, TLC

(* The two smallest pools, cut to two blocks and one block. *)
Sizes == 0 :> 64 @@ 1 :> 256
Counts == 0 :> 2 @@ 1 :> 1
=============================================================================
