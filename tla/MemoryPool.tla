----------------------------- MODULE MemoryPool -----------------------------
(***************************************************************************)
(* The block pools of memory/memory_pool.c: a few pools of equal blocks    *)
(* with a bitmap of free blocks each, the heap for larger requests, and    *)
(* the table of allocation records that leak detection reads.  The module  *)
(* has no lock; the repository calls it from app_main only, so every call  *)
(* is one step.  Callers free only what they hold.  The contents of the    *)
(* blocks, the guard words among them, are left out.                       *)
(***************************************************************************)
EXTENDS Integers, Sequences, FiniteSets

CONSTANTS
  NumPools,    \* MEMORY_POOL_COUNT
  BlockSize,   \* the block size of each pool, growing with the pool's index
  BlockCount,  \* the number of blocks of each pool
  Size,        \* the sizes callers ask for
  Heap,        \* the addresses malloc can return
  MaxRecords,  \* the length of allocation_records
  WordSize,    \* uint32_t counters count modulo WordSize
  Debugging    \* memory_config.enable_debugging

Pool == 0 .. NumPools - 1
BlockOf(p) == 0 .. BlockCount[p] - 1
Block == UNION {{p} \X BlockOf(p) : p \in Pool}
Ptr == Block \cup Heap
Word == 0 .. WordSize - 1

ASSUME PoolAssumption ==
  /\ NumPools \in Nat \ {0} /\ WordSize \in Nat \ {0}
  /\ BlockSize \in [Pool -> Nat \ {0}]
  /\ BlockCount \in [Pool -> 1 .. WordSize - 1]
  /\ Size \subseteq Nat \ {0}
  /\ MaxRecords \in Nat
  /\ Debugging \in BOOLEAN
  /\ Heap \cap Block = {}

VARIABLES
  free_bitmap,       \* of each pool: the blocks whose bit is set
  free_blocks,       \* of each pool
  allocated_blocks,  \* of each pool
  allocated_memory,  \* memory_stats.allocated_memory
  memory_leaks,      \* memory_stats.memory_leaks
  records,           \* the pointers in allocation_records, in table order
  held,              \* of each pointer: how often it was handed out and not freed
  traced             \* history: the blocks a debug call handed out with a record
                     \* and that were not given back

counters == <<free_blocks, allocated_blocks, allocated_memory>>
vars == <<free_bitmap, counters, memory_leaks, records, held, traced>>

(* memory_pool_init: every block free, no records. *)
Init ==
  /\ free_bitmap = [p \in Pool |-> BlockOf(p)]
  /\ free_blocks = BlockCount
  /\ allocated_blocks = [p \in Pool |-> 0]
  /\ allocated_memory = 0
  /\ memory_leaks = 0
  /\ records = <<>>
  /\ held = [ptr \in Ptr |-> 0]
  /\ traced = {}

(* The pools whose blocks a request fits, and the one memory_pool_alloc    *)
(* picks: the first, or none of them when the request goes to the heap.    *)
Fitting(size) == {p \in Pool : size <= BlockSize[p]}
Lowest(S) == CHOOSE i \in S : \A j \in S : i <= j

(* The table with one more record, unless it is full. *)
Record(table, ptr) ==
  IF Len(table) < MaxRecords THEN Append(table, ptr) ELSE table

(* Mutation: the count goes down without the shift. *)
RemoveLastRecord(table, ptr) == SubSeq(table, 1, Len(table) - 1)

(* The table without the first record of ptr; the later ones move down. *)
RemoveRecord(table, ptr) ==
  LET at == {i \in DOMAIN table : table[i] = ptr}
      first == Lowest(at)
  IN  IF at = {} THEN table
      ELSE [i \in 1 .. Len(table) - 1 |-> IF i < first THEN table[i] ELSE table[i + 1]]

(* Mutation: the bit is computed and not written back. *)
MarkNothing(p, b) == free_bitmap

(* The bit of a block, cleared and set. *)
MarkAllocated(p, b) == [free_bitmap EXCEPT ![p] = @ \ {b}]
MarkFree(p, b) == [free_bitmap EXCEPT ![p] = @ \cup {b}]

(* n more blocks of pool p are free; the words wrap. *)
CountFree(p, n) ==
  /\ free_blocks' = [free_blocks EXCEPT ![p] = (@ + n) % WordSize]
  /\ allocated_blocks' = [allocated_blocks EXCEPT ![p] = (@ - n) % WordSize]
  /\ allocated_memory' = (allocated_memory - n * BlockSize[p]) % WordSize

(* memory_pool_alloc and memory_pool_alloc_debug served by pool p: the     *)
(* first free block.  Only the debug call records it.                      *)
AllocFromPool(p, size, debug) ==
  /\ Fitting(size) # {} /\ p = Lowest(Fitting(size))
  /\ free_bitmap[p] # {}
  /\ LET b == Lowest(free_bitmap[p])
     IN  /\ free_bitmap' = MarkAllocated(p, b)
         /\ records' = IF debug /\ Debugging THEN Record(records, <<p, b>>) ELSE records
         /\ held' = [held EXCEPT ![<<p, b>>] = @ + 1]
         /\ traced' = IF debug /\ Debugging /\ Len(records) < MaxRecords
                        THEN traced \cup {<<p, b>>}
                        ELSE traced
  /\ CountFree(p, -1)
  /\ UNCHANGED memory_leaks

(* The same calls for a request no pool can hold: malloc returns ptr,      *)
(* which is recorded, and recorded again by the debug call.                *)
AllocFromHeap(ptr, size, debug) ==
  /\ Fitting(size) = {}
  /\ held[ptr] = 0
  /\ held' = [held EXCEPT ![ptr] = 1]
  /\ LET once == Record(records, ptr)
     IN  records' = IF debug /\ Debugging THEN Record(once, ptr) ELSE once
  /\ UNCHANGED <<free_bitmap, counters, memory_leaks, traced>>

(* memory_pool_free of a block: memory_pool_free_to_pool.  The outcome of  *)
(* the guard check is only logged, and the block's record stays.           *)
FreeToPool(p, b) ==
  /\ held[<<p, b>>] > 0
  /\ free_bitmap' = MarkFree(p, b)
  /\ CountFree(p, 1)
  /\ held' = [held EXCEPT ![<<p, b>>] = @ - 1]
  /\ traced' = traced \ {<<p, b>>}
  /\ UNCHANGED <<memory_leaks, records>>

(* memory_pool_free of a heap address. *)
FreeToHeap(ptr) ==
  /\ held[ptr] > 0
  /\ held' = [held EXCEPT ![ptr] = @ - 1]
  /\ records' = RemoveRecord(records, ptr)
  /\ UNCHANGED <<free_bitmap, counters, memory_leaks, traced>>

(* memory_pool_detect_leaks counts the records that point into a pool. *)
LeakRecords == {i \in DOMAIN records : records[i] \in Block}
DetectLeaks ==
  /\ memory_leaks' = Cardinality(LeakRecords)
  /\ UNCHANGED <<free_bitmap, counters, records, held, traced>>

Next ==
  \/ \E size \in Size, debug \in BOOLEAN :
       \/ \E p \in Pool : AllocFromPool(p, size, debug)
       \/ \E ptr \in Heap : AllocFromHeap(ptr, size, debug)
  \/ \E p \in Pool : \E b \in BlockOf(p) : FreeToPool(p, b)
  \/ \E ptr \in Heap : FreeToHeap(ptr)
  \/ DetectLeaks

Spec == Init /\ [][Next]_vars
-----------------------------------------------------------------------------
(* Every variable keeps its type: memory/memory_pool.c's arrays and words. *)
TypeOK ==
  /\ free_bitmap \in [Pool -> SUBSET Nat]
  /\ \A p \in Pool : free_bitmap[p] \subseteq BlockOf(p)
  /\ free_blocks \in [Pool -> Word]
  /\ allocated_blocks \in [Pool -> Word]
  /\ allocated_memory \in Word
  /\ memory_leaks \in Nat
  /\ records \in Seq(Ptr) /\ Len(records) <= MaxRecords
  /\ held \in [Ptr -> Nat]
  /\ traced \subseteq Block

(* The bitmap and the callers agree: a block is marked allocated exactly   *)
(* while somebody holds it (memory_pool_alloc_from_pool and                *)
(* memory_pool_free_to_pool), so no block is ever handed out twice.        *)
HeldIsAllocated ==
  /\ \A p \in Pool : \A b \in BlockOf(p) :
       held[<<p, b>>] = IF b \in free_bitmap[p] THEN 0 ELSE 1
  /\ \A ptr \in Heap : held[ptr] \in {0, 1}

(* The counters that memory_pool_get_free_memory, its companion and the    *)
(* fragmentation figure divide by agree with the bitmap, without wrapping. *)
CountersMatchBitmap ==
  \A p \in Pool :
    /\ free_blocks[p] = Cardinality(free_bitmap[p])
    /\ allocated_blocks[p] = BlockCount[p] - Cardinality(free_bitmap[p])

(* A heap pointer in a caller's hands whose record went into the table     *)
(* keeps a record until it is freed: the shift that removes another        *)
(* pointer's record (memory_pool_free) does not lose it.  A record of a    *)
(* block is never removed.                                                 *)
RecordsSurvive ==
  [][\A i \in DOMAIN records :
       held'[records[i]] > 0 \/ records[i] \in Block =>
         \E j \in DOMAIN records' : records'[j] = records[i]]_vars

(* A block that memory_pool_alloc_debug handed out while the table had     *)
(* room, and that nobody gave back, is in the figure of every later        *)
(* memory_pool_detect_leaks, whatever was allocated and freed in between:  *)
(* the heap's frees shift its record and never drop it.  The figure can be *)
(* larger, since freeing a block leaves its record; what the plain call    *)
(* hands out, what went to the heap and what found the table full is not   *)
(* in it, which is how the code counts.                                    *)
NoLeakIsMissed == [][DetectLeaks => memory_leaks' >= Cardinality(traced)]_vars

(* The pools are an allocator: what a call returns is in nobody's hands. *)
Allocator == INSTANCE BlockAllocator
ImplementsAllocator == Allocator!Spec
=============================================================================
