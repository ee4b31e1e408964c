-------------------------- MODULE MemoryPoolProofs --------------------------
(***************************************************************************)
(* Theorems about the block pools: the bitmap, the counters and the        *)
(* callers agree, for pools of any number and size, and the pools          *)
(* implement BlockAllocator.                                               *)
(***************************************************************************)
EXTENDS MemoryPool, FiniteSetTheorems, WellFoundedInduction, TLAPS

(* A set of naturals that is not empty has a least element, and Lowest     *)
(* (the scan of memory_first_fit_find from block 0 up) finds it.           *)
LEMMA LowestIsLeast ==
  ASSUME NEW S \in SUBSET Nat, S # {}
  PROVE  Lowest(S) \in S /\ \A j \in S : Lowest(S) <= j
<1> DEFINE Below == {0 .. i - 1 : i \in S}
<1>1. Below \subseteq FiniteSubsetsOf(Nat)
  <2> SUFFICES ASSUME NEW i \in S
               PROVE  0 .. i - 1 \in SUBSET Nat /\ IsFiniteSet(0 .. i - 1)
    BY DEF FiniteSubsetsOf
  <2> QED  BY FS_Interval
<1>2. Below # {}
  OBVIOUS
<1>3. PICK B \in Below : \A C \in Below : ~ (<<C, B>> \in StrictSubsetOrdering(Nat))
  <2> HIDE DEF Below
  <2> QED  BY <1>1, <1>2, FS_StrictSubsetOrderingWellFounded, WFMin
<1>4. PICK i \in S : B = 0 .. i - 1
  OBVIOUS
<1>5. ASSUME NEW j \in S, j < i PROVE FALSE
  <2>1. 0 .. j - 1 \in Below
    OBVIOUS
  <2>2. 0 .. j - 1 \subseteq B /\ B \subseteq Nat /\ j \in B /\ j \notin 0 .. j - 1
    BY <1>4, <1>5
  <2> HIDE DEF Below
  <2> QED  BY <1>3, <2>1, <2>2 DEF StrictSubsetOrdering
<1>6. \A j \in S : i <= j
  BY <1>5
<1> QED  BY <1>6 DEF Lowest

(* A block is a pool's index with one of its block indices.                *)
LEMMA BlockPairs ==
  ASSUME NEW p \in Pool, NEW b \in BlockOf(p)
  PROVE  <<p, b>> \in Block
BY DEF Block

(* The blocks of a pool are finitely many, so Cardinality counts them.     *)
LEMMA BlockOfIsFinite ==
  ASSUME NEW p \in Pool
  PROVE  /\ BlockCount[p] \in 1 .. WordSize - 1
         /\ IsFiniteSet(BlockOf(p)) /\ Cardinality(BlockOf(p)) = BlockCount[p]
<1>1. BlockCount[p] \in 1 .. WordSize - 1 /\ BlockCount[p] \in Nat \ {0}
  BY PoolAssumption
<1>2. /\ IsFiniteSet(0 .. BlockCount[p] - 1)
      /\ Cardinality(0 .. BlockCount[p] - 1) = BlockCount[p]
  BY <1>1, FS_Interval
<1> QED  BY <1>1, <1>2 DEF BlockOf

(* A table with one more record is a table, as long as the old one was. *)
LEMMA RecordType ==
  ASSUME NEW table \in Seq(Ptr), Len(table) <= MaxRecords, NEW ptr \in Ptr
  PROVE  Record(table, ptr) \in Seq(Ptr) /\ Len(Record(table, ptr)) <= MaxRecords
BY PoolAssumption DEF Record

(* Shifting the records behind a removed one down leaves a shorter table. *)
LEMMA RemoveRecordType ==
  ASSUME NEW table \in Seq(Ptr), Len(table) <= MaxRecords, NEW ptr \in Ptr
  PROVE  /\ RemoveRecord(table, ptr) \in Seq(Ptr)
         /\ Len(RemoveRecord(table, ptr)) <= MaxRecords
<1> DEFINE at == {i \in DOMAIN table : table[i] = ptr}
           first == Lowest(at)
<1>1. CASE at = {}
  BY <1>1 DEF RemoveRecord
<1>2. CASE at # {}
  <2>1. at \in SUBSET Nat /\ at \subseteq 1 .. Len(table)
    OBVIOUS
  <2>2. first \in 1 .. Len(table)
    <3> HIDE DEF at
    <3> QED  BY <1>2, <2>1, LowestIsLeast
  <2> HIDE DEF first
  <2> DEFINE rest == [i \in 1 .. Len(table) - 1 |->
                        IF i < first THEN table[i] ELSE table[i + 1]]
  <2>3. RemoveRecord(table, ptr) = rest
    BY <1>2 DEF RemoveRecord, first
  <2>4. Len(table) - 1 \in Nat
    BY <2>2
  <2>5. \A i \in 1 .. Len(table) - 1 : rest[i] \in Ptr
    BY <2>2
  <2>6. rest \in [1 .. Len(table) - 1 -> Ptr]
    BY <2>5
  <2>7. rest \in Seq(Ptr) /\ Len(rest) = Len(table) - 1
    <3> HIDE DEF rest
    <3> QED  BY <2>4, <2>6
  <2> HIDE DEF rest
  <2>8. Len(rest) <= MaxRecords
    BY <2>4, <2>7, PoolAssumption
  <2> QED  BY <2>3, <2>7, <2>8
<1> QED  BY <1>1, <1>2

(* The shift loses no record but the one removed.                          *)
LEMMA RemoveRecordKeeps ==
  ASSUME NEW table \in Seq(Ptr), NEW ptr \in Ptr,
         NEW i \in DOMAIN table, table[i] # ptr
  PROVE  \E j \in DOMAIN RemoveRecord(table, ptr) : RemoveRecord(table, ptr)[j] = table[i]
<1> DEFINE at == {k \in DOMAIN table : table[k] = ptr}
           first == Lowest(at)
<1>1. CASE at = {}
  BY <1>1 DEF RemoveRecord
<1>2. CASE at # {}
  <2>1. at \in SUBSET Nat
    OBVIOUS
  <2>2. first \in at
    <3> HIDE DEF at
    <3> QED  BY <1>2, <2>1, LowestIsLeast
  <2>3. first \in 1 .. Len(table) /\ i \in 1 .. Len(table) /\ i # first
    BY <2>2
  <2> HIDE DEF first
  <2> DEFINE rest == [k \in 1 .. Len(table) - 1 |->
                        IF k < first THEN table[k] ELSE table[k + 1]]
  <2>4. RemoveRecord(table, ptr) = rest
    BY <1>2 DEF RemoveRecord, first
  <2>5. CASE i < first
    <3>1. i \in DOMAIN rest /\ rest[i] = table[i]
      BY <2>3, <2>5
    <3> QED  BY <3>1, <2>4
  <2>6. CASE i > first
    <3>1. i - 1 \in DOMAIN rest /\ ~ (i - 1 < first) /\ i - 1 + 1 = i
      BY <2>3, <2>6
    <3>2. rest[i - 1] = table[i]
      BY <3>1
    <3> QED  BY <3>1, <3>2, <2>4
  <2> QED  BY <2>3, <2>5, <2>6
<1> QED  BY <1>1, <1>2

LEMMA RecordKeeps ==
  ASSUME NEW table \in Seq(Ptr), NEW ptr \in Ptr, NEW i \in DOMAIN table
  PROVE  i \in DOMAIN Record(table, ptr) /\ Record(table, ptr)[i] = table[i]
BY DEF Record

(* malloc's addresses lie outside the pools' arrays.                       *)
LEMMA HeapIsNoBlock ==
  ASSUME NEW ptr \in Heap
  PROVE  ptr \in Ptr /\ ptr \notin Block
BY PoolAssumption DEF Ptr

(* The counters of a pool stay within a word: taking a block out of a      *)
(* bitmap that has it, and putting back one that it has not, is exact.     *)
LEMMA TakeBlock ==
  ASSUME NEW p \in Pool, NEW F \in SUBSET BlockOf(p), NEW b \in F
  PROVE  /\ Cardinality(F) \in 1 .. BlockCount[p]
         /\ Cardinality(F \ {b}) = Cardinality(F) - 1
         /\ (Cardinality(F) - 1) % WordSize = Cardinality(F) - 1
         /\ (BlockCount[p] - Cardinality(F) + 1) % WordSize =
              BlockCount[p] - Cardinality(F) + 1
<1>1. IsFiniteSet(F) /\ Cardinality(F) <= BlockCount[p]
  BY BlockOfIsFinite, FS_Subset
<1>2. Cardinality(F) \in Nat /\ Cardinality(F) # 0
  BY <1>1, FS_CardinalityType, FS_EmptySet
<1>3. Cardinality(F \ {b}) = Cardinality(F) - 1
  BY <1>1, FS_RemoveElement
<1>4. BlockCount[p] \in Nat /\ BlockCount[p] < WordSize /\ WordSize \in Nat \ {0}
  BY BlockOfIsFinite, PoolAssumption
<1> QED  BY <1>1, <1>2, <1>3, <1>4

LEMMA ReturnBlock ==
  ASSUME NEW p \in Pool, NEW F \in SUBSET BlockOf(p), NEW b \in BlockOf(p) \ F
  PROVE  /\ Cardinality(F) \in 0 .. BlockCount[p] - 1
         /\ Cardinality(F \cup {b}) = Cardinality(F) + 1
         /\ (Cardinality(F) + 1) % WordSize = Cardinality(F) + 1
         /\ (BlockCount[p] - Cardinality(F) - 1) % WordSize =
              BlockCount[p] - Cardinality(F) - 1
<1>1. F \cup {b} \in SUBSET BlockOf(p) /\ b \in F \cup {b} /\ (F \cup {b}) \ {b} = F
  OBVIOUS
<1>2. /\ Cardinality(F \cup {b}) \in 1 .. BlockCount[p]
      /\ Cardinality(F) = Cardinality(F \cup {b}) - 1
  BY <1>1, TakeBlock
<1>3. BlockCount[p] \in Nat /\ BlockCount[p] < WordSize /\ WordSize \in Nat \ {0}
  BY BlockOfIsFinite, PoolAssumption
<1> QED  BY <1>2, <1>3
-----------------------------------------------------------------------------
(* The inductive invariant: neither the counters nor the bitmap can be     *)
(* kept right without the other, and both rest on callers' pointers being  *)
(* exactly the allocated blocks.                                           *)
IInv == TypeOK /\ HeldIsAllocated /\ CountersMatchBitmap

LEMMA InitIInv == Init => IInv
<1> SUFFICES ASSUME Init PROVE IInv
  OBVIOUS
<1>1. TypeOK
  BY PoolAssumption DEF Init, TypeOK, BlockOf, Word
<1>2. HeldIsAllocated
  BY BlockPairs, HeapIsNoBlock DEF Init, HeldIsAllocated, Ptr
<1>3. CountersMatchBitmap
  <2> SUFFICES ASSUME NEW p \in Pool
               PROVE  free_blocks[p] = Cardinality(free_bitmap[p]) /\
                      allocated_blocks[p] = BlockCount[p] - Cardinality(free_bitmap[p])
    BY DEF CountersMatchBitmap
  <2> QED  BY BlockOfIsFinite DEF Init
<1> QED  BY <1>1, <1>2, <1>3 DEF IInv

(* An allocation from pool p takes the block that memory_first_fit_find    *)
(* found; that block was free, so nobody held it.                          *)
LEMMA AllocFromPoolIInv ==
  ASSUME IInv, NEW p \in Pool, NEW size \in Size, NEW debug \in BOOLEAN,
         AllocFromPool(p, size, debug)
  PROVE  IInv' /\ \E ptr \in Block : Allocator!Allocate(ptr)
<1> DEFINE F == free_bitmap[p]
           b == Lowest(free_bitmap[p])
<1>1. F \in SUBSET BlockOf(p) /\ F \in SUBSET Nat /\ F # {}
  BY DEF IInv, TypeOK, AllocFromPool
<1>2. b \in F
  BY <1>1, LowestIsLeast
<1>3. b \in BlockOf(p) /\ b \in Nat /\ <<p, b>> \in Block /\ <<p, b>> \in Ptr
  BY <1>1, <1>2, BlockPairs DEF Ptr
<1>4. /\ free_bitmap' = [free_bitmap EXCEPT ![p] = F \ {b}]
      /\ free_blocks' = [free_blocks EXCEPT ![p] = (@ + -1) % WordSize]
      /\ allocated_blocks' = [allocated_blocks EXCEPT ![p] = (@ - -1) % WordSize]
      /\ held' = [held EXCEPT ![<<p, b>>] = @ + 1]
  BY DEF AllocFromPool, MarkAllocated, CountFree
<1> DEFINE n == Cardinality(F)
<1>5. /\ n \in 1 .. BlockCount[p]
      /\ Cardinality(F \ {b}) = n - 1
      /\ (n - 1) % WordSize = n - 1
      /\ (BlockCount[p] - n + 1) % WordSize = BlockCount[p] - n + 1
  BY <1>1, <1>2, TakeBlock
<1>6. free_blocks[p] = n /\ allocated_blocks[p] = BlockCount[p] - n
  BY DEF IInv, CountersMatchBitmap
<1>7. BlockCount[p] \in Nat /\ BlockCount[p] < WordSize /\ WordSize \in Nat \ {0}
  BY BlockOfIsFinite, PoolAssumption
<1>8. CountersMatchBitmap'
  <2> SUFFICES ASSUME NEW q \in Pool
               PROVE  free_blocks'[q] = Cardinality(free_bitmap'[q]) /\
                      allocated_blocks'[q] = BlockCount[q] - Cardinality(free_bitmap'[q])
    BY DEF CountersMatchBitmap
  <2>1. CASE q = p
    <3>1. free_bitmap'[p] = F \ {b}
      BY <1>4 DEF IInv, TypeOK
    <3>2. free_blocks'[p] = (n - 1) % WordSize
      BY <1>4, <1>6 DEF IInv, TypeOK
    <3>3. allocated_blocks'[p] = (BlockCount[p] - n + 1) % WordSize
      <4>1. allocated_blocks'[p] = (allocated_blocks[p] - -1) % WordSize
        BY <1>4 DEF IInv, TypeOK
      <4> HIDE DEF n
      <4> QED  BY <4>1, <1>5, <1>6, <1>7
    <3> HIDE DEF F, b, n
    <3> QED  BY <2>1, <3>1, <3>2, <3>3, <1>5, <1>7
  <2>2. CASE q # p
    BY <2>2, <1>4 DEF IInv, TypeOK, CountersMatchBitmap
  <2> QED  BY <2>1, <2>2
<1>9. HeldIsAllocated'
  <2>1. \A q \in Pool : \A c \in BlockOf(q) :
          held'[<<q, c>>] = IF c \in free_bitmap'[q] THEN 0 ELSE 1
    <3> SUFFICES ASSUME NEW q \in Pool, NEW c \in BlockOf(q)
                 PROVE  held'[<<q, c>>] = IF c \in free_bitmap'[q] THEN 0 ELSE 1
      OBVIOUS
    <3>1. <<q, c>> \in Ptr /\ held[<<q, c>>] = IF c \in free_bitmap[q] THEN 0 ELSE 1
      BY BlockPairs DEF IInv, HeldIsAllocated, Ptr
    <3> HIDE DEF b
    <3>2. CASE q = p /\ c = b
      <4>1. held[<<p, b>>] = 0
        BY <1>2, <3>1, <3>2
      <4>2. held'[<<p, b>>] = 1
        BY <4>1, <1>3, <1>4 DEF IInv, TypeOK
      <4>3. b \notin free_bitmap'[p]
        BY <1>4 DEF IInv, TypeOK
      <4> QED  BY <3>2, <4>2, <4>3
    <3>3. CASE ~ (q = p /\ c = b)
      <4>1. held'[<<q, c>>] = held[<<q, c>>]
        BY <3>1, <3>3, <1>4 DEF IInv, TypeOK
      <4>2. c \in free_bitmap'[q] <=> c \in free_bitmap[q]
        BY <3>3, <1>4 DEF IInv, TypeOK
      <4> QED  BY <3>1, <4>1, <4>2
    <3> QED  BY <3>2, <3>3
  <2>2. \A ptr \in Heap : held'[ptr] \in {0, 1}
    <3> HIDE DEF b
    <3> QED  BY <1>3, <1>4, HeapIsNoBlock DEF IInv, TypeOK, HeldIsAllocated
  <2> QED  BY <2>1, <2>2 DEF HeldIsAllocated
<1>10. TypeOK'
  <2>1. /\ free_bitmap' \in [Pool -> SUBSET Nat]
        /\ \A q \in Pool : free_bitmap'[q] \subseteq BlockOf(q)
    BY <1>1, <1>4 DEF IInv, TypeOK
  <2>2. free_blocks' \in [Pool -> Word] /\ allocated_blocks' \in [Pool -> Word]
    <3>1. (free_blocks[p] + -1) % WordSize \in Word
      BY <1>5, <1>6, <1>7 DEF Word
    <3>2. (allocated_blocks[p] - -1) % WordSize \in Word
      <4> HIDE DEF n
      <4> QED  BY <1>5, <1>6, <1>7 DEF Word
    <3> QED  BY <3>1, <3>2, <1>4 DEF IInv, TypeOK
  <2>3. allocated_memory' \in Word
    <3>1. allocated_memory' = (allocated_memory - (-1) * BlockSize[p]) % WordSize
      <4>1. CountFree(p, -1)
        BY DEF AllocFromPool
      <4> QED  BY <4>1 DEF CountFree
    <3>2. allocated_memory \in Nat /\ BlockSize[p] \in Nat
      BY PoolAssumption DEF IInv, TypeOK, Word
    <3> QED  BY <3>1, <3>2, <1>7 DEF Word
  <2>4. records' \in Seq(Ptr) /\ Len(records') <= MaxRecords
    BY <1>3, RecordType DEF AllocFromPool, IInv, TypeOK
  <2>5. held' \in [Ptr -> Nat] /\ memory_leaks' \in Nat
    BY <1>3, <1>4 DEF AllocFromPool, IInv, TypeOK
  <2>6. traced' \subseteq Block
    <3>1. traced' \subseteq traced \cup {<<p, b>>}
      BY DEF AllocFromPool
    <3> QED  BY <3>1, <1>3 DEF IInv, TypeOK
  <2> QED  BY <2>1, <2>2, <2>3, <2>4, <2>5, <2>6 DEF TypeOK
<1>11. held[<<p, b>>] = 0
  BY <1>2, <1>3 DEF IInv, HeldIsAllocated
<1>12. Allocator!Allocate(<<p, b>>)
  BY <1>4, <1>11 DEF Allocator!Allocate
<1> QED  BY <1>3, <1>8, <1>9, <1>10, <1>12 DEF IInv

(* A freed block was held, so it was not free, and the counters move back  *)
(* by exactly one.                                                         *)
LEMMA FreeToPoolIInv ==
  ASSUME IInv, NEW p \in Pool, NEW b \in BlockOf(p), FreeToPool(p, b)
  PROVE  IInv' /\ \E ptr \in Block : Allocator!Release(ptr)
<1> DEFINE F == free_bitmap[p]
           n == Cardinality(F)
<1>1. F \in SUBSET BlockOf(p) /\ b \in Nat /\ <<p, b>> \in Block /\ <<p, b>> \in Ptr
  BY BlockPairs DEF IInv, TypeOK, BlockOf, Ptr
<1>2. b \notin F /\ held[<<p, b>>] = 1
  BY DEF IInv, HeldIsAllocated, FreeToPool
<1>3. /\ free_bitmap' = [free_bitmap EXCEPT ![p] = F \cup {b}]
      /\ free_blocks' = [free_blocks EXCEPT ![p] = (@ + 1) % WordSize]
      /\ allocated_blocks' = [allocated_blocks EXCEPT ![p] = (@ - 1) % WordSize]
      /\ held' = [held EXCEPT ![<<p, b>>] = @ - 1]
  BY DEF FreeToPool, MarkFree, CountFree
<1>4. /\ n \in 0 .. BlockCount[p] - 1
      /\ Cardinality(F \cup {b}) = n + 1
      /\ (n + 1) % WordSize = n + 1
      /\ (BlockCount[p] - n - 1) % WordSize = BlockCount[p] - n - 1
  BY <1>1, <1>2, ReturnBlock
<1>5. free_blocks[p] = n /\ allocated_blocks[p] = BlockCount[p] - n
  BY DEF IInv, CountersMatchBitmap
<1>6. BlockCount[p] \in Nat /\ BlockCount[p] < WordSize /\ WordSize \in Nat \ {0}
  BY BlockOfIsFinite, PoolAssumption
<1>7. CountersMatchBitmap'
  <2> SUFFICES ASSUME NEW q \in Pool
               PROVE  free_blocks'[q] = Cardinality(free_bitmap'[q]) /\
                      allocated_blocks'[q] = BlockCount[q] - Cardinality(free_bitmap'[q])
    BY DEF CountersMatchBitmap
  <2>1. CASE q = p
    <3>1. free_bitmap'[p] = F \cup {b}
      BY <1>3 DEF IInv, TypeOK
    <3>2. free_blocks'[p] = (n + 1) % WordSize
      BY <1>3, <1>5 DEF IInv, TypeOK
    <3>3. allocated_blocks'[p] = (BlockCount[p] - n - 1) % WordSize
      BY <1>3, <1>5 DEF IInv, TypeOK
    <3> HIDE DEF F, n
    <3> QED  BY <2>1, <3>1, <3>2, <3>3, <1>4, <1>6
  <2>2. CASE q # p
    BY <2>2, <1>3 DEF IInv, TypeOK, CountersMatchBitmap
  <2> QED  BY <2>1, <2>2
<1>8. HeldIsAllocated'
  <2>1. \A q \in Pool : \A c \in BlockOf(q) :
          held'[<<q, c>>] = IF c \in free_bitmap'[q] THEN 0 ELSE 1
    <3> SUFFICES ASSUME NEW q \in Pool, NEW c \in BlockOf(q)
                 PROVE  held'[<<q, c>>] = IF c \in free_bitmap'[q] THEN 0 ELSE 1
      OBVIOUS
    <3>1. <<q, c>> \in Ptr /\ held[<<q, c>>] = IF c \in free_bitmap[q] THEN 0 ELSE 1
      BY BlockPairs DEF IInv, HeldIsAllocated, Ptr
    <3>2. CASE q = p /\ c = b
      <4>1. held'[<<p, b>>] = 0
        BY <1>1, <1>2, <1>3 DEF IInv, TypeOK
      <4>2. b \in free_bitmap'[p]
        BY <1>3 DEF IInv, TypeOK
      <4> QED  BY <3>2, <4>1, <4>2
    <3>3. CASE ~ (q = p /\ c = b)
      <4>1. held'[<<q, c>>] = held[<<q, c>>]
        BY <3>1, <3>3, <1>3 DEF IInv, TypeOK
      <4>2. c \in free_bitmap'[q] <=> c \in free_bitmap[q]
        BY <3>3, <1>3 DEF IInv, TypeOK
      <4> QED  BY <3>1, <4>1, <4>2
    <3> QED  BY <3>2, <3>3
  <2>2. \A ptr \in Heap : held'[ptr] \in {0, 1}
    BY <1>1, <1>3, HeapIsNoBlock DEF IInv, TypeOK, HeldIsAllocated
  <2> QED  BY <2>1, <2>2 DEF HeldIsAllocated
<1>9. TypeOK'
  <2>1. /\ free_bitmap' \in [Pool -> SUBSET Nat]
        /\ \A q \in Pool : free_bitmap'[q] \subseteq BlockOf(q)
    BY <1>1, <1>3 DEF IInv, TypeOK
  <2>2. free_blocks' \in [Pool -> Word] /\ allocated_blocks' \in [Pool -> Word]
    <3> HIDE DEF n
    <3>1. (free_blocks[p] + 1) % WordSize \in Word
      BY <1>4, <1>5, <1>6 DEF Word
    <3>2. (allocated_blocks[p] - 1) % WordSize \in Word
      BY <1>4, <1>5, <1>6 DEF Word
    <3> QED  BY <3>1, <3>2, <1>3 DEF IInv, TypeOK
  <2>3. allocated_memory' \in Word
    <3>1. allocated_memory' = (allocated_memory - 1 * BlockSize[p]) % WordSize
      BY DEF FreeToPool, CountFree
    <3>2. allocated_memory \in Nat /\ BlockSize[p] \in Nat
      BY PoolAssumption DEF IInv, TypeOK, Word
    <3> QED  BY <3>1, <3>2, <1>6 DEF Word
  <2>4. /\ held' \in [Ptr -> Nat] /\ memory_leaks' \in Nat
        /\ records' \in Seq(Ptr) /\ Len(records') <= MaxRecords
        /\ traced' \subseteq Block
    BY <1>1, <1>2, <1>3 DEF FreeToPool, IInv, TypeOK
  <2> QED  BY <2>1, <2>2, <2>3, <2>4 DEF TypeOK
<1>10. Allocator!Release(<<p, b>>)
  BY <1>2, <1>3 DEF Allocator!Release
<1> QED  BY <1>1, <1>7, <1>8, <1>9, <1>10 DEF IInv

(* The calls that leave the pools alone: the heap's and leak detection.    *)
LEMMA PoolsUntouched ==
  ASSUME IInv, UNCHANGED <<free_bitmap, counters>>,
         held' \in [Ptr -> Nat], \A ptr \in Block : held'[ptr] = held[ptr],
         \A ptr \in Heap : held'[ptr] \in {0, 1},
         memory_leaks' \in Nat, records' \in Seq(Ptr), Len(records') <= MaxRecords,
         traced' = traced
  PROVE  IInv'
<1>1. TypeOK'
  BY DEF IInv, TypeOK, counters
<1>2. HeldIsAllocated'
  BY BlockPairs DEF IInv, HeldIsAllocated
<1>3. CountersMatchBitmap'
  BY DEF IInv, CountersMatchBitmap, counters
<1> QED  BY <1>1, <1>2, <1>3 DEF IInv

LEMMA AllocFromHeapIInv ==
  ASSUME IInv, NEW ptr \in Heap, NEW size \in Size, NEW debug \in BOOLEAN,
         AllocFromHeap(ptr, size, debug)
  PROVE  IInv' /\ Allocator!Allocate(ptr)
<1>1. records' \in Seq(Ptr) /\ Len(records') <= MaxRecords
  BY HeapIsNoBlock, RecordType DEF AllocFromHeap, IInv, TypeOK
<1>2. held[ptr] = 0 /\ held' = [held EXCEPT ![ptr] = 1]
  BY DEF AllocFromHeap
<1>3. held' \in [Ptr -> Nat] /\ \A b \in Block : held'[b] = held[b]
  BY <1>2, HeapIsNoBlock DEF IInv, TypeOK, Ptr
<1>4. \A h \in Heap : held'[h] \in {0, 1}
  BY <1>2, HeapIsNoBlock DEF IInv, TypeOK, HeldIsAllocated
<1>5. IInv'
  BY <1>1, <1>3, <1>4, PoolsUntouched DEF AllocFromHeap, IInv, TypeOK
<1> QED  BY <1>2, <1>5 DEF Allocator!Allocate

LEMMA FreeToHeapIInv ==
  ASSUME IInv, NEW ptr \in Heap, FreeToHeap(ptr)
  PROVE  IInv' /\ Allocator!Release(ptr)
<1>1. records' \in Seq(Ptr) /\ Len(records') <= MaxRecords
  BY HeapIsNoBlock, RemoveRecordType DEF FreeToHeap, IInv, TypeOK
<1>2. held[ptr] = 1 /\ held' = [held EXCEPT ![ptr] = 0]
  <2>1. held[ptr] \in {0, 1} /\ held[ptr] > 0
    BY DEF FreeToHeap, IInv, HeldIsAllocated
  <2>2. held[ptr] = 1 /\ held[ptr] - 1 = 0
    BY <2>1
  <2>3. held' = [held EXCEPT ![ptr] = held[ptr] - 1]
    BY DEF FreeToHeap
  <2> QED  BY <2>2, <2>3
<1>3. held' \in [Ptr -> Nat] /\ \A b \in Block : held'[b] = held[b]
  BY <1>2, HeapIsNoBlock DEF IInv, TypeOK, Ptr
<1>4. \A h \in Heap : held'[h] \in {0, 1}
  BY <1>2, HeapIsNoBlock DEF IInv, TypeOK, HeldIsAllocated
<1>5. IInv'
  BY <1>1, <1>3, <1>4, PoolsUntouched DEF FreeToHeap, IInv, TypeOK
<1> QED  BY <1>2, <1>5 DEF Allocator!Release

LEMMA DetectLeaksIInv ==
  ASSUME IInv, DetectLeaks
  PROVE  IInv'
<1>1. IsFiniteSet(LeakRecords)
  <2>1. DOMAIN records = 1 .. Len(records) /\ Len(records) \in Nat
    BY DEF IInv, TypeOK
  <2>2. IsFiniteSet(1 .. Len(records))
    BY <2>1, FS_Interval
  <2>3. LeakRecords \in SUBSET (1 .. Len(records))
    BY <2>1 DEF LeakRecords
  <2> QED  BY <2>2, <2>3, FS_Subset
<1>2. memory_leaks' \in Nat
  BY <1>1, FS_CardinalityType DEF DetectLeaks
<1> QED  BY <1>2, PoolsUntouched DEF DetectLeaks, IInv, TypeOK, HeldIsAllocated
-----------------------------------------------------------------------------
LEMMA NextIInv == IInv /\ [Next]_vars => IInv'
<1> SUFFICES ASSUME IInv, [Next]_vars PROVE IInv'
  OBVIOUS
<1>1. ASSUME NEW size \in Size, NEW debug \in BOOLEAN, NEW p \in Pool,
             AllocFromPool(p, size, debug)
      PROVE  IInv'
  BY <1>1, AllocFromPoolIInv
<1>2. ASSUME NEW size \in Size, NEW debug \in BOOLEAN, NEW ptr \in Heap,
             AllocFromHeap(ptr, size, debug)
      PROVE  IInv'
  BY <1>2, AllocFromHeapIInv
<1>3. ASSUME NEW p \in Pool, NEW b \in BlockOf(p), FreeToPool(p, b) PROVE IInv'
  BY <1>3, FreeToPoolIInv
<1>4. ASSUME NEW ptr \in Heap, FreeToHeap(ptr) PROVE IInv'
  BY <1>4, FreeToHeapIInv
<1>5. CASE DetectLeaks
  BY <1>5, DetectLeaksIInv
<1>6. CASE UNCHANGED vars
  BY <1>6, PoolsUntouched DEF vars, IInv, TypeOK, HeldIsAllocated
<1> QED  BY <1>1, <1>2, <1>3, <1>4, <1>5, <1>6 DEF Next

LEMMA Invariance == Spec => []IInv
BY InitIInv, NextIInv, PTL DEF Spec

(* Every variable of memory/memory_pool.c keeps its type, for pools of any *)
(* number and size and every word that can count a pool's blocks.          *)
THEOREM TypeCorrect == Spec => []TypeOK
BY Invariance, PTL DEF IInv

(* The bitmap marks a block allocated exactly while a caller holds it:     *)
(* memory_pool_alloc never hands out a block twice.                        *)
THEOREM BlocksAreHeldOnce == Spec => []HeldIsAllocated
BY Invariance, PTL DEF IInv

(* free_blocks and allocated_blocks agree with the bitmap and never wrap.  *)
THEOREM CountersAreRight == Spec => []CountersMatchBitmap
BY Invariance, PTL DEF IInv

(* The pools with the heap behind them implement the abstract allocator.   *)
THEOREM PoolsImplementAllocator == Spec => ImplementsAllocator
<1>1. Init => Allocator!Init
  BY DEF Init, Allocator!Init
<1>2. IInv /\ [Next]_vars => [Allocator!Next]_held
  <2> SUFFICES ASSUME IInv, [Next]_vars PROVE [Allocator!Next]_held
    OBVIOUS
  <2> USE DEF Allocator!Next
  <2>1. ASSUME NEW size \in Size, NEW debug \in BOOLEAN, NEW p \in Pool,
               AllocFromPool(p, size, debug)
        PROVE  Allocator!Next
    BY <2>1, AllocFromPoolIInv DEF Ptr
  <2>2. ASSUME NEW size \in Size, NEW debug \in BOOLEAN, NEW ptr \in Heap,
               AllocFromHeap(ptr, size, debug)
        PROVE  Allocator!Next
    BY <2>2, AllocFromHeapIInv, HeapIsNoBlock
  <2>3. ASSUME NEW p \in Pool, NEW b \in BlockOf(p), FreeToPool(p, b)
        PROVE  Allocator!Next
    BY <2>3, FreeToPoolIInv DEF Ptr
  <2>4. ASSUME NEW ptr \in Heap, FreeToHeap(ptr) PROVE Allocator!Next
    BY <2>4, FreeToHeapIInv, HeapIsNoBlock
  <2>5. CASE DetectLeaks
    BY <2>5 DEF DetectLeaks
  <2>6. CASE UNCHANGED vars
    BY <2>6 DEF vars
  <2> QED  BY <2>1, <2>2, <2>3, <2>4, <2>5, <2>6 DEF Next
<1> QED  BY <1>1, <1>2, Invariance, PTL DEF Spec, ImplementsAllocator, Allocator!Spec

(* Every call keeps the record of a pointer still held, and of every block. *)
LEMMA RecordSurvives ==
  ASSUME IInv, [Next]_vars, NEW i \in DOMAIN records,
         held'[records[i]] > 0 \/ records[i] \in Block
  PROVE  \E j \in DOMAIN records' : records'[j] = records[i]
<1> DEFINE Survives(k) == \E j \in DOMAIN records' : records'[j] = records[k]
<1>0. records \in Seq(Ptr) /\ Len(records) <= MaxRecords
  BY DEF IInv, TypeOK
<1>1. ASSUME NEW size \in Size, NEW debug \in BOOLEAN, NEW p \in Pool,
             AllocFromPool(p, size, debug)
      PROVE  Survives(i)
  <2> DEFINE ptr == <<p, Lowest(free_bitmap[p])>>
  <2>1. ptr \in Ptr
    <3>1. free_bitmap[p] # {} /\ free_bitmap[p] \in SUBSET Nat
          /\ free_bitmap[p] \subseteq BlockOf(p)
      BY <1>1 DEF AllocFromPool, IInv, TypeOK
    <3> QED  BY <3>1, LowestIsLeast, BlockPairs DEF Ptr
  <2>2. records' = Record(records, ptr) \/ records' = records
    BY <1>1 DEF AllocFromPool
  <2> HIDE DEF ptr
  <2> QED  BY <2>1, <2>2, <1>0, RecordKeeps
<1>2. ASSUME NEW size \in Size, NEW debug \in BOOLEAN, NEW ptr \in Heap,
             AllocFromHeap(ptr, size, debug)
      PROVE  Survives(i)
  <2> DEFINE once == Record(records, ptr)
  <2>1. ptr \in Ptr
    BY HeapIsNoBlock
  <2>2. once \in Seq(Ptr) /\ i \in DOMAIN once /\ once[i] = records[i]
    BY <2>1, <1>0, RecordType, RecordKeeps
  <2>3. records' = Record(once, ptr) \/ records' = once
    BY <1>2 DEF AllocFromHeap
  <2> HIDE DEF once
  <2> QED  BY <2>1, <2>2, <2>3, RecordKeeps
<1>3. ASSUME NEW ptr \in Heap, FreeToHeap(ptr) PROVE Survives(i)
  <2>1. held' = [held EXCEPT ![ptr] = 0]
    BY <1>3, FreeToHeapIInv DEF Allocator!Release
  <2>2. ptr \in Ptr /\ ptr \notin Block /\ held \in [Ptr -> Nat]
    BY HeapIsNoBlock DEF IInv, TypeOK
  <2>3. records[i] # ptr
    BY <2>1, <2>2
  <2>4. records' = RemoveRecord(records, ptr)
    BY <1>3 DEF FreeToHeap
  <2> QED  BY <2>2, <2>3, <2>4, <1>0, RemoveRecordKeeps
<1>4. ASSUME UNCHANGED records PROVE Survives(i)
  BY <1>4
<1> QED  BY <1>1, <1>2, <1>3, <1>4 DEF Next, FreeToPool, DetectLeaks, vars

(* The allocation records of pointers still held, and of all blocks, stay  *)
(* in the table across every call.                                         *)
THEOREM RecordsAreKept == Spec => RecordsSurvive
<1>1. ASSUME IInv, [Next]_vars
      PROVE  \A i \in DOMAIN records :
               held'[records[i]] > 0 \/ records[i] \in Block =>
                 \E j \in DOMAIN records' : records'[j] = records[i]
  BY <1>1, RecordSurvives
<1> QED  BY <1>1, Invariance, PTL DEF Spec, RecordsSurvive

(* A set of indices reaches at most as many pointers as it has elements.   *)
LEMMA PointersReached ==
  ASSUME NEW table \in Seq(Ptr), NEW S \in SUBSET DOMAIN table, NEW T,
         \A b \in T : \E i \in S : table[i] = b
  PROVE  /\ Cardinality(T) <= Cardinality(S)
         /\ Cardinality(T) \in Nat /\ Cardinality(S) \in Nat
<1> DEFINE R == {i \in S : table[i] \in T}
           f == [i \in R |-> table[i]]
<1>1. IsFiniteSet(S) /\ Cardinality(S) \in Nat
  <2>1. DOMAIN table = 1 .. Len(table) /\ Len(table) \in Nat
    OBVIOUS
  <2>2. IsFiniteSet(DOMAIN table)
    BY <2>1, FS_Interval
  <2> QED  BY <2>2, FS_Subset, FS_CardinalityType
<1>2. IsFiniteSet(R) /\ Cardinality(R) <= Cardinality(S)
  BY <1>1, FS_Subset
<1>3. f \in Surjection(R, T)
  <2>1. f \in [R -> T]
    OBVIOUS
  <2>2. \A b \in T : \E i \in R : f[i] = b
    OBVIOUS
  <2> QED  BY <2>1, <2>2 DEF Surjection
<1> HIDE DEF f, R
<1>4. IsFiniteSet(T) /\ Cardinality(T) <= Cardinality(R)
  BY <1>2, <1>3, FS_Surjection
<1>5. Cardinality(T) \in Nat /\ Cardinality(R) \in Nat
  BY <1>2, <1>4, FS_CardinalityType
<1> QED  BY <1>1, <1>2, <1>4, <1>5

(* What leak detection rests on: a block handed out with a record has it   *)
(* in the table until it is given back.                                    *)
TracedAreRecorded == \A b \in traced : \E i \in DOMAIN records : records[i] = b

LEMMA TracedInvariance == Spec => []TracedAreRecorded
<1> DEFINE Recorded(b) == \E i \in DOMAIN records : records[i] = b
<1>1. Init => TracedAreRecorded
  BY DEF Init, TracedAreRecorded
<1>2. ASSUME IInv, TracedAreRecorded, [Next]_vars
      PROVE  TracedAreRecorded'
  <2>1. ASSUME NEW b \in traced
        PROVE  \E j \in DOMAIN records' : records'[j] = b
    <3>1. PICK i \in DOMAIN records : records[i] = b
      BY <1>2 DEF TracedAreRecorded
    <3>2. records[i] \in Block
      BY <3>1, <1>2 DEF IInv, TypeOK
    <3> QED  BY <3>1, <3>2, <1>2, RecordSurvives
  <2>2. ASSUME NEW size \in Size, NEW debug \in BOOLEAN, NEW p \in Pool,
               AllocFromPool(p, size, debug), NEW b \in traced', b \notin traced
        PROVE  \E j \in DOMAIN records' : records'[j] = b
    <3>1. /\ b = <<p, Lowest(free_bitmap[p])>>
          /\ debug /\ Debugging /\ Len(records) < MaxRecords
      BY <2>2 DEF AllocFromPool
    <3>2. records' = Append(records, b)
      BY <2>2, <3>1 DEF AllocFromPool, Record
    <3>3. records \in Seq(Ptr) /\ b \in Ptr
      <4>1. traced' \subseteq Block
        BY <1>2, NextIInv DEF IInv, TypeOK
      <4> QED  BY <4>1, <2>2, <1>2 DEF IInv, TypeOK, Ptr
    <3>4. Len(records) + 1 \in DOMAIN records' /\ records'[Len(records) + 1] = b
      BY <3>2, <3>3
    <3> QED  BY <3>4
  <2>3. \/ traced' \subseteq traced
        \/ \E size \in Size, debug \in BOOLEAN : \E p \in Pool :
             AllocFromPool(p, size, debug)
    BY <1>2 DEF Next, AllocFromHeap, FreeToPool, FreeToHeap, DetectLeaks, vars
  <2> QED  BY <2>1, <2>2, <2>3 DEF TracedAreRecorded
<1> QED  BY <1>1, <1>2, Invariance, PTL DEF Spec

(* A block handed out with a record and not given back is counted by every *)
(* leak detection after it.                                                *)
THEOREM LeaksAreCounted == Spec => NoLeakIsMissed
<1>1. ASSUME IInv, TracedAreRecorded, DetectLeaks
      PROVE  memory_leaks' >= Cardinality(traced)
  <2>1. records \in Seq(Ptr) /\ LeakRecords \in SUBSET DOMAIN records
    BY <1>1 DEF IInv, TypeOK, LeakRecords
  <2>2. \A b \in traced : \E i \in LeakRecords : records[i] = b
    BY <1>1 DEF LeakRecords, TracedAreRecorded, IInv, TypeOK
  <2>3. memory_leaks' = Cardinality(LeakRecords)
    BY <1>1 DEF DetectLeaks
  <2>4. /\ Cardinality(traced) <= Cardinality(LeakRecords)
        /\ Cardinality(traced) \in Nat /\ Cardinality(LeakRecords) \in Nat
    BY <2>1, <2>2, PointersReached
  <2> QED  BY <2>3, <2>4
<1> QED  BY <1>1, Invariance, TracedInvariance, PTL DEF Spec, NoLeakIsMissed
=============================================================================
