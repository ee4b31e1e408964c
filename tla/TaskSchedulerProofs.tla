------------------------ MODULE TaskSchedulerProofs ------------------------
(***************************************************************************)
(* Theorems about the task scheduler, for any number of slots, priorities   *)
(* and tasks.  The ready lists are described by two things the code does    *)
(* not store: "on", the set of the slots that are on a list, and "rank", a  *)
(* number for each slot that grows along every list.  What they say of the   *)
(* lists holds until an API call overlaps the list work of run_once, which   *)
(* takes no mutex.                                                          *)
(***************************************************************************)
EXTENDS TaskScheduler, Counting, FiniteSetTheorems, TLAPS

-----------------------------------------------------------------------------
(* The ready lists *)

ListType ==
  [head : [Priority -> Slot \cup {NULL}],
   next : [Slot -> Slot \cup {NULL}], prev : [Slot -> Slot \cup {NULL}]]

FrontsListed(q, on, pri) ==
  \A p \in Priority : q.head[p] # NULL =>
    q.head[p] \in on /\ pri[q.head[p]] = p /\ q.prev[q.head[p]] = NULL

FirstIsFront(q, on, pri) == \A s \in on : q.prev[s] = NULL => q.head[pri[s]] = s

NextLinked(q, on, pri, rank) ==
  \A s \in Slot : q.next[s] # NULL =>
    /\ s \in on /\ q.next[s] \in on
    /\ q.prev[q.next[s]] = s
    /\ pri[q.next[s]] = pri[s]
    /\ rank[s] < rank[q.next[s]]

PrevLinked(q, on) ==
  \A s \in Slot : q.prev[s] # NULL =>
    s \in on /\ q.prev[s] \in on /\ q.next[q.prev[s]] = s

Lists(q, on, pri, rank) ==
  /\ q \in ListType
  /\ FrontsListed(q, on, pri) /\ FirstIsFront(q, on, pri)
  /\ NextLinked(q, on, pri, rank) /\ PrevLinked(q, on)

(* A task put in front gets the least rank. *)
RankedFirst(rank, s) == [t \in Slot |-> IF t = s THEN 0 ELSE rank[t] + 1]

LEMMA NullIsNoSlot == NULL \notin Slot
BY DEF NULL, Slot

LEMMA AddKeepsLists ==
  ASSUME NEW q, NEW on \in SUBSET Slot, NEW pri \in [Slot -> Priority],
         NEW rank \in [Slot -> Nat], Lists(q, on, pri, rank),
         NEW s \in Slot, s \notin on
  PROVE  Lists(AddToReadyQueue(q, s, pri[s]), on \cup {s}, pri, RankedFirst(rank, s))
<1> DEFINE first == q.head[pri[s]]
           r == AddToReadyQueue(q, s, pri[s])
           rank2 == RankedFirst(rank, s)
<1>1. /\ q.next[s] = NULL /\ q.prev[s] = NULL
      /\ first \in Slot \cup {NULL} /\ first # s
      /\ first # NULL => first \in on /\ pri[first] = pri[s]
      /\ \A t \in Slot : q.next[t] # s /\ q.prev[t] # s
  BY NullIsNoSlot DEF Lists, ListType, FrontsListed, FirstIsFront, NextLinked, PrevLinked
<1>2. /\ r.head = [q.head EXCEPT ![pri[s]] = s]
      /\ r.next = [q.next EXCEPT ![s] = first]
      /\ r.prev \in [Slot -> Slot \cup {NULL}]
      /\ \A t \in Slot : r.prev[t] = IF t = first /\ t # NULL THEN s ELSE q.prev[t]
  BY <1>1, NullIsNoSlot DEF AddToReadyQueue, Lists, ListType, FrontsListed, FirstIsFront, NextLinked, PrevLinked
<1>3. r \in [head : [Priority -> Slot \cup {NULL}],
             next : [Slot -> Slot \cup {NULL}], prev : [Slot -> Slot \cup {NULL}]]
  <2>1. r = [head |-> r.head, next |-> r.next, prev |-> r.prev]
    BY DEF AddToReadyQueue
  <2>2. r.head \in [Priority -> Slot \cup {NULL}] /\ r.next \in [Slot -> Slot \cup {NULL}]
    BY <1>1, <1>2 DEF Lists, ListType, FrontsListed, FirstIsFront, NextLinked, PrevLinked
  <2> HIDE DEF r
  <2> QED  BY <1>2, <2>1, <2>2
<1> HIDE DEF r
<1>4. \A t \in Slot : rank2[t] = IF t = s THEN 0 ELSE rank[t] + 1
  BY DEF RankedFirst
<1> HIDE DEF rank2
<1>5. ASSUME NEW p \in Priority, r.head[p] # NULL
      PROVE  r.head[p] \in on \cup {s} /\ pri[r.head[p]] = p /\ r.prev[r.head[p]] = NULL
  <2>1. CASE p = pri[s]
    BY <1>1, <1>2, <2>1 DEF Lists, ListType, FrontsListed, FirstIsFront, NextLinked, PrevLinked
  <2>2. CASE p # pri[s]
    <3>1. r.head[p] = q.head[p] /\ q.head[p] \in on /\ pri[q.head[p]] = p
          /\ q.prev[q.head[p]] = NULL
      BY <1>2, <1>5, <2>2 DEF Lists, ListType, FrontsListed, FirstIsFront, NextLinked, PrevLinked
    <3>2. q.head[p] # first \/ first = NULL
      BY <1>1, <2>2, <3>1
    <3> QED  BY <1>2, <1>5, <3>1, <3>2
  <2> QED  BY <2>1, <2>2
<1>6. ASSUME NEW t \in on \cup {s}, r.prev[t] = NULL
      PROVE  r.head[pri[t]] = t
  <2>1. CASE t = s
    BY <1>2, <2>1 DEF Lists, ListType, FrontsListed, FirstIsFront, NextLinked, PrevLinked
  <2>2. CASE t # s
    <3>1. t \in on /\ t # first /\ q.prev[t] = NULL
      BY <1>2, <1>6, <2>2, NullIsNoSlot
    <3>2. q.head[pri[t]] = t /\ pri[t] # pri[s]
      BY <3>1 DEF Lists, ListType, FrontsListed, FirstIsFront, NextLinked, PrevLinked
    <3> QED  BY <1>2, <3>1, <3>2 DEF Lists, ListType, FrontsListed, FirstIsFront, NextLinked, PrevLinked
  <2> QED  BY <2>1, <2>2
<1>7. ASSUME NEW t \in Slot, r.next[t] # NULL
      PROVE  /\ t \in on \cup {s} /\ r.next[t] \in on \cup {s}
             /\ r.prev[r.next[t]] = t
             /\ pri[r.next[t]] = pri[t]
             /\ rank2[t] < rank2[r.next[t]]
  <2>1. CASE t = s
    <3>1. r.next[t] = first /\ first # NULL /\ first \in on
      BY <1>1, <1>2, <1>7, <2>1 DEF Lists, ListType, FrontsListed, FirstIsFront, NextLinked, PrevLinked
    <3> QED  BY <1>1, <1>2, <1>4, <2>1, <3>1
  <2>2. CASE t # s
    <3>1. r.next[t] = q.next[t]
      BY <1>2, <2>2 DEF Lists, ListType, FrontsListed, FirstIsFront, NextLinked, PrevLinked
    <3>2. /\ t \in on /\ q.next[t] \in on /\ q.prev[q.next[t]] = t
          /\ pri[q.next[t]] = pri[t] /\ rank[t] < rank[q.next[t]]
      BY <1>7, <3>1 DEF Lists, ListType, FrontsListed, FirstIsFront, NextLinked, PrevLinked
    <3>3. q.next[t] # first \/ first = NULL
      BY <3>2, NullIsNoSlot DEF Lists, ListType, FrontsListed, FirstIsFront, NextLinked, PrevLinked
    <3>4. r.prev[q.next[t]] = t
      BY <1>2, <3>2, <3>3, NullIsNoSlot
    <3>5. rank2[t] < rank2[q.next[t]]
      BY <1>4, <2>2, <3>2
    <3> QED  BY <3>1, <3>2, <3>4, <3>5
  <2> QED  BY <2>1, <2>2
<1>8. ASSUME NEW t \in Slot, r.prev[t] # NULL
      PROVE  t \in on \cup {s} /\ r.prev[t] \in on \cup {s} /\ r.next[r.prev[t]] = t
  <2>1. CASE t = first /\ t # NULL
    BY <1>1, <1>2, <2>1 DEF Lists, ListType, FrontsListed, FirstIsFront, NextLinked, PrevLinked
  <2>2. CASE ~(t = first /\ t # NULL)
    <3>1. r.prev[t] = q.prev[t]
      BY <1>2, <2>2
    <3>2. t \in on /\ q.prev[t] \in on /\ q.next[q.prev[t]] = t /\ q.prev[t] # s
      BY <1>1, <1>8, <3>1 DEF Lists, ListType, FrontsListed, FirstIsFront, NextLinked, PrevLinked
    <3> QED  BY <1>2, <3>1, <3>2 DEF Lists, ListType, FrontsListed, FirstIsFront, NextLinked, PrevLinked
  <2> QED  BY <2>1, <2>2
<1>9. FrontsListed(r, on \cup {s}, pri) /\ FirstIsFront(r, on \cup {s}, pri)
  BY <1>5, <1>6 DEF FrontsListed, FirstIsFront
<1>10. NextLinked(r, on \cup {s}, pri, rank2) /\ PrevLinked(r, on \cup {s})
  BY <1>7, <1>8 DEF NextLinked, PrevLinked
<1> QED  BY <1>3, <1>9, <1>10 DEF Lists, ListType, r, rank2

(* Taking a task off its list, from the front or from the middle. *)
LEMMA RemoveKeepsLists ==
  ASSUME NEW q, NEW on \in SUBSET Slot, NEW pri \in [Slot -> Priority],
         NEW rank \in [Slot -> Nat], Lists(q, on, pri, rank), NEW s \in on
  PROVE  Lists(RemoveFromReadyQueue(q, s, pri[s]), on \ {s}, pri, rank)
<1> DEFINE before == q.prev[s]
           after == q.next[s]
           r == RemoveFromReadyQueue(q, s, pri[s])
<1>1. /\ before \in Slot \cup {NULL} /\ after \in Slot \cup {NULL}
      /\ before = NULL => q.head[pri[s]] = s
      /\ before # NULL => before \in on /\ q.next[before] = s
      /\ after # NULL => after \in on /\ q.prev[after] = s /\ rank[s] < rank[after]
                        /\ pri[after] = pri[s]
      /\ after # s /\ before # s
  BY NullIsNoSlot DEF Lists, ListType, FrontsListed, FirstIsFront, NextLinked, PrevLinked
<1>2. /\ r.head \in [Priority -> Slot \cup {NULL}]
      /\ \A p \in Priority : r.head[p] = IF before = NULL /\ p = pri[s] THEN after ELSE q.head[p]
      /\ r.next \in [Slot -> Slot \cup {NULL}]
      /\ \A t \in Slot : r.next[t] = IF t = s THEN NULL
                                     ELSE IF before # NULL /\ t = before THEN after ELSE q.next[t]
      /\ r.prev \in [Slot -> Slot \cup {NULL}]
      /\ \A t \in Slot : r.prev[t] = IF t = s THEN NULL
                                     ELSE IF after # NULL /\ t = after THEN before ELSE q.prev[t]
      /\ r = [head |-> r.head, next |-> r.next, prev |-> r.prev]
  <2>1. r = [head |-> IF before = NULL THEN [q.head EXCEPT ![pri[s]] = after] ELSE q.head,
             next |-> IF before = NULL THEN [q.next EXCEPT ![s] = NULL]
                                       ELSE [q.next EXCEPT ![before] = after, ![s] = NULL],
             prev |-> [IF after = NULL THEN q.prev ELSE [q.prev EXCEPT ![after] = before]
                         EXCEPT ![s] = NULL]]
    BY <1>1 DEF RemoveFromReadyQueue
  <2> HIDE DEF r
  <2> QED  BY <1>1, <2>1, NullIsNoSlot DEF Lists, ListType, FrontsListed, FirstIsFront, NextLinked, PrevLinked
<1> HIDE DEF r
<1>3. ASSUME NEW p \in Priority, r.head[p] # NULL
      PROVE  r.head[p] \in on \ {s} /\ pri[r.head[p]] = p /\ r.prev[r.head[p]] = NULL
  BY <1>1, <1>2, <1>3, NullIsNoSlot DEF Lists, ListType, FrontsListed, FirstIsFront, NextLinked, PrevLinked
<1>4. ASSUME NEW t \in on \ {s}, r.prev[t] = NULL
      PROVE  r.head[pri[t]] = t
  BY <1>1, <1>2, <1>4, NullIsNoSlot DEF Lists, ListType, FrontsListed, FirstIsFront, NextLinked, PrevLinked
<1>5. ASSUME NEW t \in Slot, r.next[t] # NULL
      PROVE  /\ t \in on \ {s} /\ r.next[t] \in on \ {s}
             /\ r.prev[r.next[t]] = t
             /\ pri[r.next[t]] = pri[t]
             /\ rank[t] < rank[r.next[t]]
  <2>1. CASE before # NULL /\ t = before
    BY <1>1, <1>2, <1>5, <2>1, NullIsNoSlot DEF Lists, ListType, FrontsListed, FirstIsFront, NextLinked, PrevLinked
  <2>2. CASE ~(before # NULL /\ t = before)
    <3>1. t # s /\ r.next[t] = q.next[t]
      BY <1>2, <1>5, <2>2
    <3>2. /\ t \in on /\ q.next[t] \in on /\ q.prev[q.next[t]] = t
          /\ pri[q.next[t]] = pri[t] /\ rank[t] < rank[q.next[t]]
      BY <1>5, <3>1 DEF Lists, ListType, FrontsListed, FirstIsFront, NextLinked, PrevLinked
    <3>3. q.next[t] # s
      BY <2>2, <3>2, NullIsNoSlot
    <3> QED  BY <1>1, <1>2, <3>1, <3>2, <3>3
  <2> QED  BY <2>1, <2>2
<1>6. ASSUME NEW t \in Slot, r.prev[t] # NULL
      PROVE  t \in on \ {s} /\ r.prev[t] \in on \ {s} /\ r.next[r.prev[t]] = t
  <2>1. CASE after # NULL /\ t = after
    BY <1>1, <1>2, <1>6, <2>1, NullIsNoSlot DEF Lists, ListType, FrontsListed, FirstIsFront, NextLinked, PrevLinked
  <2>2. CASE ~(after # NULL /\ t = after)
    <3>1. t # s /\ r.prev[t] = q.prev[t]
      BY <1>2, <1>6, <2>2
    <3>2. t \in on /\ q.prev[t] \in on /\ q.next[q.prev[t]] = t
      BY <1>6, <3>1 DEF Lists, ListType, FrontsListed, FirstIsFront, NextLinked, PrevLinked
    <3>3. q.prev[t] # s
      BY <2>2, <3>2, NullIsNoSlot
    <3> QED  BY <1>1, <1>2, <3>1, <3>2, <3>3
  <2> QED  BY <2>1, <2>2
<1>7. r \in [head : [Priority -> Slot \cup {NULL}],
             next : [Slot -> Slot \cup {NULL}], prev : [Slot -> Slot \cup {NULL}]]
  BY <1>2
<1>8. FrontsListed(r, on \ {s}, pri) /\ FirstIsFront(r, on \ {s}, pri)
  BY <1>3, <1>4 DEF FrontsListed, FirstIsFront
<1>9. NextLinked(r, on \ {s}, pri, rank) /\ PrevLinked(r, on \ {s})
  BY <1>5, <1>6 DEF NextLinked, PrevLinked
<1> QED  BY <1>7, <1>8, <1>9 DEF Lists, ListType, r

LEMMA RemoveOffList ==
  ASSUME NEW q, NEW on \in SUBSET Slot, NEW pri \in [Slot -> Priority],
         NEW rank \in [Slot -> Nat], Lists(q, on, pri, rank), NEW s \in Slot \ on
  PROVE  RemoveFromReadyQueue(q, s, pri[s]) = q
BY NullIsNoSlot DEF RemoveFromReadyQueue, Lists, ListType, FrontsListed, FirstIsFront, NextLinked, PrevLinked

(* get_next_ready_task takes the front off as remove_from_ready_queue would. *)
LEMMA TakeIsRemove ==
  ASSUME NEW q, NEW on \in SUBSET Slot, NEW pri \in [Slot -> Priority],
         NEW rank \in [Slot -> Nat], Lists(q, on, pri, rank),
         NEW p \in Priority, q.head[p] # NULL
  PROVE  TakeFirst(q, p) = RemoveFromReadyQueue(q, q.head[p], p)
<1> DEFINE s == q.head[p]
           second == q.next[s]
<1>1. s \in Slot /\ q.prev[s] = NULL /\ second # s /\ second \in Slot \cup {NULL}
  BY NullIsNoSlot DEF Lists, ListType, FrontsListed, FirstIsFront, NextLinked, PrevLinked
<1>2. second # NULL => [q.prev EXCEPT ![second] = NULL, ![s] = NULL]
                       = [[q.prev EXCEPT ![second] = NULL] EXCEPT ![s] = NULL]
  BY <1>1 DEF Lists, ListType, FrontsListed, FirstIsFront, NextLinked, PrevLinked
<1> QED  BY <1>1, <1>2 DEF TakeFirst, RemoveFromReadyQueue

(* Links and fronts tell which slots are on a list. *)
LEMMA OnIsLinked ==
  ASSUME NEW q, NEW on \in SUBSET Slot, NEW pri \in [Slot -> Priority],
         NEW rank \in [Slot -> Nat], Lists(q, on, pri, rank)
  PROVE  \A s \in Slot : s \notin on => q.next[s] = NULL /\ q.prev[s] = NULL
BY DEF Lists, NextLinked, PrevLinked

(* A list with a task on it has a front. *)
LEMMA ListHasFront ==
  ASSUME NEW q, NEW on \in SUBSET Slot, NEW pri \in [Slot -> Priority],
         NEW rank \in [Slot -> Nat], Lists(q, on, pri, rank), NEW s \in on
  PROVE  q.head[pri[s]] # NULL
<1> DEFINE same == {t \in on : pri[t] = pri[s]}
<1>1. PICK t \in same : \A u \in same : rank[t] <= rank[u]
  <2>1. {rank[u] : u \in same} \in SUBSET Nat /\ {rank[u] : u \in same} # {}
    OBVIOUS
  <2>2. PICK k \in {rank[u] : u \in same} : \A j \in {rank[u] : u \in same} : k <= j
    <3> HIDE DEF same
    <3> QED  BY <2>1, LeastNumber
  <2> QED  BY <2>2
<1>2. q.prev[t] = NULL
  <2> SUFFICES ASSUME q.prev[t] # NULL PROVE FALSE
    OBVIOUS
  <2> DEFINE b == q.prev[t]
  <2>1. b \in on /\ q.next[b] = t /\ pri[t] = pri[b] /\ rank[b] < rank[t]
    BY NullIsNoSlot DEF Lists, NextLinked, PrevLinked
  <2> QED  BY <1>1, <2>1
<1> QED  BY <1>1, <1>2, NullIsNoSlot DEF Lists, FirstIsFront

(* Walk follows next from the front of the list. *)
LEMMA WalkSteps ==
  ASSUME NEW p \in Priority, ready_queue \in ListType
  PROVE  /\ Walk(p) \in [0 .. MaxTasks -> Slot \cup {NULL}]
         /\ Walk(p)[0] = ready_queue.head[p]
         /\ \A n \in 1 .. MaxTasks :
              Walk(p)[n] = IF Walk(p)[n - 1] = NULL THEN NULL
                           ELSE ready_queue.next[Walk(p)[n - 1]]
<1> DEFINE X == Slot \cup {NULL}
           step == [x \in X |-> IF x = NULL THEN NULL ELSE ready_queue.next[x]]
           Body(at) == [n \in 0 .. MaxTasks |->
                          IF n = 0 THEN ready_queue.head[p]
                          ELSE IF at[n - 1] = NULL THEN NULL ELSE ready_queue.next[at[n - 1]]]
<1>1. MaxTasks \in Nat
  BY SchedulerAssumption
<1>2. ready_queue.head[p] \in X /\ step \in [X -> X]
  BY DEF ListType
<1>3. PICK f : Iterates(f, MaxTasks, X, ready_queue.head[p], step)
  <2> HIDE DEF step, X
  <2> QED  BY <1>1, <1>2, Iteration, Zenon
<1>4. f = Body(f)
  <2>1. \A n \in 1 .. MaxTasks : n - 1 \in 0 .. MaxTasks /\ f[n - 1] \in X
    BY <1>1, <1>3 DEF Iterates
  <2>2. \A n \in 1 .. MaxTasks : f[n] = IF f[n - 1] = NULL THEN NULL ELSE ready_queue.next[f[n - 1]]
    BY <1>3, <2>1 DEF Iterates
  <2>3. \A n \in 0 .. MaxTasks : n # 0 => n \in 1 .. MaxTasks
    BY <1>1
  <2> HIDE DEF step, X
  <2>4. \A n \in 0 .. MaxTasks : f[n] = Body(f)[n]
    BY <1>3, <2>2, <2>3 DEF Iterates
  <2> QED  BY <1>3, <2>4 DEF Iterates
<1>5. Walk(p) = CHOOSE at : at = Body(at)
  BY DEF Walk
<1>6. Walk(p) = Body(Walk(p))
  <2> HIDE DEF Body
  <2> QED  BY <1>4, <1>5
<1>7. Walk(p)[0] = ready_queue.head[p]
  BY <1>1, <1>6
<1>8. ASSUME NEW n \in 1 .. MaxTasks
      PROVE  Walk(p)[n] = IF Walk(p)[n - 1] = NULL THEN NULL
                          ELSE ready_queue.next[Walk(p)[n - 1]]
  BY <1>1, <1>6
<1>9. \A n \in 0 .. MaxTasks : Walk(p)[n] \in X
  <2> DEFINE K == {n \in 0 .. MaxTasks : Walk(p)[n] \in X}
  <2>1. 0 \in K
    BY <1>1, <1>2, <1>7
  <2>2. ASSUME NEW n \in 0 .. MaxTasks - 1, n \in K PROVE n + 1 \in K
    <3>1. n + 1 \in 1 .. MaxTasks /\ (n + 1) - 1 = n
      BY <1>1
    <3>2. Walk(p)[n + 1] = IF Walk(p)[n] = NULL THEN NULL ELSE ready_queue.next[Walk(p)[n]]
      BY <1>8, <3>1
    <3> QED  BY <2>2, <3>1, <3>2 DEF ListType
  <2> HIDE DEF K
  <2>3. \A n \in 0 .. MaxTasks : n \in K
    BY <1>1, <2>1, <2>2, UpTo
  <2> QED  BY <2>3 DEF K
<1>10. DOMAIN Walk(p) = 0 .. MaxTasks /\ Walk(p) = [n \in 0 .. MaxTasks |-> Walk(p)[n]]
  BY <1>6
<1> QED  BY <1>7, <1>8, <1>9, <1>10

(* Along a list the ranks grow, so that it ends before it has more tasks    *)
(* than there are slots, and it holds every task of its priority.           *)
Climbs(w, p, on, pri, rank) ==
  \A n \in 0 .. MaxTasks : w[n] # NULL =>
    /\ w[n] \in on /\ pri[w[n]] = p
    /\ \A m \in 0 .. n - 1 : w[m] # NULL /\ rank[w[m]] < rank[w[n]]

LEMMA WalkRanks ==
  ASSUME NEW on \in SUBSET Slot, NEW pri \in [Slot -> Priority],
         NEW rank \in [Slot -> Nat], Lists(ready_queue, on, pri, rank), NEW p \in Priority
  PROVE  Climbs(Walk(p), p, on, pri, rank)
<1> DEFINE w == Walk(p)
           Fine(n) == w[n] # NULL =>
             /\ w[n] \in on /\ pri[w[n]] = p
             /\ \A m \in 0 .. n - 1 : w[m] # NULL /\ rank[w[m]] < rank[w[n]]
           K == {n \in 0 .. MaxTasks : Fine(n)}
<1>1. MaxTasks \in Nat /\ ready_queue \in ListType
  BY SchedulerAssumption DEF Lists
<1>2. /\ w \in [0 .. MaxTasks -> Slot \cup {NULL}]
      /\ w[0] = ready_queue.head[p]
      /\ \A n \in 1 .. MaxTasks : w[n] = IF w[n - 1] = NULL THEN NULL
                                         ELSE ready_queue.next[w[n - 1]]
  BY <1>1, WalkSteps
<1> HIDE DEF w
<1>3. 0 \in K
  BY <1>1, <1>2 DEF Lists, FrontsListed
<1>4. ASSUME NEW n \in 0 .. MaxTasks - 1, n \in K PROVE n + 1 \in K
  <2>1. n + 1 \in 1 .. MaxTasks /\ (n + 1) - 1 = n /\ n + 1 \in 0 .. MaxTasks
    BY <1>1
  <2>2. w[n + 1] = IF w[n] = NULL THEN NULL ELSE ready_queue.next[w[n]]
    BY <1>2, <2>1
  <2> SUFFICES ASSUME w[n + 1] # NULL PROVE Fine(n + 1)
    BY <2>1
  <2>3. w[n] # NULL /\ w[n + 1] = ready_queue.next[w[n]] /\ w[n] \in Slot
    <3>1. n \in 0 .. MaxTasks
      BY <1>1
    <3>2. w[n] \in Slot \cup {NULL}
      BY <1>2, <3>1
    <3> QED  BY <2>2, <3>2
  <2>4. w[n + 1] \in on /\ pri[w[n + 1]] = pri[w[n]] /\ rank[w[n]] < rank[w[n + 1]]
    BY <2>3 DEF Lists, NextLinked
  <2>5. pri[w[n]] = p /\ \A m \in 0 .. n - 1 : w[m] # NULL /\ rank[w[m]] < rank[w[n]]
    BY <1>4, <2>3
  <2>6. ASSUME NEW m \in 0 .. n PROVE w[m] # NULL /\ rank[w[m]] < rank[w[n + 1]]
    <3>1. CASE m = n
      BY <2>3, <2>4, <3>1
    <3>2. CASE m # n
      <4>1. m \in 0 .. n - 1 /\ m \in 0 .. MaxTasks
        BY <1>1, <3>2
      <4>2. rank[w[m]] \in Nat /\ rank[w[n]] \in Nat /\ rank[w[n + 1]] \in Nat
        BY <1>2, <2>3, <2>4, <2>5, <4>1
      <4> QED  BY <2>4, <2>5, <4>1, <4>2
    <3> QED  BY <3>1, <3>2
  <2> QED  BY <2>1, <2>4, <2>5, <2>6
<1> HIDE DEF K
<1>5. \A n \in 0 .. MaxTasks : n \in K
  BY <1>1, <1>3, <1>4, UpTo
<1> QED  BY <1>5 DEF K, w, Climbs

LEMMA WalkEnds ==
  ASSUME NEW on \in SUBSET Slot, NEW pri \in [Slot -> Priority],
         NEW rank \in [Slot -> Nat], Lists(ready_queue, on, pri, rank), NEW p \in Priority
  PROVE  Walk(p)[MaxTasks] = NULL
<1> SUFFICES ASSUME Walk(p)[MaxTasks] # NULL PROVE FALSE
  OBVIOUS
<1> DEFINE w == Walk(p)
<1>1. MaxTasks \in Nat /\ ready_queue \in ListType
  BY SchedulerAssumption DEF Lists
<1>2. w \in [0 .. MaxTasks -> Slot \cup {NULL}]
  BY <1>1, WalkSteps
<1>3. \A n \in 0 .. MaxTasks : w[n] # NULL =>
        \A m \in 0 .. n - 1 : w[m] # NULL /\ rank[w[m]] < rank[w[n]]
  BY WalkRanks DEF Climbs
<1> HIDE DEF w
<1>4. \A n \in 0 .. MaxTasks : w[n] # NULL
  BY <1>1, <1>3 DEF w
<1>5. w \in [0 .. MaxTasks -> Slot]
  BY <1>2, <1>4
<1>6. /\ IsFiniteSet(0 .. MaxTasks) /\ Cardinality(0 .. MaxTasks) = MaxTasks + 1
      /\ IsFiniteSet(Slot) /\ Cardinality(Slot) = MaxTasks
  BY <1>1, FS_Interval DEF Slot
<1>7. PICK x, y \in 0 .. MaxTasks : x # y /\ w[x] = w[y]
  <2>1. Cardinality(Slot) < Cardinality(0 .. MaxTasks)
    BY <1>1, <1>6
  <2> QED  BY <1>5, <1>6, <2>1, FS_PigeonHole, ZenonT(30)
<1>8. rank[w[x]] \in Nat
  BY <1>5
<1>9. CASE x < y
  BY <1>3, <1>4, <1>7, <1>8, <1>9
<1>10. CASE y < x
  BY <1>3, <1>4, <1>7, <1>8, <1>10
<1> QED  BY <1>7, <1>9, <1>10

(* The slots found by walking the lists are those of "on", each on the list  *)
(* of its priority.                                                          *)
LEMMA OnListIsOn ==
  ASSUME NEW on \in SUBSET Slot, NEW pri \in [Slot -> Priority],
         NEW rank \in [Slot -> Nat], Lists(ready_queue, on, pri, rank), NEW p \in Priority
  PROVE  OnList(p) = {s \in on : pri[s] = p}
<1> DEFINE w == Walk(p)
           same == {s \in on : pri[s] = p}
           missed == same \ OnList(p)
<1>1. MaxTasks \in Nat /\ ready_queue \in ListType
  BY SchedulerAssumption DEF Lists
<1>2. /\ w[0] = ready_queue.head[p]
      /\ \A n \in 1 .. MaxTasks : w[n] = IF w[n - 1] = NULL THEN NULL
                                         ELSE ready_queue.next[w[n - 1]]
  BY <1>1, WalkSteps
<1>3. OnList(p) = {w[n] : n \in 0 .. MaxTasks} \ {NULL}
  BY DEF OnList
<1>4. \A n \in 0 .. MaxTasks : w[n] # NULL => w[n] \in same
  <2>1. Climbs(w, p, on, pri, rank)
    BY WalkRanks
  <2> HIDE DEF w
  <2> QED  BY <2>1 DEF Climbs
<1>5. w[MaxTasks] = NULL
  BY WalkEnds
<1> HIDE DEF w
<1>6. missed = {}
  <2> SUFFICES ASSUME missed # {} PROVE FALSE
    OBVIOUS
  <2>1. PICK t \in missed : \A u \in missed : rank[t] <= rank[u]
    <3>1. {rank[u] : u \in missed} \in SUBSET Nat /\ {rank[u] : u \in missed} # {}
      OBVIOUS
    <3>2. PICK k \in {rank[u] : u \in missed} : \A j \in {rank[u] : u \in missed} : k <= j
      <4> HIDE DEF missed
      <4> QED  BY <3>1, LeastNumber
    <3> QED  BY <3>2
  <2>2. t \in on /\ pri[t] = p /\ t \notin OnList(p) /\ t # NULL
    BY NullIsNoSlot
  <2>3. ready_queue.prev[t] # NULL
    <3> SUFFICES ASSUME ready_queue.prev[t] = NULL PROVE FALSE
      OBVIOUS
    <3>1. w[0] = t
      BY <1>2, <2>2 DEF Lists, FirstIsFront
    <3>2. t \in OnList(p)
      BY <1>1, <1>3, <2>2, <3>1
    <3> QED  BY <2>2, <3>2
  <2> DEFINE b == ready_queue.prev[t]
  <2>4. b \in on /\ ready_queue.next[b] = t /\ pri[b] = p /\ rank[b] < rank[t]
    BY <2>2, <2>3 DEF Lists, NextLinked, PrevLinked
  <2>5. b \notin missed
    BY <2>1, <2>4
  <2> HIDE DEF b
  <2>6. PICK n \in 0 .. MaxTasks : w[n] = b /\ b # NULL
    BY <1>3, <2>4, <2>5
  <2>7. n + 1 \in 1 .. MaxTasks /\ (n + 1) - 1 = n
    BY <1>1, <1>5, <2>6
  <2>8. w[n + 1] = t
    BY <1>2, <2>4, <2>6, <2>7
  <2>9. t \in OnList(p)
    BY <1>3, <2>2, <2>7, <2>8
  <2> QED  BY <2>2, <2>9
<1> QED  BY <1>3, <1>4, <1>6

-----------------------------------------------------------------------------
(* The inductive invariant *)

Tcb == [id : Nat, state : {"ready", "running", "blocked", "deleted"}, priority : Priority,
        timeout : Nat, has_stack : BOOLEAN, returns : BOOLEAN, ran : BOOLEAN]

Statistics == [total_tasks : Nat, ready_tasks : Nat, blocked_tasks : Nat]

PriorityOf == [s \in Slot |-> task_pool[s].priority]

Live == {s \in Slot : task_pool[s].id # 0}

(* Where run_once is between its first wake-up and the switch, and elsewhere. *)
AtWork == {"scan", "switch"}

Resting == {"loop", "entry", "slice", "hung", "crashed"}

SchedulerTyped ==
  /\ task_pool \in [Slot -> Tcb]
  /\ current_task \in Slot \cup {NULL}
  /\ next_task_id \in Nat \ {0} /\ (next_task_id = 2 \/ next_task_id <= MaxId + 1)
  /\ scheduler_time \in Nat
  /\ stats \in Statistics
  /\ pc \in AtWork \cup Resting
  /\ scanned \in 0 .. MaxTasks /\ (pc # "scan" => scanned = 0)
  /\ next_task \in Slot \cup {NULL} /\ (next_task # NULL <=> pc = "switch")
  /\ raced \in BOOLEAN

(* A task on a list is live and ready, the task last run is live, and on a   *)
(* list only while run_once, having woken it, has not switched yet; the task *)
(* chosen is on no list.  Only the task last run can be blocked:             *)
(* context_switch makes any other ready, though it puts it on no list.       *)
CurrentPlaced(on) ==
  current_task # NULL =>
    /\ task_pool[current_task].id # 0
    /\ current_task \in on => pc \in AtWork

ChosenPlaced(on) ==
  next_task # NULL =>
    /\ next_task \notin on
    /\ task_pool[next_task].id # 0 /\ task_pool[next_task].state = "ready"

ReadyPlaced(on) == \A s \in on : task_pool[s].id # 0 /\ task_pool[s].state = "ready"

BlockedPlaced ==
  \A s \in Slot : task_pool[s].id # 0 /\ task_pool[s].state = "blocked" => s = current_task

CreatedPlaced(on) ==
  \A s \in Slot : task_pool[s].id # 0 /\ task_pool[s].has_stack /\ ~task_pool[s].ran
                   => s \in on \/ s = next_task

(* No slot behind the scan of process_timeouts holds an expired task.        *)
ScannedPlaced == pc = "scan" => \A s \in 1 .. scanned : ~Expired(s)

TasksPlaced(on) ==
  /\ ReadyPlaced(on) /\ CurrentPlaced(on) /\ ChosenPlaced(on)
  /\ BlockedPlaced /\ CreatedPlaced(on) /\ ScannedPlaced

(* Every id that was handed out is behind a live task or counts for at most  *)
(* one deletion that ready_tasks has missed.                                 *)
ReadyCounted(on) ==
  CounterMod > MaxId =>
    /\ Cardinality(on) <= stats.ready_tasks
    /\ stats.ready_tasks + Cardinality(Live) <= next_task_id - 1 + Cardinality(on)

SchedulerInv(on, rank) ==
  /\ on \in SUBSET Slot /\ rank \in [Slot -> Nat]
  /\ SchedulerTyped
  /\ Lists(ready_queue, on, PriorityOf, rank)
  /\ TasksPlaced(on)
  /\ ReadyCounted(on)

LEMMA PriorityOfType == SchedulerTyped => PriorityOf \in [Slot -> Priority]
BY DEF SchedulerTyped, PriorityOf, Tcb

LEMMA SlotIsFinite == \A S \in SUBSET Slot : IsFiniteSet(S) /\ Cardinality(S) \in Nat
<1>1. IsFiniteSet(Slot)
  BY SchedulerAssumption, FS_Interval DEF Slot
<1> QED  BY <1>1, FS_Subset, FS_CardinalityType

LEMMA CountOne ==
  ASSUME NEW S \in SUBSET Slot, NEW s \in Slot
  PROVE  /\ s \notin S => Cardinality(S \cup {s}) = Cardinality(S) + 1
         /\ s \in S => Cardinality(S \ {s}) = Cardinality(S) - 1
BY SlotIsFinite, FS_AddElement, FS_RemoveElement

LEMMA CountWithin ==
  ASSUME NEW S \in SUBSET Slot, NEW T \in SUBSET S
  PROVE  Cardinality(T) <= Cardinality(S)
BY SlotIsFinite, FS_Subset

(* The lists depend on the priorities of the tasks on them only.             *)
LEMMA SamePriorities ==
  ASSUME NEW q, NEW on \in SUBSET Slot, NEW pri, NEW pri2, NEW rank,
         Lists(q, on, pri, rank), \A s \in on : pri2[s] = pri[s]
  PROVE  Lists(q, on, pri2, rank)
<1>1. FrontsListed(q, on, pri2)
  BY DEF Lists, FrontsListed
<1>2. FirstIsFront(q, on, pri2)
  BY DEF Lists, FirstIsFront
<1>3. NextLinked(q, on, pri2, rank)
  BY DEF Lists, NextLinked
<1> QED  BY <1>1, <1>2, <1>3 DEF Lists

LEMMA InitHolds ==
  ASSUME Init
  PROVE  SchedulerInv({1}, [s \in Slot |-> 0])
<1> DEFINE rank == [s \in Slot |-> 0]
           on == {1}
           pri == [s \in Slot |-> 0]
<1>1. MaxTasks \in Nat \ {0} /\ 1 \in Slot /\ 0 \in Priority /\ NULL = 0
      /\ CounterMod \in Nat /\ CounterMod > MaxTasks
  BY SchedulerAssumption DEF Slot, Priority, NULL
<1>2. Free \in Tcb /\ Free.id = 0 /\ Free.priority = 0 /\ Free.state = "ready"
  BY <1>1 DEF Free, Tcb
<1>3. PICK r \in Tcb : /\ r.id = 1 /\ r.state = "ready" /\ r.priority = 0
                     /\ task_pool = [s \in Slot |-> IF s = 1 THEN r ELSE Free]
  <2>1. ASSUME NEW i \in Nat, NEW b \in BOOLEAN, NEW c \in BOOLEAN
        PROVE  LET r == [Free EXCEPT !.id = i, !.has_stack = b, !.returns = c]
               IN r \in Tcb /\ r.id = i /\ r.state = "ready" /\ r.priority = 0
    BY <1>2 DEF Tcb
  <2> DEFINE idle == [Free EXCEPT !.id = 1, !.has_stack = TRUE, !.returns = FALSE]
  <2>2. idle \in Tcb /\ idle.id = 1 /\ idle.state = "ready" /\ idle.priority = 0
    BY <2>1
  <2>3. task_pool = [s \in Slot |-> IF s = 1 THEN idle ELSE Free]
    BY DEF Init
  <2> HIDE DEF idle
  <2> QED  BY <2>2, <2>3
<1>4. SchedulerTyped
  <2>1. task_pool \in [Slot -> Tcb]
    BY <1>2, <1>3
  <2>2. raced \in BOOLEAN /\ next_task = NULL /\ current_task = NULL
    BY DEF Init
  <2>3. pc = "loop" /\ scanned = 0 /\ next_task_id = 2 /\ scheduler_time = 0
    BY DEF Init
  <2>4. stats \in Statistics
    BY DEF Init, Statistics
  <2> QED  BY <1>1, <2>1, <2>2, <2>3, <2>4 DEF SchedulerTyped, AtWork, Resting
<1>5. PriorityOf = pri
  BY <1>2, <1>3 DEF PriorityOf
<1>6. Lists(ready_queue, on, pri, rank)
  <2>1. ready_queue = [head |-> [p \in Priority |-> IF p = 0 THEN 1 ELSE NULL],
                       next |-> [s \in Slot |-> NULL], prev |-> [s \in Slot |-> NULL]]
    BY <1>1 DEF Init, AddToReadyQueue, EmptyQueues
  <2> QED  BY <1>1, <2>1
           DEF Lists, ListType, FrontsListed, FirstIsFront, NextLinked, PrevLinked
<1>7. TasksPlaced(on)
  BY <1>1, <1>2, <1>3
  DEF TasksPlaced, ReadyPlaced, CurrentPlaced, ChosenPlaced, BlockedPlaced, CreatedPlaced,
      ScannedPlaced, Init
<1>8. ReadyCounted(on)
  <2>1. Live = {1}
    BY <1>1, <1>2, <1>3 DEF Live
  <2>2. Cardinality({1}) = 1
    BY FS_Singleton
  <2> QED  BY <2>1, <2>2 DEF ReadyCounted, Init
<1> QED  BY <1>1, <1>4, <1>5, <1>6, <1>7, <1>8 DEF SchedulerInv

(* What changing one field of a task control block leaves alone.             *)
LEMMA IdChange ==
  ASSUME NEW r \in Tcb, NEW i \in Nat
  PROVE  LET n == [r EXCEPT !.id = i]
         IN n \in Tcb /\ n.state = r.state /\ n.priority = r.priority
            /\ n.has_stack = r.has_stack /\ n.ran = r.ran /\ n.id = i
BY DEF Tcb

LEMMA StateChange ==
  ASSUME NEW r \in Tcb, NEW st \in {"ready", "running", "blocked", "deleted"}
  PROVE  LET n == [r EXCEPT !.state = st]
         IN n \in Tcb /\ n.id = r.id /\ n.priority = r.priority
            /\ n.has_stack = r.has_stack /\ n.ran = r.ran /\ n.state = st
BY DEF Tcb

LEMMA TimeoutChange ==
  ASSUME NEW r \in Tcb, NEW i \in Nat
  PROVE  LET n == [r EXCEPT !.timeout = i]
         IN n \in Tcb /\ n.id = r.id /\ n.state = r.state
            /\ n.priority = r.priority /\ n.has_stack = r.has_stack /\ n.ran = r.ran /\ n.timeout = i
BY DEF Tcb

LEMMA StackChange ==
  ASSUME NEW r \in Tcb, NEW b \in BOOLEAN
  PROVE  LET n == [r EXCEPT !.has_stack = b]
         IN n \in Tcb /\ n.id = r.id /\ n.state = r.state
            /\ n.priority = r.priority /\ n.ran = r.ran /\ n.has_stack = b
BY DEF Tcb

LEMMA RanChange ==
  ASSUME NEW r \in Tcb, NEW b \in BOOLEAN
  PROVE  LET n == [r EXCEPT !.ran = b]
         IN n \in Tcb /\ n.id = r.id /\ n.state = r.state
            /\ n.priority = r.priority /\ n.has_stack = r.has_stack /\ n.ran = b
BY DEF Tcb

-----------------------------------------------------------------------------
(* The steps *)

LEMMA UpCounts ==
  ASSUME NEW n \in Nat, n + 1 < CounterMod
  PROVE  Up(n) = n + 1
BY SchedulerAssumption DEF Up

LEMMA DownCounts ==
  ASSUME NEW n \in Nat \ {0}, n < CounterMod
  PROVE  Down(n) = n - 1
<1>1. CounterMod \in Nat \ {0}
  BY SchedulerAssumption
<1>2. n + CounterMod - 1 = (n - 1) + CounterMod /\ n - 1 \in 0 .. CounterMod - 1
  BY <1>1
<1>3. (n + CounterMod - 1) % CounterMod = n - 1
  BY <1>1, <1>2
<1> QED  BY <1>3 DEF Down

LEMMA OnIsLive ==
  ASSUME NEW on, NEW rank, SchedulerInv(on, rank)
  PROVE  /\ on \in SUBSET Live /\ Live \in SUBSET Slot
         /\ Cardinality(on) \in Nat /\ Cardinality(Live) \in Nat
         /\ Cardinality(on) <= Cardinality(Live)
         /\ \A c \in Live \ on : Cardinality(on) < Cardinality(Live)
<1>1. on \in SUBSET Live /\ Live \in SUBSET Slot
  BY DEF SchedulerInv, TasksPlaced, ReadyPlaced, Live
<1>2. Cardinality(on) \in Nat /\ Cardinality(Live) \in Nat
  BY <1>1, SlotIsFinite
<1>3. Cardinality(on) <= Cardinality(Live)
  BY <1>1, CountWithin
<1>4. ASSUME NEW c \in Live \ on
      PROVE  Cardinality(on) < Cardinality(Live)
  <2>1. on \in SUBSET Slot /\ c \in Slot /\ on \cup {c} \in SUBSET Live
    BY <1>1
  <2>2. Cardinality(on \cup {c}) = Cardinality(on) + 1
    BY <2>1, CountOne
  <2>3. Cardinality(on \cup {c}) <= Cardinality(Live)
    BY <1>1, <2>1, CountWithin
  <2> QED  BY <1>2, <2>2, <2>3
<1> QED  BY <1>1, <1>2, <1>3, <1>4

(* Room to count one more task on the lists.                                 *)
LEMMA CountsOneMore ==
  ASSUME NEW on, NEW rank, SchedulerInv(on, rank), NEW c \in Live \ on, CounterMod > MaxId
  PROVE  /\ Cardinality(on) \in Nat /\ Cardinality(Live) \in Nat
         /\ stats.ready_tasks \in Nat /\ next_task_id \in Nat
         /\ Up(stats.ready_tasks) = stats.ready_tasks + 1
         /\ Cardinality(on) <= stats.ready_tasks
         /\ stats.ready_tasks + Cardinality(Live) <= next_task_id - 1 + Cardinality(on)
<1>1. /\ Cardinality(on) \in Nat /\ Cardinality(Live) \in Nat
      /\ Cardinality(on) < Cardinality(Live)
  BY OnIsLive
<1>2. /\ stats.ready_tasks \in Nat /\ next_task_id \in Nat \ {0}
      /\ (next_task_id = 2 \/ next_task_id <= MaxId + 1)
      /\ Cardinality(on) <= stats.ready_tasks
      /\ stats.ready_tasks + Cardinality(Live) <= next_task_id - 1 + Cardinality(on)
  BY DEF SchedulerInv, SchedulerTyped, ReadyCounted, Statistics
<1>3. stats.ready_tasks + 1 < CounterMod
  BY <1>1, <1>2, SchedulerAssumption
<1>4. Up(stats.ready_tasks) = stats.ready_tasks + 1
  BY <1>2, <1>3, UpCounts
<1> QED  BY <1>1, <1>2, <1>4

(* What a call that meets no list work of run_once leaves alone of it.       *)
RunKept ==
  /\ pc \in Resting /\ pc' \in Resting
  /\ UNCHANGED <<next_task_id, scheduler_time, scanned, next_task>>
  /\ raced' \in BOOLEAN

(* scheduler_yield puts the task last run back on its list, whatever its     *)
(* state was.                                                                *)
LEMMA RequeueStep ==
  ASSUME NEW on, NEW rank, SchedulerInv(on, rank), NEW c, c = current_task, c # NULL,
         NEW pool \in [Slot -> Tcb],
         \A s \in Slot \ {c} : pool[s] = task_pool[s],
         pool[c].id = task_pool[c].id, pool[c].priority = task_pool[c].priority,
         NEW st \in Statistics, st.ready_tasks = stats.ready_tasks,
         Requeue(pool, st), RunKept
  PROVE  SchedulerInv(on \cup {c}, RankedFirst(rank, c))'
<1> DEFINE on2 == on \cup {c}
           rank2 == RankedFirst(rank, c)
<1>1. /\ c \in Slot /\ c \notin on /\ task_pool[c].id # 0 /\ on2 \in SUBSET Slot
      /\ rank \in [Slot -> Nat] /\ rank2 \in [Slot -> Nat] /\ on \in SUBSET Slot
  BY DEF SchedulerInv, SchedulerTyped, TasksPlaced, CurrentPlaced, RankedFirst, RunKept,
         Resting, AtWork
<1>2. /\ task_pool' \in [Slot -> Tcb]
      /\ \A s \in Slot \ {c} : task_pool'[s] = task_pool[s]
      /\ task_pool'[c].id = task_pool[c].id /\ task_pool'[c].state = "ready"
      /\ task_pool'[c].priority = task_pool[c].priority
  <2> DEFINE n == [pool[c] EXCEPT !.state = "ready"]
  <2>1. task_pool' = [pool EXCEPT ![c] = n]
    BY DEF Requeue
  <2>2. n \in Tcb /\ n.id = pool[c].id /\ n.state = "ready" /\ n.priority = pool[c].priority
    BY <1>1, StateChange
  <2> HIDE DEF n
  <2> QED  BY <1>1, <2>1, <2>2
<1>3. current_task' = NULL /\ ready_queue' = AddToReadyQueue(ready_queue, c, pool[c].priority)
      /\ stats' = [st EXCEPT !.ready_tasks = Up(st.ready_tasks)]
  BY DEF Requeue
<1>4. PriorityOf' = PriorityOf
  BY <1>1, <1>2 DEF PriorityOf
<1>5. Lists(ready_queue', on2, PriorityOf', rank2)
  <2>1. PriorityOf \in [Slot -> Priority] /\ PriorityOf[c] = pool[c].priority
    BY <1>1, PriorityOfType DEF PriorityOf, SchedulerInv
  <2>2. Lists(ready_queue, on, PriorityOf, rank)
    BY DEF SchedulerInv
  <2> QED  BY <1>1, <1>3, <1>4, <2>1, <2>2, AddKeepsLists
<1>6. SchedulerTyped'
  <2>1. Up(st.ready_tasks) \in Nat
    BY SchedulerAssumption DEF Up, Statistics
  <2>2. stats' \in Statistics
    BY <1>3, <2>1 DEF Statistics
  <2> QED  BY <1>2, <1>3, <2>2 DEF SchedulerTyped, SchedulerInv, RunKept, Resting
<1>7. TasksPlaced(on2)'
  <2>1. /\ TasksPlaced(on) /\ next_task = NULL /\ next_task' = NULL /\ pc' # "scan"
    BY DEF SchedulerInv, SchedulerTyped, RunKept, Resting
  <2>2. ReadyPlaced(on2)'
    BY <1>1, <1>2, <2>1 DEF TasksPlaced, ReadyPlaced
  <2>3. CurrentPlaced(on2)' /\ ChosenPlaced(on2)' /\ ScannedPlaced'
    BY <1>3, <2>1 DEF CurrentPlaced, ChosenPlaced, ScannedPlaced
  <2>4. BlockedPlaced'
    BY <1>1, <1>2, <1>3, <2>1 DEF TasksPlaced, BlockedPlaced
  <2>5. CreatedPlaced(on2)'
    BY <1>1, <1>2, <2>1 DEF TasksPlaced, CreatedPlaced
  <2> QED  BY <2>2, <2>3, <2>4, <2>5 DEF TasksPlaced
<1>8. ReadyCounted(on2)'
  <2> SUFFICES ASSUME CounterMod > MaxId
               PROVE  /\ Cardinality(on2) <= stats.ready_tasks'
                      /\ stats.ready_tasks' + Cardinality(Live') <= next_task_id' - 1 + Cardinality(on2)
    BY DEF ReadyCounted
  <2>1. Live' = Live
    BY <1>1, <1>2 DEF Live
  <2>2. Cardinality(on2) = Cardinality(on) + 1
    BY <1>1, CountOne
  <2>3. c \in Live \ on
    BY <1>1 DEF Live
  <2>4. /\ Cardinality(on) \in Nat /\ Cardinality(Live) \in Nat
        /\ stats.ready_tasks \in Nat /\ next_task_id \in Nat
        /\ Up(stats.ready_tasks) = stats.ready_tasks + 1
        /\ Cardinality(on) <= stats.ready_tasks
        /\ stats.ready_tasks + Cardinality(Live) <= next_task_id - 1 + Cardinality(on)
    BY <2>3, CountsOneMore
  <2>5. stats.ready_tasks' = stats.ready_tasks + 1 /\ next_task_id' = next_task_id
    BY <1>3, <2>4 DEF Statistics, RunKept
  <2> QED  BY <2>1, <2>2, <2>4, <2>5
<1> QED  BY <1>1, <1>5, <1>6, <1>7, <1>8 DEF SchedulerInv

(* A call that leaves no race behind met run_once off its list work.         *)
LEMMA CallsRest ==
  ASSUME SchedulerTyped, Overlaps, ~raced', UNCHANGED <<next_task_id, run>>
  PROVE  RunKept
<1>1. pc \notin {"scan", "switch", "slice"}
  BY Zenon DEF Overlaps
<1>2. raced' \in BOOLEAN
  BY DEF Overlaps
<1> QED  BY <1>1, <1>2 DEF SchedulerTyped, RunKept, Resting, AtWork, run

LEMMA YieldStep ==
  ASSUME NEW on, NEW rank, SchedulerInv(on, rank), Yield, ~raced'
  PROVE  \E on2, rank2 : SchedulerInv(on2, rank2)'
<1> PICK c : c = current_task
  OBVIOUS
<1>1. /\ c # NULL /\ Requeue(task_pool, stats) /\ RunKept
      /\ task_pool \in [Slot -> Tcb] /\ stats \in Statistics
  BY CallsRest DEF Yield, SchedulerInv, SchedulerTyped
<1>2. SchedulerInv(on \cup {c}, RankedFirst(rank, c))'
  BY <1>1, RequeueStep
<1> QED  BY <1>2

LEMMA DelayStep ==
  ASSUME NEW on, NEW rank, SchedulerInv(on, rank), NEW ms \in Nat, Delay(ms),
         ~raced'
  PROVE  \E on2, rank2 : SchedulerInv(on2, rank2)'
<1> PICK c : c = current_task
  OBVIOUS
<1> DEFINE pool == [task_pool EXCEPT ![c].state = "blocked", ![c].timeout = scheduler_time + ms]
           st == [stats EXCEPT !.blocked_tasks = Up(@)]
<1>1. /\ c \in Slot /\ task_pool \in [Slot -> Tcb] /\ scheduler_time + ms \in Nat
      /\ stats \in Statistics /\ c # NULL
  BY DEF Delay, SchedulerInv, SchedulerTyped
<1>2. /\ pool \in [Slot -> Tcb]
      /\ \A s \in Slot \ {c} : pool[s] = task_pool[s]
      /\ pool[c].id = task_pool[c].id /\ pool[c].priority = task_pool[c].priority
      /\ pool[c].has_stack = task_pool[c].has_stack /\ pool[c].ran = task_pool[c].ran
  <2> DEFINE n1 == [task_pool[c] EXCEPT !.state = "blocked"]
             n2 == [n1 EXCEPT !.timeout = scheduler_time + ms]
  <2>1. /\ n1 \in Tcb /\ n1.id = task_pool[c].id /\ n1.priority = task_pool[c].priority
        /\ n1.has_stack = task_pool[c].has_stack /\ n1.ran = task_pool[c].ran
    BY <1>1, StateChange
  <2>2. pool = [task_pool EXCEPT ![c] = n2]
    BY <1>1
  <2> HIDE DEF n1
  <2>3. /\ n2 \in Tcb /\ n2.id = n1.id /\ n2.priority = n1.priority
        /\ n2.has_stack = n1.has_stack /\ n2.ran = n1.ran
    BY <1>1, <2>1, TimeoutChange
  <2> HIDE DEF n2, pool
  <2> QED  BY <1>1, <2>1, <2>2, <2>3
<1>3. st \in Statistics /\ st.ready_tasks = stats.ready_tasks
  <2>1. Up(stats.blocked_tasks) \in Nat
    BY <1>1, SchedulerAssumption DEF Up, Statistics
  <2> QED  BY <1>1, <2>1 DEF Statistics
<1>4. /\ RunKept
      /\ \/ Requeue(pool, st)
         \/ task_pool' = pool /\ stats' = st /\ UNCHANGED <<ready_queue, current_task>>
  BY CallsRest DEF Delay, SchedulerInv
<1> HIDE DEF pool, st
<1>5. CASE Requeue(pool, st)
  <2>1. SchedulerInv(on \cup {c}, RankedFirst(rank, c))'
    BY <1>1, <1>2, <1>3, <1>4, <1>5, RequeueStep
  <2> QED  BY <2>1
<1>6. CASE task_pool' = pool /\ stats' = st /\ UNCHANGED <<ready_queue, current_task>>
  <2>1. PriorityOf' = PriorityOf /\ Live' = Live
    BY <1>1, <1>2, <1>6 DEF PriorityOf, Live
  <2>2. SchedulerTyped'
    BY <1>2, <1>3, <1>4, <1>6 DEF SchedulerInv, SchedulerTyped, RunKept, Resting
  <2>3. TasksPlaced(on)'
    <3>1. /\ TasksPlaced(on) /\ next_task = NULL /\ next_task' = NULL /\ pc' # "scan"
          /\ c \notin on /\ on \in SUBSET Slot /\ current_task' = c /\ task_pool' = pool
      BY <1>1, <1>4, <1>6
      DEF SchedulerInv, SchedulerTyped, TasksPlaced, CurrentPlaced, RunKept, Resting, AtWork
    <3>2. ReadyPlaced(on)'
      BY <1>2, <3>1 DEF TasksPlaced, ReadyPlaced
    <3>3. CurrentPlaced(on)' /\ ChosenPlaced(on)' /\ ScannedPlaced'
      BY <1>1, <1>2, <3>1 DEF TasksPlaced, CurrentPlaced, ChosenPlaced, ScannedPlaced
    <3>4. BlockedPlaced'
      BY <1>2, <3>1 DEF TasksPlaced, BlockedPlaced
    <3>5. CreatedPlaced(on)'
      BY <1>1, <1>2, <3>1 DEF TasksPlaced, CreatedPlaced
    <3> QED  BY <3>2, <3>3, <3>4, <3>5 DEF TasksPlaced
  <2>4. ReadyCounted(on)'
    BY <1>3, <1>4, <1>6, <2>1 DEF SchedulerInv, ReadyCounted, RunKept
  <2>5. SchedulerInv(on, rank)'
    BY <1>6, <2>1, <2>2, <2>3, <2>4 DEF SchedulerInv
  <2> QED  BY <2>5
<1> QED  BY <1>4, <1>5, <1>6

LEMMA LowestSlot ==
  ASSUME NEW S \in SUBSET Slot, S # {}
  PROVE  Lowest(S) \in S
<1>1. S \in SUBSET Nat
  BY DEF Slot
<1>2. PICK s \in S : \A t \in S : s <= t
  BY <1>1, LeastNumber
<1> QED  BY <1>2 DEF Lowest

(* A new task takes a free slot, which is on no list, and goes in front of   *)
(* its list unless there was no memory for its stack.                        *)
LEMMA CreateStep ==
  ASSUME NEW on, NEW rank, SchedulerInv(on, rank),
         NEW p \in Priority, NEW returns \in BOOLEAN, CreateTask(p, returns), ~raced'
  PROVE  \E on2, rank2 : SchedulerInv(on2, rank2)'
<1> PICK s : s = Lowest(FreeSlots)
  OBVIOUS
<1> PICK id : id = next_task_id
  OBVIOUS
<1>1. s \in Slot /\ task_pool[s].id = 0 /\ s \notin on /\ s \notin Live
      /\ s # current_task /\ s # next_task
  <2>1. s \in FreeSlots
    BY LowestSlot DEF CreateTask, FreeSlots
  <2> QED  BY <2>1 DEF FreeSlots, SchedulerInv, TasksPlaced, ReadyPlaced, CurrentPlaced,
                       ChosenPlaced, Live, SchedulerTyped, NULL, Slot
<1>2. /\ on \in SUBSET Slot /\ rank \in [Slot -> Nat] /\ SchedulerTyped
      /\ task_pool \in [Slot -> Tcb] /\ id \in Nat \ {0}
      /\ Lists(ready_queue, on, PriorityOf, rank)
      /\ PriorityOf \in [Slot -> Priority]
  BY PriorityOfType DEF SchedulerInv, SchedulerTyped
<1>3. [ready_queue EXCEPT !.next[s] = NULL, !.prev[s] = NULL] = ready_queue
  <2>1. ready_queue \in ListType /\ ready_queue.next[s] = NULL /\ ready_queue.prev[s] = NULL
    BY <1>1, <1>2, OnIsLinked DEF Lists
  <2>2. [ready_queue.next EXCEPT ![s] = NULL] = ready_queue.next
        /\ [ready_queue.prev EXCEPT ![s] = NULL] = ready_queue.prev
    BY <1>1, <2>1 DEF ListType
  <2>3. ready_queue = [head |-> ready_queue.head, next |-> ready_queue.next, prev |-> ready_queue.prev]
    BY <2>1 DEF ListType
  <2>4. [ready_queue EXCEPT !.next[s] = NULL, !.prev[s] = NULL]
        = [head |-> ready_queue.head, next |-> [ready_queue.next EXCEPT ![s] = NULL],
           prev |-> [ready_queue.prev EXCEPT ![s] = NULL]]
    BY <2>1, ZenonT(30) DEF ListType
  <2> QED  BY <2>2, <2>3, <2>4
<1>4. /\ NewTask(p, returns) \in Tcb /\ NewTask(p, returns).id = id
      /\ NewTask(p, returns).state = "ready" /\ NewTask(p, returns).priority = p
  <2>1. ASSUME NEW r \in Tcb, NEW i \in Nat
        PROVE  LET n == [r EXCEPT !.id = i, !.priority = p, !.returns = returns]
               IN n \in Tcb /\ n.id = i /\ n.state = r.state /\ n.priority = p
    BY DEF Tcb
  <2>2. Free \in Tcb /\ Free.state = "ready"
    BY SchedulerAssumption DEF Free, Tcb, Priority
  <2> DEFINE n == [Free EXCEPT !.id = id, !.priority = p, !.returns = returns]
  <2>3. n \in Tcb /\ n.id = id /\ n.state = "ready" /\ n.priority = p
    BY <1>2, <2>1, <2>2, ZenonT(30)
  <2>4. NewTask(p, returns) = n
    BY DEF NewTask
  <2> HIDE DEF n
  <2> QED  BY <2>3, <2>4
<1> DEFINE task(b) == [NewTask(p, returns) EXCEPT !.has_stack = b]
<1>5. ASSUME NEW b \in BOOLEAN
      PROVE  /\ task(b) \in Tcb /\ task(b).id = id /\ task(b).state = "ready"
             /\ task(b).priority = p /\ task(b).has_stack = b
  BY <1>4, StackChange
<1>6. NewTask(p, returns) = task(Free.has_stack) /\ Free.has_stack \in BOOLEAN /\ ~Free.has_stack
  <2>1. \A r \in Tcb : [r EXCEPT !.has_stack = r.has_stack] = r
    BY DEF Tcb
  <2>2. NewTask(p, returns).has_stack = Free.has_stack
    BY DEF NewTask, Free
  <2>3. Free.has_stack \in BOOLEAN /\ ~Free.has_stack
    BY DEF Free
  <2> QED  BY <1>4, <2>1, <2>2, <2>3
<1> PICK off \in BOOLEAN : off = Free.has_stack /\ ~off
  BY <1>6
<1>0. /\ UNCHANGED <<scheduler_time, pc, scanned, next_task>>
      /\ pc # "scan" /\ raced' \in BOOLEAN
  <2>1. pc \notin {"scan", "slice"}
    BY Zenon DEF CreateTask, OverlapsLists
  <2>2. raced' \in BOOLEAN
    BY DEF CreateTask, OverlapsLists
  <2> QED  BY <2>1, <2>2 DEF CreateTask, run
<1>7. /\ UNCHANGED current_task /\ next_task_id' = id + 1 /\ id <= MaxId
      /\ \/ /\ task_pool' = [task_pool EXCEPT ![s] = task(TRUE)]
            /\ ready_queue' = AddToReadyQueue(ready_queue, s, p)
            /\ stats' = [stats EXCEPT !.total_tasks = Up(@), !.ready_tasks = Up(@)]
         \/ /\ task_pool' = [task_pool EXCEPT ![s] = task(off)]
            /\ ready_queue' = ready_queue
            /\ UNCHANGED stats
  BY <1>3, <1>6 DEF CreateTask
<1> HIDE DEF task
<1>8. /\ task_pool' \in [Slot -> Tcb] /\ PriorityOf'[s] = p
      /\ \A t \in Slot \ {s} : task_pool'[t] = task_pool[t] /\ PriorityOf'[t] = PriorityOf[t]
      /\ PriorityOf' \in [Slot -> Priority]
      /\ task_pool'[s].id = id /\ task_pool'[s].state = "ready"
  <2>1. PICK b \in BOOLEAN : task_pool' = [task_pool EXCEPT ![s] = task(b)]
    BY <1>7
  <2>2. task(b) \in Tcb /\ task(b).id = id /\ task(b).state = "ready" /\ task(b).priority = p
    BY <1>5
  <2> QED  BY <1>1, <1>2, <2>1, <2>2 DEF PriorityOf
<1>9. Lists(ready_queue, on, PriorityOf', rank)
  <2>1. \A t \in on : PriorityOf'[t] = PriorityOf[t]
    BY <1>1, <1>2, <1>8
  <2> QED  BY <1>2, <2>1, SamePriorities
<1>10. Live' = Live \cup {s}
  BY <1>1, <1>2, <1>8 DEF Live
<1>11. /\ Cardinality(Live') = Cardinality(Live) + 1
       /\ Cardinality(on \cup {s}) = Cardinality(on) + 1
       /\ Cardinality(on) \in Nat /\ Cardinality(Live) \in Nat
       /\ Cardinality(on) <= Cardinality(Live)
  BY <1>1, <1>2, <1>10, CountOne, OnIsLive
<1>12. ASSUME CounterMod > MaxId
       PROVE  /\ stats.ready_tasks \in Nat /\ stats.ready_tasks + 1 < CounterMod
              /\ Cardinality(on) <= stats.ready_tasks
              /\ stats.ready_tasks + Cardinality(Live) <= id - 1 + Cardinality(on)
  <2>1. /\ stats.ready_tasks \in Nat /\ Cardinality(on) <= stats.ready_tasks
        /\ stats.ready_tasks + Cardinality(Live) <= id - 1 + Cardinality(on)
    BY <1>2, <1>12 DEF SchedulerInv, SchedulerTyped, ReadyCounted, Statistics
  <2> QED  BY <1>2, <1>7, <1>11, <1>12, <2>1, SchedulerAssumption
<1>13. next_task_id' \in Nat \ {0} /\ next_task_id' <= MaxId + 1
  BY <1>2, <1>7, SchedulerAssumption
<1>14. ASSUME /\ task_pool' = [task_pool EXCEPT ![s] = task(TRUE)]
              /\ ready_queue' = AddToReadyQueue(ready_queue, s, p)
              /\ stats' = [stats EXCEPT !.total_tasks = Up(@), !.ready_tasks = Up(@)]
       PROVE  SchedulerInv(on \cup {s}, RankedFirst(rank, s))'
  <2> DEFINE on2 == on \cup {s}
             rank2 == RankedFirst(rank, s)
  <2>1. on2 \in SUBSET Slot /\ rank2 \in [Slot -> Nat]
    BY <1>1, <1>2 DEF RankedFirst
  <2>2. Lists(ready_queue', on2, PriorityOf', rank2)
    BY <1>1, <1>2, <1>8, <1>9, <1>14, AddKeepsLists
  <2>3. SchedulerTyped'
    <3>1. Up(stats.total_tasks) \in Nat /\ Up(stats.ready_tasks) \in Nat /\ stats \in Statistics
      BY <1>2, SchedulerAssumption DEF Up, Statistics, SchedulerTyped
    <3>2. stats' \in Statistics
      BY <1>14, <3>1 DEF Statistics
    <3> QED  BY <1>0, <1>2, <1>7, <1>8, <1>13, <3>2 DEF SchedulerTyped
  <2>4. TasksPlaced(on2)'
    <3>1. TasksPlaced(on) /\ current_task' = current_task
      BY <1>7 DEF SchedulerInv
    <3>2. ReadyPlaced(on2)'
      BY <1>2, <1>8, <3>1 DEF TasksPlaced, ReadyPlaced
    <3>3. CurrentPlaced(on2)' /\ ChosenPlaced(on2)' /\ ScannedPlaced'
      BY <1>0, <1>1, <1>2, <1>8, <3>1
      DEF TasksPlaced, CurrentPlaced, ChosenPlaced, ScannedPlaced, SchedulerTyped
    <3>4. BlockedPlaced'
      BY <1>8, <3>1 DEF TasksPlaced, BlockedPlaced
    <3>5. CreatedPlaced(on2)'
      BY <1>0, <1>8, <3>1 DEF TasksPlaced, CreatedPlaced
    <3> QED  BY <3>2, <3>3, <3>4, <3>5 DEF TasksPlaced
  <2>5. ReadyCounted(on2)'
    <3> SUFFICES ASSUME CounterMod > MaxId
                 PROVE  /\ Cardinality(on2) <= stats.ready_tasks'
                        /\ stats.ready_tasks' + Cardinality(Live') <= next_task_id' - 1 + Cardinality(on2)
      BY DEF ReadyCounted
    <3>1. stats.ready_tasks' = Up(stats.ready_tasks)
      BY <1>2, <1>14 DEF SchedulerTyped, Statistics
    <3>2. stats.ready_tasks' = stats.ready_tasks + 1
      BY <1>12, <3>1, UpCounts
    <3> QED  BY <1>2, <1>7, <1>11, <1>12, <3>2
  <2> QED  BY <2>1, <2>2, <2>3, <2>4, <2>5 DEF SchedulerInv
<1>15. ASSUME /\ task_pool' = [task_pool EXCEPT ![s] = task(off)]
              /\ ready_queue' = ready_queue /\ UNCHANGED stats
       PROVE  SchedulerInv(on, rank)'
  <2>1. SchedulerTyped'
    BY <1>0, <1>2, <1>7, <1>8, <1>13, <1>15 DEF SchedulerTyped
  <2>2. ~task_pool'[s].has_stack
    BY <1>1, <1>2, <1>5, <1>15
  <2>3. TasksPlaced(on)'
    <3>1. TasksPlaced(on) /\ current_task' = current_task
      BY <1>7 DEF SchedulerInv
    <3>2. ReadyPlaced(on)'
      BY <1>2, <1>8, <3>1 DEF TasksPlaced, ReadyPlaced
    <3>3. CurrentPlaced(on)' /\ ChosenPlaced(on)' /\ ScannedPlaced'
      BY <1>0, <1>1, <1>2, <1>8, <3>1
      DEF TasksPlaced, CurrentPlaced, ChosenPlaced, ScannedPlaced, SchedulerTyped
    <3>4. BlockedPlaced'
      BY <1>8, <3>1 DEF TasksPlaced, BlockedPlaced
    <3>5. CreatedPlaced(on)'
      BY <1>0, <1>8, <2>2, <3>1 DEF TasksPlaced, CreatedPlaced
    <3> QED  BY <3>2, <3>3, <3>4, <3>5 DEF TasksPlaced
  <2>4. ReadyCounted(on)'
    BY <1>2, <1>7, <1>11, <1>12, <1>15 DEF ReadyCounted
  <2> QED  BY <1>2, <1>9, <1>15, <2>1, <2>3, <2>4 DEF SchedulerInv
<1> QED  BY <1>7, <1>14, <1>15

(* A deleted task leaves its list when it was on one.  ready_tasks stays too *)
(* high by one then, which the id of the task makes up for.                  *)
LEMMA DeleteStep ==
  ASSUME NEW on, NEW rank, SchedulerInv(on, rank), ~DeleteCurrent,
         NEW id, DeleteTask(id), ~raced'
  PROVE  \E on2, rank2 : SchedulerInv(on2, rank2)'
<1>1. PICK s \in Slot :
        /\ s # current_task
        /\ ready_queue' = IF task_pool[s].state = "ready"
                            THEN RemoveFromReadyQueue(ready_queue, s, task_pool[s].priority)
                            ELSE ready_queue
        /\ task_pool' = [task_pool EXCEPT ![s].has_stack = FALSE, ![s].state = "deleted",
                                          ![s].id = 0]
  BY DEF DeleteTask
<1>2. /\ on \in SUBSET Slot /\ rank \in [Slot -> Nat] /\ SchedulerTyped
      /\ task_pool \in [Slot -> Tcb]
      /\ Lists(ready_queue, on, PriorityOf, rank)
      /\ PriorityOf \in [Slot -> Priority]
  BY PriorityOfType DEF SchedulerInv, SchedulerTyped
<1>3. stats' = [stats EXCEPT !.total_tasks = Down(@)]
      /\ UNCHANGED <<current_task, next_task_id>> /\ RunKept
  BY <1>2, CallsRest DEF DeleteTask
<1>4. /\ task_pool' \in [Slot -> Tcb]
      /\ \A t \in Slot \ {s} : task_pool'[t] = task_pool[t]
      /\ task_pool'[s].id = 0 /\ task_pool'[s].priority = task_pool[s].priority
  <2> DEFINE n1 == [task_pool[s] EXCEPT !.has_stack = FALSE]
             n2 == [n1 EXCEPT !.state = "deleted"]
             n3 == [n2 EXCEPT !.id = 0]
  <2>1. task_pool' = [task_pool EXCEPT ![s] = n3]
    BY <1>1, <1>2
  <2>2. n1 \in Tcb /\ n1.priority = task_pool[s].priority
    BY <1>1, <1>2, StackChange
  <2> HIDE DEF n1
  <2>3. n2 \in Tcb /\ n2.priority = n1.priority
    BY <2>2, StateChange
  <2> HIDE DEF n2
  <2>4. n3 \in Tcb /\ n3.priority = n2.priority /\ n3.id = 0
    BY <2>3, IdChange
  <2> HIDE DEF n3
  <2> QED  BY <1>2, <2>1, <2>2, <2>3, <2>4
<1>5. PriorityOf' = PriorityOf
  BY <1>2, <1>4 DEF PriorityOf
<1>6. ready_queue' = IF s \in on THEN RemoveFromReadyQueue(ready_queue, s, PriorityOf[s])
                     ELSE ready_queue
  <2>1. PriorityOf[s] = task_pool[s].priority
    BY DEF PriorityOf
  <2>2. s \in on => task_pool[s].state = "ready"
    BY DEF SchedulerInv, TasksPlaced, ReadyPlaced
  <2>3. s \notin on => RemoveFromReadyQueue(ready_queue, s, PriorityOf[s]) = ready_queue
    BY <1>1, <1>2, RemoveOffList
  <2> QED  BY <1>1, <2>1, <2>2, <2>3
<1> DEFINE on2 == on \ {s}
<1>7. Lists(ready_queue', on2, PriorityOf', rank)
  <2>1. CASE s \in on
    BY <1>2, <1>5, <1>6, <2>1, RemoveKeepsLists
  <2>2. CASE s \notin on
    BY <1>2, <1>5, <1>6, <2>2
  <2> QED  BY <2>1, <2>2
<1>8. SchedulerTyped'
  <2>1. stats \in Statistics /\ Down(stats.total_tasks) \in Nat
    BY <1>2, SchedulerAssumption DEF Down, Statistics, SchedulerTyped
  <2>2. stats' \in Statistics
    BY <1>3, <2>1 DEF Statistics
  <2> QED  BY <1>2, <1>3, <1>4, <2>2 DEF SchedulerTyped, RunKept, Resting
<1>9. TasksPlaced(on2)'
  <2>1. /\ TasksPlaced(on) /\ current_task' = current_task
        /\ next_task = NULL /\ next_task' = NULL /\ pc' # "scan" /\ pc \notin AtWork
    BY <1>2, <1>3 DEF SchedulerInv, SchedulerTyped, RunKept, Resting, AtWork
  <2>2. ReadyPlaced(on2)'
    BY <1>2, <1>4, <2>1 DEF TasksPlaced, ReadyPlaced
  <2>3. CurrentPlaced(on2)' /\ ChosenPlaced(on2)' /\ ScannedPlaced'
    BY <1>1, <1>2, <1>4, <2>1
    DEF TasksPlaced, CurrentPlaced, ChosenPlaced, ScannedPlaced, SchedulerTyped
  <2>4. BlockedPlaced'
    BY <1>4, <2>1 DEF TasksPlaced, BlockedPlaced
  <2>5. CreatedPlaced(on2)'
    BY <1>4, <2>1 DEF TasksPlaced, CreatedPlaced
  <2> QED  BY <2>2, <2>3, <2>4, <2>5 DEF TasksPlaced
<1>10. ReadyCounted(on2)'
  <2> SUFFICES ASSUME CounterMod > MaxId
               PROVE  /\ Cardinality(on2) <= stats.ready_tasks'
                      /\ stats.ready_tasks' + Cardinality(Live') <= next_task_id' - 1 + Cardinality(on2)
    BY DEF ReadyCounted
  <2>1. /\ stats.ready_tasks' = stats.ready_tasks /\ next_task_id' = next_task_id
        /\ stats.ready_tasks \in Nat /\ next_task_id \in Nat
        /\ Cardinality(on) <= stats.ready_tasks
        /\ stats.ready_tasks + Cardinality(Live) <= next_task_id - 1 + Cardinality(on)
    BY <1>2, <1>3 DEF SchedulerInv, SchedulerTyped, ReadyCounted, Statistics
  <2>2. Live' = Live \ {s}
    BY <1>2, <1>4 DEF Live
  <2>3. on \in SUBSET Live /\ Live \in SUBSET Slot
        /\ Cardinality(on) \in Nat /\ Cardinality(Live) \in Nat
    BY OnIsLive
  <2>4. CASE s \in on
    <3>1. Cardinality(on2) = Cardinality(on) - 1
      BY <1>2, <2>4, CountOne
    <3>2. Cardinality(Live') = Cardinality(Live) - 1
      BY <2>2, <2>3, <2>4, CountOne
    <3> QED  BY <2>1, <2>3, <3>1, <3>2
  <2>5. CASE s \notin on
    <3>1. Cardinality(on2) = Cardinality(on)
      <4>1. on2 = on
        BY <2>5
      <4> HIDE DEF on2
      <4> QED  BY <4>1
    <3>2. Cardinality(Live') <= Cardinality(Live) /\ Cardinality(Live') \in Nat
      BY <2>2, <2>3, CountWithin, SlotIsFinite
    <3> QED  BY <2>1, <2>3, <3>1, <3>2
  <2> QED  BY <2>4, <2>5
<1>11. SchedulerInv(on2, rank)'
  BY <1>2, <1>7, <1>8, <1>9, <1>10 DEF SchedulerInv
<1> QED  BY <1>11

LEMMA MostUrgentIs ==
  ASSUME NEW S \in SUBSET Priority, S # {}
  PROVE  MostUrgent(S) \in S /\ \A p \in S : p <= MostUrgent(S)
<1>1. MaxPriority \in Nat /\ Priority = 0 .. MaxPriority
  BY SchedulerAssumption DEF Priority
<1> DEFINE below == {MaxPriority - p : p \in S}
<1>2. below \in SUBSET Nat /\ below # {}
  <2>1. \A p \in S : p \in Nat /\ MaxPriority - p \in Nat
    BY <1>1
  <2> QED  BY <2>1
<1>3. PICK k \in below : \A j \in below : k <= j
  <2> HIDE DEF below
  <2> QED  BY <1>2, LeastNumber
<1>4. PICK p \in S : k = MaxPriority - p
  BY <1>3
<1>5. ASSUME NEW r \in S PROVE r <= p
  <2>1. k <= MaxPriority - r
    BY <1>3
  <2>2. r \in 0 .. MaxPriority /\ p \in 0 .. MaxPriority
    BY <1>1
  <2> QED  BY <1>1, <1>4, <2>1, <2>2
<1> QED  BY <1>5 DEF MostUrgent

(* The steps of run_once that touch neither a list nor a task.               *)
LEMMA BeginStep ==
  ASSUME NEW on, NEW rank, SchedulerInv(on, rank), BeginRun
  PROVE  SchedulerInv(on, rank)'
<1>1. /\ pc = "loop" /\ pc' = "scan" /\ scheduler_time' \in Nat /\ scanned = 0
      /\ UNCHANGED <<task_pool, ready_queue, current_task, stats, next_task_id,
                     scanned, next_task, raced>>
  BY SchedulerAssumption DEF BeginRun, lists, SchedulerInv, SchedulerTyped
<1>2. SchedulerTyped'
  BY <1>1 DEF SchedulerInv, SchedulerTyped, AtWork, Resting
<1>3. TasksPlaced(on)'
  BY <1>1
  DEF SchedulerInv, TasksPlaced, ReadyPlaced, CurrentPlaced, ChosenPlaced, BlockedPlaced,
      CreatedPlaced, ScannedPlaced, AtWork
<1>4. PriorityOf' = PriorityOf /\ ReadyCounted(on)'
  BY <1>1 DEF SchedulerInv, PriorityOf, ReadyCounted, Live
<1> QED  BY <1>1, <1>2, <1>3, <1>4 DEF SchedulerInv

LEMMA FindNoneStep ==
  ASSUME NEW on, NEW rank, SchedulerInv(on, rank), FindNone
  PROVE  SchedulerInv(on, rank)'
<1>1. /\ pc = "scan" /\ pc' = "loop" /\ scanned' = 0 /\ Fronts = {}
      /\ UNCHANGED <<task_pool, ready_queue, current_task, stats, next_task_id,
                     scheduler_time, next_task, raced>>
  BY DEF FindNone, lists
<1>2. on = {}
  <2>1. /\ on \in SUBSET Slot /\ rank \in [Slot -> Nat]
        /\ Lists(ready_queue, on, PriorityOf, rank)
        /\ PriorityOf \in [Slot -> Priority]
    BY PriorityOfType DEF SchedulerInv
  <2>2. \A s \in on : PriorityOf[s] \in Fronts
    <3>1. \A s \in on : ready_queue.head[PriorityOf[s]] # NULL
      BY <2>1, ListHasFront
    <3> QED  BY <2>1, <3>1 DEF Fronts
  <2> QED  BY <1>1, <2>2
<1>3. SchedulerTyped'
  BY <1>1, SchedulerAssumption DEF SchedulerInv, SchedulerTyped, AtWork, Resting
<1>4. TasksPlaced(on)'
  BY <1>1, <1>2
  DEF SchedulerInv, TasksPlaced, ReadyPlaced, CurrentPlaced, ChosenPlaced, BlockedPlaced,
      CreatedPlaced, ScannedPlaced
<1>5. PriorityOf' = PriorityOf /\ ReadyCounted(on)'
  BY <1>1 DEF SchedulerInv, PriorityOf, ReadyCounted, Live
<1> QED  BY <1>1, <1>3, <1>4, <1>5 DEF SchedulerInv

LEMMA EntryReturnsStep ==
  ASSUME NEW on, NEW rank, SchedulerInv(on, rank), EntryReturns
  PROVE  SchedulerInv(on, rank)'
<1>1. /\ pc = "entry" /\ pc' \in {"crashed", "slice", "loop"}
      /\ UNCHANGED <<task_pool, ready_queue, current_task, stats, next_task_id,
                     scheduler_time, scanned, next_task, raced>>
  BY DEF EntryReturns, lists
<1>2. SchedulerTyped'
  BY <1>1 DEF SchedulerInv, SchedulerTyped, AtWork, Resting
<1>3. TasksPlaced(on)'
  BY <1>1
  DEF SchedulerInv, TasksPlaced, ReadyPlaced, CurrentPlaced, ChosenPlaced, BlockedPlaced,
      CreatedPlaced, ScannedPlaced, AtWork
<1>4. PriorityOf' = PriorityOf /\ ReadyCounted(on)'
  BY <1>1 DEF SchedulerInv, PriorityOf, ReadyCounted, Live
<1> QED  BY <1>1, <1>2, <1>3, <1>4 DEF SchedulerInv

LEMMA EndSliceStep ==
  ASSUME NEW on, NEW rank, SchedulerInv(on, rank), EndSlice
  PROVE  \E on2, rank2 : SchedulerInv(on2, rank2)'
<1> PICK c : c = current_task
  OBVIOUS
<1>1. RunKept /\ pc = "slice" /\ raced' = raced
  <2>1. pc' \in {"crashed", "loop"}
    BY DEF EndSlice
  <2> QED  BY <2>1 DEF EndSlice, RunKept, Resting, SchedulerInv, SchedulerTyped
<1>2. CASE c # NULL
  <2>1. Requeue(task_pool, stats) /\ task_pool \in [Slot -> Tcb] /\ stats \in Statistics
    BY <1>2 DEF EndSlice, SchedulerInv, SchedulerTyped
  <2>2. SchedulerInv(on \cup {c}, RankedFirst(rank, c))'
    BY <1>1, <1>2, <2>1, RequeueStep
  <2> QED  BY <2>2
<1>3. CASE c = NULL
  <2>1. UNCHANGED <<task_pool, ready_queue, current_task, stats>>
    BY <1>3 DEF EndSlice, lists
  <2>2. SchedulerTyped'
    BY <1>1, <2>1 DEF SchedulerInv, SchedulerTyped, RunKept, Resting
  <2>3. TasksPlaced(on)'
    BY <1>1, <1>3, <2>1
    DEF SchedulerInv, TasksPlaced, ReadyPlaced, CurrentPlaced, ChosenPlaced, BlockedPlaced,
        CreatedPlaced, ScannedPlaced, RunKept, Resting
  <2>4. PriorityOf' = PriorityOf /\ ReadyCounted(on)'
    BY <1>1, <2>1 DEF SchedulerInv, PriorityOf, ReadyCounted, Live, RunKept
  <2>5. SchedulerInv(on, rank)'
    BY <2>1, <2>2, <2>3, <2>4 DEF SchedulerInv
  <2> QED  BY <2>5
<1> QED  BY <1>2, <1>3

LEMMA RankedType ==
  ASSUME NEW rank \in [Slot -> Nat], NEW s \in Slot
  PROVE  RankedFirst(rank, s) \in [Slot -> Nat]
BY DEF RankedFirst

(* process_timeouts puts a task it wakes on its list: the one that ran last, *)
(* which is on none.                                                         *)
LEMMA ScanStep ==
  ASSUME NEW on, NEW rank, SchedulerInv(on, rank), ScanSlot
  PROVE  \E on2, rank2 : SchedulerInv(on2, rank2)'
<1> PICK s : s = scanned + 1
  OBVIOUS
<1>1. /\ s \in Slot /\ s \in 1 .. MaxTasks /\ pc = "scan" /\ scanned' = s
      /\ 1 .. s = (1 .. scanned) \cup {s}
      /\ UNCHANGED <<current_task, next_task_id, scheduler_time, pc, next_task, raced>>
      /\ next_task = NULL
  BY SchedulerAssumption DEF ScanSlot, Slot, SchedulerInv, SchedulerTyped
<1>2. /\ on \in SUBSET Slot /\ rank \in [Slot -> Nat] /\ SchedulerTyped
      /\ task_pool \in [Slot -> Tcb] /\ stats \in Statistics
      /\ Lists(ready_queue, on, PriorityOf, rank) /\ TasksPlaced(on)
      /\ PriorityOf \in [Slot -> Priority]
  BY PriorityOfType DEF SchedulerInv, SchedulerTyped
<1>3. CASE Expired(s)
  <2> DEFINE on2 == on \cup {s}
             rank2 == RankedFirst(rank, s)
  <2>1. /\ task_pool' = [task_pool EXCEPT ![s].state = "ready"]
        /\ ready_queue' = AddToReadyQueue(ready_queue, s, task_pool[s].priority)
        /\ stats' = [stats EXCEPT !.ready_tasks = Up(@), !.blocked_tasks = Down(@)]
    BY <1>3 DEF ScanSlot
  <2>2. s \notin on /\ s \in Live /\ s = current_task
    <3>1. task_pool[s].id # 0 /\ task_pool[s].state = "blocked"
      BY <1>3 DEF Expired
    <3>2. ReadyPlaced(on) /\ BlockedPlaced
      BY <1>2 DEF TasksPlaced
    <3> QED  BY <1>1, <3>1, <3>2 DEF ReadyPlaced, BlockedPlaced, Live
  <2>3. on2 \in SUBSET Slot /\ rank2 \in [Slot -> Nat]
    BY <1>1, <1>2, RankedType
  <2>4. /\ task_pool' \in [Slot -> Tcb]
        /\ \A t \in Slot \ {s} : task_pool'[t] = task_pool[t]
        /\ task_pool'[s].id = task_pool[s].id /\ task_pool'[s].state = "ready"
        /\ task_pool'[s].priority = task_pool[s].priority
        /\ task_pool'[s].has_stack = task_pool[s].has_stack
        /\ task_pool'[s].ran = task_pool[s].ran
    <3> DEFINE n == [task_pool[s] EXCEPT !.state = "ready"]
    <3>1. task_pool' = [task_pool EXCEPT ![s] = n]
      BY <2>1
    <3>2. /\ n \in Tcb /\ n.id = task_pool[s].id /\ n.state = "ready"
          /\ n.priority = task_pool[s].priority
          /\ n.has_stack = task_pool[s].has_stack /\ n.ran = task_pool[s].ran
      BY <1>1, <1>2, StateChange
    <3> HIDE DEF n
    <3> QED  BY <1>1, <1>2, <3>1, <3>2
  <2>5. PriorityOf' = PriorityOf /\ Live' = Live
    BY <1>1, <2>4 DEF PriorityOf, Live
  <2>6. Lists(ready_queue', on2, PriorityOf', rank2)
    <3>1. PriorityOf[s] = task_pool[s].priority
      BY <1>1 DEF PriorityOf
    <3> QED  BY <1>1, <1>2, <2>1, <2>2, <2>5, <3>1, AddKeepsLists
  <2>7. SchedulerTyped'
    <3>1. Up(stats.ready_tasks) \in Nat /\ Down(stats.blocked_tasks) \in Nat
      BY <1>2, SchedulerAssumption DEF Up, Down, Statistics
    <3>2. stats' \in Statistics
      BY <1>2, <2>1, <3>1 DEF Statistics
    <3> QED  BY <1>1, <1>2, <2>4, <3>2 DEF SchedulerTyped
  <2>8. TasksPlaced(on2)'
    <3>1. ReadyPlaced(on2)'
      BY <1>1, <1>2, <2>2, <2>4 DEF TasksPlaced, ReadyPlaced, Live
    <3>2. CurrentPlaced(on2)' /\ ChosenPlaced(on2)'
      BY <1>1, <1>2, <2>2, <2>4 DEF TasksPlaced, CurrentPlaced, ChosenPlaced, AtWork
    <3>3. BlockedPlaced'
      BY <1>1, <1>2, <2>4 DEF TasksPlaced, BlockedPlaced
    <3>4. CreatedPlaced(on2)'
      BY <1>1, <1>2, <2>4 DEF TasksPlaced, CreatedPlaced
    <3>5. ScannedPlaced'
      <4>1. ASSUME NEW t \in 1 .. s PROVE ~Expired(t)'
        <5>1. CASE t = s
          BY <2>4, <5>1 DEF Expired
        <5>2. CASE t # s
          <6>1. t \in 1 .. scanned
            BY <1>1, <5>2
          <6>3. t \in Slot
            <7>1. MaxTasks \in Nat /\ scanned \in 0 .. MaxTasks
              BY <1>2, SchedulerAssumption DEF SchedulerTyped
            <7> QED  BY <6>1, <7>1 DEF Slot
          <6>2. ~Expired(t)
            BY <1>1, <1>2, <6>1 DEF TasksPlaced, ScannedPlaced
          <6> QED  BY <1>1, <2>4, <5>2, <6>3, <6>2 DEF Expired
        <5> QED  BY <5>1, <5>2
      <4> QED  BY <1>1, <4>1 DEF ScannedPlaced
    <3> QED  BY <3>1, <3>2, <3>3, <3>4, <3>5 DEF TasksPlaced
  <2>9. ReadyCounted(on2)'
    <3> SUFFICES ASSUME CounterMod > MaxId
                 PROVE  /\ Cardinality(on2) <= stats.ready_tasks'
                        /\ stats.ready_tasks' + Cardinality(Live') <= next_task_id' - 1 + Cardinality(on2)
      BY DEF ReadyCounted
    <3>1. Cardinality(on2) = Cardinality(on) + 1
      BY <1>1, <1>2, <2>2, CountOne
    <3>2. s \in Live \ on
      BY <2>2
    <3>3. /\ Cardinality(on) \in Nat /\ Cardinality(Live) \in Nat
          /\ stats.ready_tasks \in Nat /\ next_task_id \in Nat
          /\ Up(stats.ready_tasks) = stats.ready_tasks + 1
          /\ Cardinality(on) <= stats.ready_tasks
          /\ stats.ready_tasks + Cardinality(Live) <= next_task_id - 1 + Cardinality(on)
      BY <3>2, CountsOneMore
    <3>4. stats.ready_tasks' = stats.ready_tasks + 1
      BY <1>2, <2>1, <3>3 DEF Statistics
    <3> QED  BY <1>1, <2>5, <3>1, <3>3, <3>4
  <2>10. SchedulerInv(on2, rank2)'
    BY <2>3, <2>6, <2>7, <2>8, <2>9 DEF SchedulerInv
  <2> QED  BY <2>10
<1>4. CASE ~Expired(s)
  <2>1. UNCHANGED <<task_pool, ready_queue, stats>>
    BY <1>4 DEF ScanSlot
  <2>2. SchedulerTyped'
    BY <1>1, <1>2, <2>1 DEF SchedulerTyped
  <2>3. ScannedPlaced'
    <3>1. \A t \in 1 .. s : ~Expired(t)
      BY <1>1, <1>2, <1>4 DEF TasksPlaced, ScannedPlaced
    <3> QED  BY <1>1, <2>1, <3>1 DEF ScannedPlaced, Expired
  <2>4. TasksPlaced(on)'
    BY <1>1, <1>2, <2>1, <2>3
    DEF TasksPlaced, ReadyPlaced, CurrentPlaced, ChosenPlaced, BlockedPlaced, CreatedPlaced
  <2>5. PriorityOf' = PriorityOf /\ ReadyCounted(on)'
    BY <1>1, <2>1 DEF SchedulerInv, PriorityOf, ReadyCounted, Live
  <2>6. SchedulerInv(on, rank)'
    BY <1>2, <2>1, <2>2, <2>4, <2>5 DEF SchedulerInv
  <2> QED  BY <2>6
<1> QED  BY <1>3, <1>4

(* The task chosen is at the front of its list, and no list above it has one. *)
LEMMA ChoiceIs ==
  ASSUME NEW on, NEW rank, SchedulerInv(on, rank), Choose
  PROVE  \E s \in on :
           /\ next_task' = s
           /\ ready_queue.head[PriorityOf[s]] = s
           /\ ready_queue' = TakeFirst(ready_queue, PriorityOf[s])
           /\ \A u \in on : PriorityOf[u] <= PriorityOf[s]
<1> DEFINE p == MostUrgent(Fronts)
           s == ready_queue.head[p]
<1>1. /\ on \in SUBSET Slot /\ rank \in [Slot -> Nat]
      /\ Lists(ready_queue, on, PriorityOf, rank)
      /\ PriorityOf \in [Slot -> Priority]
  BY PriorityOfType DEF SchedulerInv
<1>2. \A u \in on : PriorityOf[u] \in Fronts
  <2>1. \A u \in on : ready_queue.head[PriorityOf[u]] # NULL
    BY <1>1, ListHasFront
  <2> QED  BY <1>1, <2>1 DEF Fronts
<1>3. Fronts # {} /\ next_task' = s /\ ready_queue' = TakeFirst(ready_queue, p)
  BY DEF Choose
<1>4. p \in Fronts /\ \A r \in Fronts : r <= p
  <2>1. Fronts \in SUBSET Priority
    BY DEF Fronts
  <2> QED  BY <1>3, <2>1, MostUrgentIs
<1> HIDE DEF p
<1>5. s \in on /\ PriorityOf[s] = p
  BY <1>1, <1>4 DEF Fronts, Lists, FrontsListed
<1> QED  BY <1>2, <1>3, <1>4, <1>5

LEMMA ChooseStep ==
  ASSUME NEW on, NEW rank, SchedulerInv(on, rank), Choose
  PROVE  \E on2, rank2 : SchedulerInv(on2, rank2)'
<1>1. PICK s \in on : /\ next_task' = s
                      /\ ready_queue.head[PriorityOf[s]] = s
                      /\ ready_queue' = TakeFirst(ready_queue, PriorityOf[s])
  BY ChoiceIs
<1>2. /\ pc = "scan" /\ pc' = "switch" /\ scanned' = 0
      /\ stats' = [stats EXCEPT !.ready_tasks = Down(@)]
      /\ UNCHANGED <<task_pool, current_task, next_task_id, scheduler_time, raced>>
  BY DEF Choose
<1>3. /\ on \in SUBSET Slot /\ rank \in [Slot -> Nat] /\ SchedulerTyped
      /\ stats \in Statistics /\ s \in Slot /\ s # NULL
      /\ Lists(ready_queue, on, PriorityOf, rank) /\ TasksPlaced(on)
      /\ PriorityOf \in [Slot -> Priority] /\ PriorityOf[s] \in Priority
  BY <1>1, PriorityOfType, NullIsNoSlot DEF SchedulerInv, SchedulerTyped
<1> DEFINE on2 == on \ {s}
<1>4. PriorityOf' = PriorityOf /\ Live' = Live
  BY <1>2 DEF PriorityOf, Live
<1>5. Lists(ready_queue', on2, PriorityOf', rank)
  <2>1. ready_queue' = RemoveFromReadyQueue(ready_queue, s, PriorityOf[s])
    BY <1>1, <1>3, TakeIsRemove
  <2> QED  BY <1>1, <1>3, <1>4, <2>1, RemoveKeepsLists
<1>6. SchedulerTyped'
  <2>1. Down(stats.ready_tasks) \in Nat
    BY <1>3, SchedulerAssumption DEF Down, Statistics
  <2>2. stats' \in Statistics
    BY <1>2, <1>3, <2>1 DEF Statistics
  <2> QED  BY <1>1, <1>2, <1>3, <2>2, SchedulerAssumption DEF SchedulerTyped, AtWork
<1>7. TasksPlaced(on2)'
  <2>1. ReadyPlaced(on2)' /\ BlockedPlaced' /\ ScannedPlaced'
    BY <1>2, <1>3 DEF TasksPlaced, ReadyPlaced, BlockedPlaced, ScannedPlaced
  <2>2. CurrentPlaced(on2)'
    BY <1>2, <1>3 DEF TasksPlaced, CurrentPlaced, AtWork
  <2>3. ChosenPlaced(on2)'
    BY <1>1, <1>2, <1>3 DEF TasksPlaced, ReadyPlaced, ChosenPlaced
  <2>4. CreatedPlaced(on2)'
    <3>1. next_task = NULL
      BY <1>2, <1>3 DEF SchedulerTyped
    <3> QED  BY <1>1, <1>2, <1>3, <3>1, NullIsNoSlot DEF TasksPlaced, CreatedPlaced
  <2> QED  BY <2>1, <2>2, <2>3, <2>4 DEF TasksPlaced
<1>8. ReadyCounted(on2)'
  <2> SUFFICES ASSUME CounterMod > MaxId
               PROVE  /\ Cardinality(on2) <= stats.ready_tasks'
                      /\ stats.ready_tasks' + Cardinality(Live') <= next_task_id' - 1 + Cardinality(on2)
    BY DEF ReadyCounted
  <2>1. Cardinality(on2) = Cardinality(on) - 1 /\ Cardinality(on2) \in Nat
    BY <1>1, <1>3, CountOne, SlotIsFinite
  <2>2. /\ Cardinality(on) \in Nat /\ Cardinality(Live) \in Nat
        /\ Cardinality(on) <= Cardinality(Live)
    BY OnIsLive
  <2>3. /\ stats.ready_tasks \in Nat /\ next_task_id \in Nat \ {0}
        /\ (next_task_id = 2 \/ next_task_id <= MaxId + 1)
        /\ Cardinality(on) <= stats.ready_tasks
        /\ stats.ready_tasks + Cardinality(Live) <= next_task_id - 1 + Cardinality(on)
    BY DEF SchedulerInv, SchedulerTyped, ReadyCounted, Statistics
  <2> HIDE DEF on2
  <2>4. stats.ready_tasks \in Nat \ {0} /\ stats.ready_tasks < CounterMod
    BY <2>1, <2>2, <2>3, SchedulerAssumption
  <2>5. stats.ready_tasks' = stats.ready_tasks - 1
    BY <1>2, <1>3, <2>4, DownCounts DEF Statistics
  <2> QED  BY <1>2, <1>4, <2>1, <2>2, <2>3, <2>5
<1>9. SchedulerInv(on2, rank)'
  BY <1>3, <1>5, <1>6, <1>7, <1>8 DEF SchedulerInv
<1> QED  BY <1>9

(* The pool after the context switch to the task chosen. *)
OnlyRuns(pool, s) ==
  /\ pool \in [Slot -> Tcb]
  /\ \A u \in Slot : /\ pool[u].id = task_pool[u].id
                     /\ pool[u].priority = task_pool[u].priority
                     /\ pool[u].has_stack = task_pool[u].has_stack
                     /\ u # s => pool[u].ran = task_pool[u].ran
                     /\ u \notin {s, current_task} => pool[u].state = task_pool[u].state
                     /\ u = current_task /\ u # s => pool[u].state = "ready"
  /\ pool[s].state = "running" /\ pool[s].ran

LEMMA OneChanged ==
  ASSUME NEW f \in [Slot -> Tcb], NEW s \in Slot, NEW r \in Tcb, NEW g, g = [f EXCEPT ![s] = r]
  PROVE  g \in [Slot -> Tcb] /\ g[s] = r /\ \A u \in Slot \ {s} : g[u] = f[u]
OBVIOUS

(* The pool once the task that ran before is ready, as context_switch has it. *)
Preempted(s) ==
  IF current_task \in {NULL, s} THEN task_pool
  ELSE [task_pool EXCEPT ![current_task].state = "ready"]

SwitchedTo(pool, s) ==
  pool = [Preempted(s) EXCEPT ![s].state = "running", ![s].ran = TRUE]

LEMMA SwitchedPool ==
  ASSUME task_pool \in [Slot -> Tcb], current_task \in Slot \cup {NULL}, NEW s \in Slot,
         NEW pool, SwitchedTo(pool, s)
  PROVE  OnlyRuns(pool, s)
<1> DEFINE switched == Preempted(s)
<1> DEFINE Same(r, u) == /\ r \in Tcb /\ r.id = task_pool[u].id
                         /\ r.priority = task_pool[u].priority
                         /\ r.has_stack = task_pool[u].has_stack
                         /\ r.ran = task_pool[u].ran
<1>1. /\ switched \in [Slot -> Tcb]
      /\ \A u \in Slot : /\ Same(switched[u], u)
                         /\ u # current_task => switched[u].state = task_pool[u].state
                         /\ u = current_task /\ u # s => switched[u].state = "ready"
  <2>1. CASE current_task \in {NULL, s}
    BY <2>1, NullIsNoSlot DEF Preempted
  <2>2. CASE current_task \notin {NULL, s}
    <3>1. PICK c \in Slot : c = current_task /\ c # s
      BY <2>2
    <3> DEFINE n == [task_pool[c] EXCEPT !.state = "ready"]
    <3>2. switched = [task_pool EXCEPT ![c] = n]
      BY <2>2, <3>1 DEF Preempted
    <3>3. Same(n, c) /\ n.state = "ready"
      BY StateChange
    <3> HIDE DEF n, switched
    <3> QED  BY <3>1, <3>2, <3>3
  <2> QED  BY <2>1, <2>2
<1> HIDE DEF switched
<1> PICK b \in BOOLEAN : b = TRUE
  OBVIOUS
<1> DEFINE n1 == [switched[s] EXCEPT !.state = "running"]
           n2 == [n1 EXCEPT !.ran = b]
<1>2. pool = [switched EXCEPT ![s] = n2]
  BY <1>1 DEF SwitchedTo, switched
<1>3. /\ n1 \in Tcb /\ n1.id = switched[s].id /\ n1.priority = switched[s].priority
      /\ n1.has_stack = switched[s].has_stack /\ n1.state = "running"
  BY <1>1, StateChange
<1> HIDE DEF n1
<1>4. /\ n2 \in Tcb /\ n2.id = n1.id /\ n2.priority = n1.priority
      /\ n2.has_stack = n1.has_stack /\ n2.state = n1.state /\ n2.ran = b
  BY <1>3, RanChange
<1> HIDE DEF n2
<1>5. pool \in [Slot -> Tcb] /\ pool[s] = n2 /\ \A u \in Slot \ {s} : pool[u] = switched[u]
  <2>1. switched \in [Slot -> Tcb] /\ n2 \in Tcb
    BY <1>1, <1>4
  <2> QED  BY <1>2, <2>1, OneChanged, Zenon
<1>6. Same(switched[s], s)
  BY <1>1
<1>7. pool[s].state = "running" /\ pool[s].ran
  BY <1>3, <1>4, <1>5
<1>8. /\ pool[s].id = task_pool[s].id /\ pool[s].priority = task_pool[s].priority
      /\ pool[s].has_stack = task_pool[s].has_stack
  BY <1>3, <1>4, <1>5, <1>6
<1>9. ASSUME NEW u \in Slot \ {s}
      PROVE  /\ Same(pool[u], u)
             /\ u # current_task => pool[u].state = task_pool[u].state
             /\ u = current_task => pool[u].state = "ready"
  BY <1>1, <1>5
<1> QED  BY <1>5, <1>7, <1>8, <1>9 DEF OnlyRuns

(* The switch moves nothing on the lists, and the task chosen is on none.    *)
LEMMA SwitchStep ==
  ASSUME NEW on, NEW rank, SchedulerInv(on, rank), Switch
  PROVE  SchedulerInv(on, rank)'
<1> PICK s : s = next_task
  OBVIOUS
<1> PICK pool : pool = task_pool'
  OBVIOUS
<1>1. /\ on \in SUBSET Slot /\ rank \in [Slot -> Nat] /\ SchedulerTyped
      /\ task_pool \in [Slot -> Tcb] /\ current_task \in Slot \cup {NULL}
      /\ Lists(ready_queue, on, PriorityOf, rank) /\ TasksPlaced(on)
  BY DEF SchedulerInv, SchedulerTyped
<1>2. /\ pc = "switch" /\ pc' \in {"entry", "hung"} /\ current_task' = s /\ next_task' = NULL
      /\ UNCHANGED <<ready_queue, stats, next_task_id, scheduler_time, scanned, raced>>
  BY DEF Switch
<1>3. s \in Slot /\ s # NULL /\ s \notin on
  BY <1>1, <1>2 DEF SchedulerTyped, TasksPlaced, ChosenPlaced
<1>4. OnlyRuns(pool, s)
  <2>1. SwitchedTo(pool, s)
    BY DEF Switch, SwitchedTo, Preempted
  <2> QED  BY <1>1, <1>3, <2>1, SwitchedPool
<1>5. /\ pool \in [Slot -> Tcb]
      /\ \A u \in Slot : /\ pool[u].id = task_pool[u].id
                         /\ pool[u].priority = task_pool[u].priority
                         /\ pool[u].has_stack = task_pool[u].has_stack
                         /\ u # s => pool[u].ran = task_pool[u].ran
                         /\ u \notin {s, current_task} => pool[u].state = task_pool[u].state
                         /\ u = current_task /\ u # s => pool[u].state = "ready"
      /\ pool[s].state = "running" /\ pool[s].ran
  BY <1>4 DEF OnlyRuns
<1>6. PriorityOf' = PriorityOf /\ Live' = Live
  BY <1>5 DEF PriorityOf, Live
<1>7. SchedulerTyped'
  BY <1>1, <1>2, <1>3, <1>5 DEF SchedulerTyped, AtWork, Resting
<1>8. TasksPlaced(on)'
  <2>1. ReadyPlaced(on)'
    <3>1. ASSUME NEW u \in on PROVE pool[u].id # 0 /\ pool[u].state = "ready"
      <4>1. u \in Slot /\ u # s /\ task_pool[u].id # 0 /\ task_pool[u].state = "ready"
        BY <1>1, <1>3 DEF TasksPlaced, ReadyPlaced
      <4>2. CASE u = current_task
        BY <1>5, <4>1, <4>2
      <4>3. CASE u # current_task
        BY <1>5, <4>1, <4>3
      <4> QED  BY <4>2, <4>3
    <3> QED  BY <3>1 DEF ReadyPlaced
  <2>2. CurrentPlaced(on)' /\ ChosenPlaced(on)' /\ ScannedPlaced'
    BY <1>1, <1>2, <1>3, <1>5
    DEF TasksPlaced, CurrentPlaced, ChosenPlaced, ScannedPlaced
  <2>3. BlockedPlaced'
    BY <1>1, <1>2, <1>5 DEF TasksPlaced, BlockedPlaced
  <2>4. CreatedPlaced(on)'
    BY <1>1, <1>2, <1>5 DEF TasksPlaced, CreatedPlaced
  <2> QED  BY <2>1, <2>2, <2>3, <2>4 DEF TasksPlaced
<1>9. ReadyCounted(on)'
  BY <1>2, <1>6 DEF SchedulerInv, ReadyCounted
<1> QED  BY <1>1, <1>2, <1>6, <1>7, <1>8, <1>9 DEF SchedulerInv

-----------------------------------------------------------------------------
(* The invariant and the theorems *)

IInv == ~raced => \E on, rank : SchedulerInv(on, rank)

LEMMA NextStep ==
  ASSUME ~DeleteCurrent, IInv, [Next]_vars
  PROVE  IInv'
<1> SUFFICES ASSUME ~raced'
             PROVE  \E on2, rank2 : SchedulerInv(on2, rank2)'
  BY DEF IInv
<1>1. ~raced
  <2>1. Next \/ raced' = raced
    BY DEF vars
  <2> QED  BY <2>1, Zenon
           DEF Next, CreateTask, DeleteTask, Yield, Delay, Overlaps, OverlapsLists,
               BeginRun, ScanSlot, FindNone, Choose, Switch, EntryReturns, EndSlice
<1>2. PICK on, rank : SchedulerInv(on, rank)
  BY <1>1 DEF IInv
<1>3. ASSUME NEW p \in Priority, NEW returns \in EntryKinds, CreateTask(p, returns)
      PROVE  \E on2, rank2 : SchedulerInv(on2, rank2)'
  <2>1. returns \in BOOLEAN
    BY SchedulerAssumption
  <2> QED  BY <1>2, <1>3, <2>1, CreateStep
<1>4. ASSUME NEW id \in DeleteIds, DeleteTask(id)
      PROVE  \E on2, rank2 : SchedulerInv(on2, rank2)'
  BY <1>2, <1>4, DeleteStep
<1>5. ASSUME Yield
      PROVE  \E on2, rank2 : SchedulerInv(on2, rank2)'
  BY <1>2, <1>5, YieldStep
<1>6. ASSUME NEW ms \in 1 .. MaxDelay, Delay(ms)
      PROVE  \E on2, rank2 : SchedulerInv(on2, rank2)'
  <2>1. ms \in Nat
    OBVIOUS
  <2> QED  BY <1>2, <1>6, <2>1, DelayStep
<1>7. ASSUME BeginRun
      PROVE  \E on2, rank2 : SchedulerInv(on2, rank2)'
  BY <1>2, <1>7, BeginStep
<1>8. ASSUME ScanSlot
      PROVE  \E on2, rank2 : SchedulerInv(on2, rank2)'
  BY <1>2, <1>8, ScanStep
<1>9. ASSUME FindNone
      PROVE  \E on2, rank2 : SchedulerInv(on2, rank2)'
  BY <1>2, <1>9, FindNoneStep
<1>10. ASSUME Choose
       PROVE  \E on2, rank2 : SchedulerInv(on2, rank2)'
  BY <1>2, <1>10, ChooseStep
<1>11. ASSUME Switch
       PROVE  \E on2, rank2 : SchedulerInv(on2, rank2)'
  BY <1>2, <1>11, SwitchStep
<1>12. ASSUME EntryReturns
       PROVE  \E on2, rank2 : SchedulerInv(on2, rank2)'
  BY <1>2, <1>12, EntryReturnsStep
<1>13. ASSUME EndSlice
       PROVE  \E on2, rank2 : SchedulerInv(on2, rank2)'
  BY <1>2, <1>13, EndSliceStep
<1>14. ASSUME UNCHANGED vars
       PROVE  \E on2, rank2 : SchedulerInv(on2, rank2)'
  <2>1. UNCHANGED <<task_pool, ready_queue, current_task, stats, next_task_id,
                    scheduler_time, pc, scanned, next_task, raced>>
    BY <1>14 DEF vars, lists, run
  <2>2. SchedulerTyped'
    BY <1>2, <2>1 DEF SchedulerInv, SchedulerTyped
  <2>3. TasksPlaced(on)'
    BY <1>2, <2>1
    DEF SchedulerInv, TasksPlaced, ReadyPlaced, CurrentPlaced, ChosenPlaced, BlockedPlaced,
        CreatedPlaced, ScannedPlaced, Expired
  <2>4. PriorityOf' = PriorityOf /\ ReadyCounted(on)'
    BY <1>2, <2>1 DEF SchedulerInv, PriorityOf, ReadyCounted, Live
  <2>5. SchedulerInv(on, rank)'
    BY <1>2, <2>1, <2>2, <2>3, <2>4 DEF SchedulerInv
  <2> QED  BY <2>5
<1> QED
  BY <1>3, <1>4, <1>5, <1>6, <1>7, <1>8, <1>9, <1>10, <1>11, <1>12, <1>13, <1>14 DEF Next

LEMMA Invariance ==
  ASSUME ~DeleteCurrent
  PROVE  Spec => []IInv
<1>1. Init => IInv
  BY InitHolds DEF IInv
<1>2. IInv /\ [Next]_vars => IInv'
  BY NextStep
<1> QED  BY <1>1, <1>2, PTL DEF Spec

(* The slots found on a list are those the invariant has on the lists. *)
LEMMA QueuedIsOn ==
  ASSUME NEW on, NEW rank, SchedulerInv(on, rank)
  PROVE  /\ \A p \in Priority : OnList(p) = {s \in on : task_pool[s].priority = p}
         /\ {s \in Slot : Queued(s)} = on
         /\ \A s : Queued(s) <=> s \in on
<1>1. /\ on \in SUBSET Slot /\ PriorityOf \in [Slot -> Priority]
      /\ rank \in [Slot -> Nat] /\ Lists(ready_queue, on, PriorityOf, rank)
  BY PriorityOfType DEF SchedulerInv
<1>2. \A p \in Priority : OnList(p) = {s \in on : PriorityOf[s] = p}
  BY <1>1, OnListIsOn
<1>3. \A s \in on : PriorityOf[s] = task_pool[s].priority
  BY <1>1 DEF PriorityOf
<1>4. \A s : Queued(s) <=> s \in on
  BY <1>1, <1>2 DEF Queued
<1> QED  BY <1>1, <1>2, <1>3, <1>4

(* The ready lists of the code keep their shape whatever the callers do, as  *)
(* long as no call overlaps the list work of run_once and none deletes the   *)
(* task that current_task points to.                                        *)
THEOREM ListsStayWellFormed ==
  ASSUME ~DeleteCurrent
  PROVE  Spec => []ReadyQueueWellFormed
<1>1. IInv => ReadyQueueWellFormed
  <2> SUFFICES ASSUME IInv, ~raced PROVE ReadyQueueWellFormed
    BY DEF ReadyQueueWellFormed
  <2> PICK on, rank : SchedulerInv(on, rank)
    BY DEF IInv
  <2>1. /\ on \in SUBSET Slot /\ PriorityOf \in [Slot -> Priority]
        /\ rank \in [Slot -> Nat] /\ Lists(ready_queue, on, PriorityOf, rank)
        /\ TasksPlaced(on)
    BY PriorityOfType DEF SchedulerInv
  <2>2. ASSUME NEW p \in Priority PROVE Walk(p)[MaxTasks] = NULL
    BY <2>1, WalkEnds
  <2>3. ASSUME NEW p \in Priority, NEW s \in OnList(p)
        PROVE  /\ task_pool[s].id # 0
               /\ task_pool[s].state = "ready"
               /\ task_pool[s].priority = p
               /\ (ready_queue.prev[s] = NULL) <=> (ready_queue.head[p] = s)
               /\ ready_queue.next[s] # NULL => ready_queue.prev[ready_queue.next[s]] = s
    <3>1. s \in on /\ s \in Slot /\ task_pool[s].priority = p
      BY <2>1, <2>3, QueuedIsOn
    <3>2. PriorityOf[s] = p
      BY <3>1 DEF PriorityOf
    <3>3. ready_queue.prev[s] = NULL => ready_queue.head[p] = s
      BY <2>1, <3>1, <3>2 DEF Lists, FirstIsFront
    <3>4. ready_queue.head[p] = s => ready_queue.prev[s] = NULL
      BY <2>1, <3>1, <3>2, NullIsNoSlot DEF Lists, FrontsListed
    <3>5. ready_queue.next[s] # NULL => ready_queue.prev[ready_queue.next[s]] = s
      BY <2>1, <3>1 DEF Lists, NextLinked
    <3>6. task_pool[s].id # 0 /\ task_pool[s].state = "ready"
      BY <2>1, <3>1 DEF TasksPlaced, ReadyPlaced
    <3> QED  BY <3>1, <3>3, <3>4, <3>5, <3>6
  <2>4. ASSUME NEW s \in Slot, ~Queued(s)
        PROVE  ready_queue.next[s] = NULL /\ ready_queue.prev[s] = NULL
    BY <2>1, <2>4, QueuedIsOn, OnIsLinked
  <2> QED  BY <2>2, <2>3, <2>4 DEF ReadyQueueWellFormed
<1> QED  BY <1>1, Invariance, PTL

(* No sequence of calls and steps of run_once drops a task between its       *)
(* creation and its first run, as long as no call overlaps its list work.    *)
THEOREM CreatedTasksStayQueued ==
  ASSUME ~DeleteCurrent
  PROVE  Spec => []CreatedTaskIsQueued
<1>1. IInv => CreatedTaskIsQueued
  <2> SUFFICES ASSUME IInv, ~raced PROVE CreatedTaskIsQueued
    BY DEF CreatedTaskIsQueued
  <2> PICK on, rank : SchedulerInv(on, rank)
    BY DEF IInv
  <2> QED  BY QueuedIsOn DEF SchedulerInv, TasksPlaced, CreatedPlaced, CreatedTaskIsQueued
<1> QED  BY <1>1, Invariance, PTL

(* ready_tasks never lags behind the lists while the ids that were handed    *)
(* out fit the counter, though deletions are never subtracted from it; again *)
(* up to the first call that overlaps the list work of run_once.             *)
THEOREM ReadyCountNeverLags ==
  ASSUME ~DeleteCurrent, CounterMod > MaxId
  PROVE  Spec => []ReadyCountCoversQueue
<1>1. IInv => ReadyCountCoversQueue
  <2> SUFFICES ASSUME IInv, ~raced PROVE ReadyCountCoversQueue
    BY DEF ReadyCountCoversQueue
  <2> PICK on, rank : SchedulerInv(on, rank)
    BY DEF IInv
  <2>1. Cardinality(on) <= stats.ready_tasks
    BY DEF SchedulerInv, ReadyCounted
  <2>2. Cardinality(on) \in Nat /\ stats.ready_tasks \in Nat
    BY SlotIsFinite DEF SchedulerInv, SchedulerTyped, Statistics
  <2>3. {s \in Slot : Queued(s)} = on
    BY QueuedIsOn
  <2> QED  BY <2>1, <2>2, <2>3 DEF ReadyCountCoversQueue
<1> QED  BY <1>1, Invariance, PTL

(* run_once chooses no task while a more urgent one is on a list or sleeps   *)
(* past its timeout, as long as no call has overlapped its list work: its    *)
(* wake-ups and its choice are steps between which others may fall.          *)
THEOREM MostUrgentRunsFirst ==
  ASSUME ~DeleteCurrent
  PROVE  Spec => HighestPriorityFirst
<1> DEFINE Fair == Choose /\ ~raced =>
                     \A s \in Slot :
                       Queued(s) \/ Expired(s)
                         => task_pool[s].priority <= task_pool[next_task'].priority
<1>1. IInv => Fair
  <2> SUFFICES ASSUME IInv, ~raced, Choose, NEW s \in Slot, Queued(s) \/ Expired(s)
               PROVE  task_pool[s].priority <= task_pool[next_task'].priority
    OBVIOUS
  <2> PICK on, rank : SchedulerInv(on, rank)
    BY DEF IInv
  <2>1. ~Expired(s)
    <3>1. pc = "scan" /\ s \in 1 .. scanned
      BY DEF Choose, Slot
    <3> QED  BY <3>1 DEF SchedulerInv, TasksPlaced, ScannedPlaced
  <2>2. s \in on /\ on \in SUBSET Slot
    BY <2>1, QueuedIsOn DEF SchedulerInv
  <2>3. PICK u \in on : next_task' = u /\ \A t \in on : PriorityOf[t] <= PriorityOf[u]
    BY ChoiceIs
  <2>4. PriorityOf[s] <= PriorityOf[u]
    BY <2>2, <2>3
  <2> QED  BY <2>2, <2>3, <2>4 DEF PriorityOf
<1> QED  BY <1>1, Invariance, PTL DEF Spec, HighestPriorityFirst

-----------------------------------------------------------------------------
(* What holds whatever is deleted, the task current_task points to included: *)
(* an id names one task, since ids are given and cleared under the mutex     *)
(* only; and, until a call overlaps the list work of run_once, every         *)
(* variable has its type, so that heads and links name slots of the pool.    *)

IdsDiffer ==
  \A s \in Slot : task_pool[s].id # 0 =>
    /\ task_pool[s].id < next_task_id
    /\ \A t \in Slot \ {s} : task_pool[t].id # task_pool[s].id

PoolInv ==
  /\ SchedulerTyped
  /\ ready_queue \in ListType
  /\ IdsDiffer

LEMMA AddIsTyped ==
  ASSUME NEW q \in ListType, NEW s \in Slot, NEW p \in Priority
  PROVE  AddToReadyQueue(q, s, p) \in ListType
BY NullIsNoSlot DEF ListType, AddToReadyQueue

LEMMA TakeIsTyped ==
  ASSUME NEW q \in ListType, NEW p \in Priority, q.head[p] # NULL
  PROVE  TakeFirst(q, p) \in ListType
BY DEF ListType, TakeFirst

LEMMA RemoveIsTyped ==
  ASSUME NEW q \in ListType, NEW s \in Slot, NEW p \in Priority
  PROVE  RemoveFromReadyQueue(q, s, p) \in ListType
BY DEF ListType, RemoveFromReadyQueue

LEMMA CountsAreNat ==
  ASSUME NEW n \in Nat
  PROVE  Up(n) \in Nat /\ Down(n) \in Nat
BY SchedulerAssumption DEF Up, Down

(* A step that changes no id keeps them different. *)
LEMMA SameIdsDiffer ==
  ASSUME PoolInv, UNCHANGED next_task_id,
         \A s \in Slot : task_pool'[s].id = task_pool[s].id
  PROVE  IdsDiffer'
BY DEF PoolInv, IdsDiffer

LEMMA RequeueIsTyped ==
  ASSUME PoolInv, current_task # NULL, NEW pool \in [Slot -> Tcb], NEW st \in Statistics,
         \A s \in Slot : pool[s].id = task_pool[s].id,
         Requeue(pool, st), UNCHANGED <<next_task_id, scheduler_time, scanned, next_task>>,
         pc' = pc \/ (pc = "slice" /\ pc' \in Resting), raced' \in BOOLEAN
  PROVE  PoolInv'
<1>1. current_task \in Slot /\ ready_queue \in ListType
  BY DEF PoolInv, SchedulerTyped
<1>2. PICK o : o = [pool[current_task] EXCEPT !.state = "ready"]
  OBVIOUS
<1>3. o \in Tcb /\ o.id = pool[current_task].id
  BY <1>1, <1>2, StateChange
<1>4. task_pool' = [pool EXCEPT ![current_task] = o]
  BY <1>1, <1>2 DEF Requeue
<1>5. /\ task_pool' \in [Slot -> Tcb]
      /\ \A s \in Slot : task_pool'[s].id = task_pool[s].id
  BY <1>1, <1>3, <1>4
<1>6. ready_queue' \in ListType
  <2>1. pool[current_task].priority \in Priority
    BY <1>1 DEF Tcb
  <2> QED  BY <1>1, <2>1, AddIsTyped DEF Requeue
<1>7. stats' \in Statistics
  <2>1. Up(st.ready_tasks) \in Nat
    BY CountsAreNat DEF Statistics
  <2> QED  BY <2>1 DEF Requeue, Statistics
<1>8. IdsDiffer'
  BY <1>5, SameIdsDiffer
<1>9. current_task' = NULL
  BY DEF Requeue
<1> QED  BY <1>5, <1>6, <1>7, <1>8, <1>9 DEF PoolInv, SchedulerTyped, AtWork, Resting

LEMMA CreateIsTyped ==
  ASSUME PoolInv, NEW p \in Priority, NEW returns \in BOOLEAN, CreateTask(p, returns)
  PROVE  PoolInv'
<1> PICK s : s = Lowest(FreeSlots)
  OBVIOUS
<1> PICK id : id = next_task_id
  OBVIOUS
<1> DEFINE q == [ready_queue EXCEPT !.next[s] = NULL, !.prev[s] = NULL]
<1>1. s \in Slot /\ task_pool[s].id = 0
  <2>1. FreeSlots # {} /\ FreeSlots \in SUBSET Slot
    BY DEF CreateTask, FreeSlots
  <2>2. s \in FreeSlots
    BY <2>1, LowestSlot
  <2> QED  BY <2>2 DEF FreeSlots
<1>2. /\ id \in Nat \ {0} /\ id <= MaxId /\ next_task_id' = id + 1
      /\ UNCHANGED <<current_task, scheduler_time, pc, scanned, next_task>>
      /\ raced' \in BOOLEAN
  BY DEF CreateTask, PoolInv, SchedulerTyped, OverlapsLists, run
<1>3. q \in ListType
  BY <1>1 DEF PoolInv, ListType
<1>4. PICK new : new = NewTask(p, returns)
  OBVIOUS
<1>5. new \in Tcb /\ new.id = id
  <2>1. Free \in Tcb
    <3>1. 0 \in Priority
      BY SchedulerAssumption DEF Priority
    <3> QED  BY <3>1 DEF Free, Tcb
  <2>2. new = [Free EXCEPT !.id = id, !.priority = p, !.returns = returns]
    BY <1>4 DEF NewTask
  <2> QED  BY <1>2, <2>1, <2>2 DEF Tcb
<1>6. PICK b \in BOOLEAN : b = TRUE
  OBVIOUS
<1>7. PICK o : /\ o \in Tcb /\ o.id = id
               /\ task_pool' = [task_pool EXCEPT ![s] = o]
               /\ \/ /\ ready_queue' = AddToReadyQueue(q, s, p)
                     /\ stats' = [stats EXCEPT !.total_tasks = Up(@), !.ready_tasks = Up(@)]
                  \/ ready_queue' = q /\ UNCHANGED stats
  <2>1. PICK stacked : stacked = [new EXCEPT !.has_stack = b]
    OBVIOUS
  <2>2. stacked \in Tcb /\ stacked.id = id
    BY <1>5, <2>1, StackChange
  <2>3. \/ /\ task_pool' = [task_pool EXCEPT ![s] = stacked]
           /\ ready_queue' = AddToReadyQueue(q, s, p)
           /\ stats' = [stats EXCEPT !.total_tasks = Up(@), !.ready_tasks = Up(@)]
        \/ /\ task_pool' = [task_pool EXCEPT ![s] = new]
           /\ ready_queue' = q
           /\ UNCHANGED stats
    BY <1>4, <1>6, <2>1 DEF CreateTask
  <2> HIDE DEF q
  <2> QED  BY <1>5, <2>2, <2>3
<1>8. task_pool' \in [Slot -> Tcb]
  BY <1>1, <1>7 DEF PoolInv, SchedulerTyped
<1>9. ready_queue' \in ListType
  BY <1>1, <1>3, <1>7, AddIsTyped
<1>10. stats' \in Statistics
  <2>1. stats \in Statistics
    BY DEF PoolInv, SchedulerTyped
  <2>2. Up(stats.total_tasks) \in Nat /\ Up(stats.ready_tasks) \in Nat
    BY <2>1, CountsAreNat DEF Statistics
  <2> QED  BY <1>7, <2>1, <2>2 DEF Statistics
<1>11. IdsDiffer'
  <2>1. task_pool'[s].id = id /\ \A t \in Slot \ {s} : task_pool'[t].id = task_pool[t].id
    BY <1>1, <1>7 DEF PoolInv, SchedulerTyped
  <2>2. \A t \in Slot : task_pool[t].id \in Nat /\ task_pool[t].id < id
    BY <1>2 DEF PoolInv, SchedulerTyped, IdsDiffer, Tcb
  <2>3. \A t \in Slot : task_pool[t].id # 0 =>
          \A u \in Slot \ {t} : task_pool[u].id # task_pool[t].id
    BY DEF PoolInv, IdsDiffer
  <2>4. ASSUME NEW t \in Slot, task_pool'[t].id # 0
        PROVE  task_pool'[t].id < id + 1
    BY <1>2, <2>1, <2>2
  <2>5. ASSUME NEW t \in Slot, task_pool'[t].id # 0, NEW u \in Slot \ {t}
        PROVE  task_pool'[u].id # task_pool'[t].id
    BY <1>2, <2>1, <2>2, <2>3, <2>5
  <2> QED  BY <1>2, <2>4, <2>5 DEF IdsDiffer
<1>12. /\ next_task_id' \in Nat \ {0} /\ next_task_id' <= MaxId + 1
  BY <1>2, SchedulerAssumption
<1> QED  BY <1>2, <1>8, <1>9, <1>10, <1>11, <1>12 DEF PoolInv, SchedulerTyped

LEMMA DeleteIsTyped ==
  ASSUME PoolInv, NEW id, DeleteTask(id)
  PROVE  PoolInv'
<1>1. PICK s \in Slot :
        /\ ready_queue' = IF task_pool[s].state = "ready"
                            THEN RemoveFromReadyQueue(ready_queue, s, task_pool[s].priority)
                            ELSE ready_queue
        /\ task_pool' = [task_pool EXCEPT ![s].has_stack = FALSE, ![s].state = "deleted",
                                          ![s].id = 0]
  BY DEF DeleteTask
<1>2. task_pool \in [Slot -> Tcb] /\ ready_queue \in ListType
  BY DEF PoolInv, SchedulerTyped
<1>3. PICK b \in BOOLEAN : b = FALSE
  OBVIOUS
<1>4. PICK o : o = [[[task_pool[s] EXCEPT !.has_stack = b] EXCEPT !.state = "deleted"] EXCEPT !.id = 0]
  OBVIOUS
<1>5. o \in Tcb /\ o.id = 0
  <2>1. PICK bare : bare = [task_pool[s] EXCEPT !.has_stack = b]
    OBVIOUS
  <2>2. bare \in Tcb
    BY <1>2, <2>1, StackChange
  <2>3. PICK gone : gone = [bare EXCEPT !.state = "deleted"]
    OBVIOUS
  <2>4. gone \in Tcb
    BY <2>2, <2>3, StateChange
  <2>5. o = [gone EXCEPT !.id = 0]
    BY <1>4, <2>1, <2>3
  <2> QED  BY <2>4, <2>5, IdChange
<1>6. task_pool' = [task_pool EXCEPT ![s] = o]
  BY <1>1, <1>2, <1>3, <1>4
<1>7. /\ task_pool' \in [Slot -> Tcb] /\ task_pool'[s].id = 0
      /\ \A t \in Slot \ {s} : task_pool'[t].id = task_pool[t].id
  BY <1>2, <1>5, <1>6
<1>8. ready_queue' \in ListType
  <2>1. task_pool[s].priority \in Priority
    BY <1>2 DEF Tcb
  <2> QED  BY <1>1, <1>2, <2>1, RemoveIsTyped
<1>9. stats' \in Statistics
  <2>1. stats \in Statistics
    BY DEF PoolInv, SchedulerTyped
  <2>2. Down(stats.total_tasks) \in Nat
    BY <2>1, CountsAreNat DEF Statistics
  <2>3. stats' = [stats EXCEPT !.total_tasks = Down(@)]
    BY DEF DeleteTask
  <2> QED  BY <2>1, <2>2, <2>3 DEF Statistics
<1>10. /\ UNCHANGED <<current_task, next_task_id, scheduler_time, pc, scanned, next_task>>
       /\ raced' \in BOOLEAN
  BY DEF DeleteTask, Overlaps, run
<1>11. IdsDiffer'
  <2>1. \A t \in Slot : task_pool[t].id # 0 =>
          /\ task_pool[t].id < next_task_id
          /\ \A u \in Slot \ {t} : task_pool[u].id # task_pool[t].id
    BY DEF PoolInv, IdsDiffer
  <2> QED  BY <1>7, <1>10, <2>1 DEF IdsDiffer
<1> QED  BY <1>7, <1>8, <1>9, <1>10, <1>11 DEF PoolInv, SchedulerTyped

LEMMA DelayIsTyped ==
  ASSUME PoolInv, NEW ms \in Nat, Delay(ms)
  PROVE  PoolInv'
<1> DEFINE pool == [task_pool EXCEPT ![current_task].state = "blocked",
                                     ![current_task].timeout = scheduler_time + ms]
           st == [stats EXCEPT !.blocked_tasks = Up(@)]
<1>1. /\ current_task \in Slot /\ current_task # NULL /\ task_pool \in [Slot -> Tcb]
      /\ UNCHANGED <<next_task_id, scheduler_time, pc, scanned, next_task>>
      /\ stats \in Statistics /\ raced' \in BOOLEAN
      /\ scheduler_time + ms \in Nat
  BY DEF PoolInv, SchedulerTyped, Delay, Overlaps, run
<1>2. /\ pool \in [Slot -> Tcb]
      /\ \A s \in Slot : pool[s].id = task_pool[s].id
  <2>1. PICK time \in Nat : time = scheduler_time + ms
    BY <1>1
  <2>2. PICK o : o = [[task_pool[current_task] EXCEPT !.state = "blocked"] EXCEPT !.timeout = time]
    OBVIOUS
  <2>3. o \in Tcb /\ o.id = task_pool[current_task].id
    <3>1. PICK blocked : blocked = [task_pool[current_task] EXCEPT !.state = "blocked"]
      OBVIOUS
    <3>2. blocked \in Tcb /\ blocked.id = task_pool[current_task].id
      BY <1>1, <3>1, StateChange
    <3>3. o = [blocked EXCEPT !.timeout = time]
      BY <2>2, <3>1
    <3> QED  BY <2>1, <3>2, <3>3, TimeoutChange
  <2>4. pool = [task_pool EXCEPT ![current_task] = o]
    BY <1>1, <2>1, <2>2
  <2> QED  BY <1>1, <2>3, <2>4
<1>3. st \in Statistics
  <2>1. Up(stats.blocked_tasks) \in Nat
    BY <1>1, CountsAreNat DEF Statistics
  <2> QED  BY <1>1, <2>1 DEF Statistics
<1>4. \/ Requeue(pool, st)
      \/ task_pool' = pool /\ stats' = st /\ UNCHANGED <<ready_queue, current_task>>
  BY DEF Delay
<1> HIDE DEF pool, st
<1>5. CASE Requeue(pool, st)
  BY <1>1, <1>2, <1>3, <1>5, RequeueIsTyped
<1>6. CASE task_pool' = pool /\ stats' = st /\ UNCHANGED <<ready_queue, current_task>>
  <2>1. IdsDiffer'
    BY <1>1, <1>2, <1>6, SameIdsDiffer
  <2> QED  BY <1>1, <1>2, <1>3, <1>6, <2>1 DEF PoolInv, SchedulerTyped
<1> QED  BY <1>4, <1>5, <1>6

LEMMA ScanIsTyped ==
  ASSUME PoolInv, ScanSlot
  PROVE  PoolInv'
<1> PICK s : s = scanned + 1
  OBVIOUS
<1>1. /\ s \in Slot /\ scanned' = s /\ scanned' \in 0 .. MaxTasks /\ pc = "scan"
      /\ UNCHANGED <<current_task, next_task_id, scheduler_time, pc, next_task, raced>>
  BY SchedulerAssumption DEF ScanSlot, Slot, PoolInv, SchedulerTyped
<1>2. task_pool \in [Slot -> Tcb] /\ ready_queue \in ListType /\ stats \in Statistics
  BY DEF PoolInv, SchedulerTyped
<1>3. CASE Expired(s)
  <2>1. /\ task_pool' = [task_pool EXCEPT ![s].state = "ready"]
        /\ ready_queue' = AddToReadyQueue(ready_queue, s, task_pool[s].priority)
        /\ stats' = [stats EXCEPT !.ready_tasks = Up(@), !.blocked_tasks = Down(@)]
    BY <1>3 DEF ScanSlot
  <2>2. PICK r : r = [task_pool[s] EXCEPT !.state = "ready"]
    OBVIOUS
  <2>3. r \in Tcb /\ r.id = task_pool[s].id
    BY <1>1, <1>2, <2>2, StateChange
  <2>4. task_pool' = [task_pool EXCEPT ![s] = r]
    BY <2>1, <2>2
  <2>5. /\ task_pool' \in [Slot -> Tcb] /\ task_pool'[s] = r
        /\ \A u \in Slot \ {s} : task_pool'[u] = task_pool[u]
    BY <1>1, <1>2, <2>3, <2>4, OneChanged
  <2>6. \A u \in Slot : task_pool'[u].id = task_pool[u].id
    BY <2>3, <2>5
  <2>7. ready_queue' \in ListType
    <3>1. task_pool[s].priority \in Priority
      BY <1>1, <1>2 DEF Tcb
    <3> QED  BY <1>1, <1>2, <2>1, <3>1, AddIsTyped
  <2>8. stats' \in Statistics
    <3>1. Up(stats.ready_tasks) \in Nat /\ Down(stats.blocked_tasks) \in Nat
      BY <1>2, CountsAreNat DEF Statistics
    <3> QED  BY <1>2, <2>1, <3>1 DEF Statistics
  <2>9. IdsDiffer'
    BY <1>1, <2>6, SameIdsDiffer
  <2> QED  BY <1>1, <2>5, <2>7, <2>8, <2>9 DEF PoolInv, SchedulerTyped
<1>4. CASE ~Expired(s)
  <2>1. UNCHANGED <<task_pool, ready_queue, stats>>
    BY <1>4 DEF ScanSlot
  <2> QED  BY <1>1, <2>1 DEF PoolInv, SchedulerTyped, IdsDiffer
<1> QED  BY <1>3, <1>4

LEMMA ChooseIsTyped ==
  ASSUME PoolInv, Choose
  PROVE  PoolInv'
<1> DEFINE p == MostUrgent(Fronts)
<1>1. /\ pc' = "switch" /\ scanned' = 0 /\ next_task' = ready_queue.head[p]
      /\ ready_queue' = TakeFirst(ready_queue, p)
      /\ stats' = [stats EXCEPT !.ready_tasks = Down(@)]
      /\ UNCHANGED <<task_pool, current_task, next_task_id, scheduler_time, raced>>
  BY DEF Choose
<1>2. p \in Fronts
  <2>1. Fronts \in SUBSET Priority /\ Fronts # {}
    BY DEF Fronts, Choose
  <2> QED  BY <2>1, MostUrgentIs
<1> HIDE DEF p
<1>3. p \in Priority /\ ready_queue.head[p] # NULL /\ ready_queue \in ListType
      /\ stats \in Statistics
  BY <1>2 DEF Fronts, PoolInv, SchedulerTyped
<1>4. next_task' \in Slot
  BY <1>1, <1>3 DEF ListType
<1>5. ready_queue' \in ListType
  BY <1>1, <1>3, TakeIsTyped
<1>6. stats' \in Statistics
  <2>1. Down(stats.ready_tasks) \in Nat
    BY <1>3, CountsAreNat DEF Statistics
  <2> QED  BY <1>1, <1>3, <2>1 DEF Statistics
<1>7. IdsDiffer'
  BY <1>1 DEF PoolInv, IdsDiffer
<1> QED  BY <1>1, <1>4, <1>5, <1>6, <1>7, NullIsNoSlot, SchedulerAssumption
         DEF PoolInv, SchedulerTyped, AtWork

LEMMA SwitchIsTyped ==
  ASSUME PoolInv, Switch
  PROVE  PoolInv'
<1> PICK s : s = next_task
  OBVIOUS
<1> PICK pool : pool = task_pool'
  OBVIOUS
<1>1. /\ pc = "switch" /\ pc' \in {"entry", "hung"} /\ current_task' = s /\ next_task' = NULL
      /\ UNCHANGED <<ready_queue, stats, next_task_id, scheduler_time, scanned, raced>>
  BY DEF Switch
<1>2. task_pool \in [Slot -> Tcb] /\ current_task \in Slot \cup {NULL} /\ s \in Slot
  BY <1>1 DEF PoolInv, SchedulerTyped
<1>3. SwitchedTo(pool, s)
  BY DEF Switch, SwitchedTo, Preempted
<1>4. pool \in [Slot -> Tcb] /\ \A u \in Slot : pool[u].id = task_pool[u].id
  BY <1>2, <1>3, SwitchedPool DEF OnlyRuns
<1>5. IdsDiffer'
  BY <1>1, <1>4, SameIdsDiffer
<1> QED  BY <1>1, <1>2, <1>4, <1>5 DEF PoolInv, SchedulerTyped, AtWork, Resting

LEMMA StepIsTyped == PoolInv /\ [Next]_vars => PoolInv'
<1> SUFFICES ASSUME PoolInv, [Next]_vars PROVE PoolInv'
  OBVIOUS
<1>1. task_pool \in [Slot -> Tcb] /\ stats \in Statistics
  BY DEF PoolInv, SchedulerTyped
<1>2. ASSUME NEW p \in Priority, NEW returns \in EntryKinds, CreateTask(p, returns) PROVE PoolInv'
  <2>1. returns \in BOOLEAN
    BY SchedulerAssumption
  <2> QED  BY <1>2, <2>1, CreateIsTyped
<1>3. ASSUME NEW id \in DeleteIds, DeleteTask(id) PROVE PoolInv'
  BY <1>3, DeleteIsTyped
<1>4. CASE Yield
  <2>1. /\ Requeue(task_pool, stats) /\ current_task # NULL /\ raced' \in BOOLEAN
        /\ UNCHANGED <<next_task_id, scheduler_time, pc, scanned, next_task>>
    BY <1>4 DEF Yield, Overlaps, run
  <2> QED  BY <1>1, <2>1, RequeueIsTyped
<1>5. ASSUME NEW ms \in 1 .. MaxDelay, Delay(ms) PROVE PoolInv'
  <2>1. ms \in Nat
    OBVIOUS
  <2> QED  BY <1>5, <2>1, DelayIsTyped
<1>6. CASE ScanSlot
  BY <1>6, ScanIsTyped
<1>7. CASE Choose
  BY <1>7, ChooseIsTyped
<1>8. CASE Switch
  BY <1>8, SwitchIsTyped
<1>9. CASE EndSlice
  <2>1. /\ pc = "slice" /\ pc' \in Resting /\ raced' \in BOOLEAN
        /\ UNCHANGED <<next_task_id, scheduler_time, scanned, next_task>>
    BY <1>9 DEF EndSlice, Resting, PoolInv, SchedulerTyped
  <2>2. CASE current_task # NULL
    <3>1. Requeue(task_pool, stats)
      BY <1>9, <2>2 DEF EndSlice
    <3> QED  BY <1>1, <2>1, <2>2, <3>1, RequeueIsTyped
  <2>3. CASE current_task = NULL
    <3>1. UNCHANGED <<task_pool, ready_queue, current_task, stats>>
      BY <1>9, <2>3 DEF EndSlice, lists
    <3> QED  BY <2>1, <3>1 DEF PoolInv, SchedulerTyped, IdsDiffer, Resting
  <2> QED  BY <2>2, <2>3
<1>10. ASSUME BeginRun \/ FindNone \/ EntryReturns PROVE PoolInv'
  <2>1. /\ UNCHANGED <<task_pool, ready_queue, current_task, stats, next_task_id, next_task, raced>>
        /\ scheduler_time' \in Nat /\ scanned' = 0 /\ next_task = NULL
        /\ pc' \in {"loop", "scan", "crashed", "slice"}
    BY <1>10, SchedulerAssumption
    DEF BeginRun, FindNone, EntryReturns, lists, PoolInv, SchedulerTyped
  <2> QED  BY <2>1, SchedulerAssumption
           DEF PoolInv, SchedulerTyped, IdsDiffer, AtWork, Resting
<1>11. CASE UNCHANGED vars
  BY <1>11 DEF PoolInv, SchedulerTyped, IdsDiffer, vars, lists, run
<1> QED
  BY <1>2, <1>3, <1>4, <1>5, <1>6, <1>7, <1>8, <1>9, <1>10, <1>11 DEF Next

LEMMA InitIsTyped == Init => PoolInv
<1> SUFFICES ASSUME Init PROVE PoolInv
  OBVIOUS
<1>1. \E on, rank : SchedulerInv(on, rank)
  BY InitHolds
<1>2. SchedulerTyped /\ ready_queue \in ListType
  BY <1>1 DEF SchedulerInv, Lists
<1>3. \A s \in Slot : task_pool[s].id = IF s = 1 THEN 1 ELSE 0
  BY DEF Init, Free
<1>4. next_task_id = 2
  BY DEF Init
<1> QED  BY <1>2, <1>3, <1>4 DEF PoolInv, IdsDiffer

(* Whatever is created, deleted, delayed and run, in any order and however   *)
(* the calls overlap run_once: no two tasks share an id, so that             *)
(* scheduler_delete_task finds the task it was asked for.  Until such an     *)
(* overlap the heads of the lists, their links and current_task name slots   *)
(* of the pool or nothing, even when the task last run is deleted.           *)
THEOREM LinksStayInThePool ==
  Spec => [](IdsDiffer /\ (~raced => SchedulerTyped /\ ready_queue \in ListType))
<1>1. PoolInv => IdsDiffer /\ (~raced => SchedulerTyped /\ ready_queue \in ListType)
  BY DEF PoolInv
<1> QED  BY <1>1, InitIsTyped, StepIsTyped, PTL DEF Spec

=============================================================================
