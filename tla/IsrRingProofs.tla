--------------------------- MODULE IsrRingProofs ---------------------------
(***************************************************************************)
(* Proofs about the ISR ring, for every ring size and every set of events: *)
(* its type invariant, the stability of the unlocked read, and that it     *)
(* implements the lossy FIFO.                                              *)
(***************************************************************************)
EXTENDS IsrRing, SequenceTheorems, TLAPS

(* The index arithmetic of the ring: (i + 1) % ISR_QUEUE_SIZE either steps  *)
(* to the next slot or wraps to the first one (lines 298 and 351).          *)
LEMMA NextSlotValue ==
  ASSUME NEW i \in Slots
  PROVE  /\ NextSlot(i) = IF i + 1 = Size THEN 0 ELSE i + 1
         /\ NextSlot(i) \in Slots
<1>1. CASE i + 1 = Size
  <2>1. Size % Size = 0
    BY RingAssumption
  <2>. QED BY <1>1, <2>1, RingAssumption DEF NextSlot, Slots
<1>2. CASE i + 1 # Size
  <2>1. i + 1 \in 0 .. Size - 1
    BY <1>2, RingAssumption DEF Slots
  <2>2. (i + 1) % Size = i + 1
    BY <2>1, RingAssumption
  <2>. QED BY <1>2, <2>1, <2>2, RingAssumption DEF NextSlot, Slots
<1>. QED BY <1>1, <1>2

-----------------------------------------------------------------------------
(* Type correctness: head and tail never leave the ring, whatever the       *)
(* interleaving of interrupt handlers and the main loop (lines 293-311 and  *)
(* 341-364 of interrupt/interrupt_handler.c).                               *)
LEMMA TypeStep ==
  ASSUME TypeOK, [Next]_vars
  PROVE  TypeOK'
<1>1. ASSUME NEW e \in Event, Push(e), UNCHANGED pc
      PROVE  TypeOK'
  <2>1. NextSlot(isr_queue_head) \in Slots
    BY NextSlotValue DEF TypeOK
  <2>2. CASE Enqueue(e)
    BY <1>1, <2>1, <2>2 DEF Push, Enqueue, TypeOK
  <2>3. CASE Miss
    BY <1>1, <2>3, RingAssumption DEF Push, Miss, TypeOK
  <2>. QED BY <1>1, <2>2, <2>3 DEF Push
<1>2. CASE TakeSem
  BY <1>2 DEF TakeSem, TypeOK
<1>3. CASE CheckRing
  BY <1>3 DEF CheckRing, TypeOK, ringVars
<1>4. CASE CopyEvent
  BY <1>4 DEF CopyEvent, TypeOK
<1>5. CASE AdvanceTail
  <2>1. NextSlot(isr_queue_tail) \in Slots
    BY NextSlotValue DEF TypeOK
  <2>. QED BY <1>5, <2>1 DEF AdvanceTail, TypeOK
<1>6. CASE GiveSem
  BY <1>6 DEF GiveSem, TypeOK
<1>7. CASE Loop
  BY <1>7 DEF Loop, TypeOK, ringVars
<1>8. CASE UNCHANGED vars
  BY <1>8 DEF vars, ringVars, TypeOK
<1>. QED
  BY <1>1, <1>2, <1>3, <1>4, <1>5, <1>6, <1>7, <1>8 DEF Next, GetFromRing

LEMMA TypeInit == Init => TypeOK
  BY RingAssumption DEF Init, RingInit, TypeOK, Slots

(* Head and tail stay inside the ring and every slot holds an event or      *)
(* nothing, in every reachable state of interrupt/interrupt_handler.c's     *)
(* ISR queue.                                                               *)
THEOREM TypeCorrect == Spec => []TypeOK
<1>1. Init => TypeOK
  BY TypeInit
<1>2. TypeOK /\ [Next]_vars => TypeOK'
  BY TypeStep
<1>. QED BY <1>1, <1>2, PTL DEF Spec

-----------------------------------------------------------------------------
(* The read of the oldest event is stable.  The invariant is inductive once *)
(* the types are known: an ISR moves the head only to a slot that is not    *)
(* the tail, and writes only the slot at the head.                          *)
LEMMA ReadStep ==
  ASSUME TypeOK, ReadIsStable, [Next]_vars
  PROVE  ReadIsStable'
<1>1. ASSUME NEW e \in Event, Push(e), UNCHANGED pc
      PROVE  ReadIsStable'
  <2>2. CASE Enqueue(e)
    BY <1>1, <2>2 DEF Push, Enqueue, ReadIsStable, TypeOK
  <2>3. CASE Miss
    BY <1>1, <2>3 DEF Push, Miss, ReadIsStable
  <2>. QED BY <1>1, <2>2, <2>3 DEF Push
<1>2. CASE TakeSem
  BY <1>2 DEF TakeSem, ReadIsStable
<1>3. CASE CheckRing
  BY <1>3 DEF CheckRing, ReadIsStable, ringVars
<1>4. CASE CopyEvent
  BY <1>4 DEF CopyEvent, ReadIsStable
<1>5. CASE AdvanceTail
  BY <1>5 DEF AdvanceTail, ReadIsStable
<1>6. CASE GiveSem
  BY <1>6 DEF GiveSem, ReadIsStable
<1>7. CASE Loop
  BY <1>7 DEF Loop, ReadIsStable, ringVars
<1>8. CASE UNCHANGED vars
  BY <1>8 DEF vars, ringVars, ReadIsStable
<1>. QED
  BY <1>1, <1>2, <1>3, <1>4, <1>5, <1>6, <1>7, <1>8 DEF Next, GetFromRing

(* The unlocked copy `*event = isr_queue[isr_queue_tail]' of line 350 and   *)
(* the update of the tail that follows it see the same, oldest event.       *)
THEOREM ReadStable == Spec => []ReadIsStable
<1>1. Init => ReadIsStable
  BY DEF Init, RingInit, ReadIsStable
<1>2. TypeOK /\ ReadIsStable /\ [Next]_vars => ReadIsStable'
  BY ReadStep
<1>. QED BY <1>1, <1>2, TypeCorrect, PTL DEF Spec

-----------------------------------------------------------------------------
(* The semaphore is given on every path out of interrupt_get_event and the  *)
(* ISR can only give it, so it is free when the main loop comes back.       *)
SemInv == pc \in {"get", "ok", "regular"} => isr_queue_sem = 1

LEMMA SemStep ==
  ASSUME SemInv, [Next]_vars
  PROVE  SemInv'
<1>1. ASSUME NEW e \in Event, Push(e), UNCHANGED pc
      PROVE  SemInv'
  BY <1>1 DEF Push, Enqueue, Miss, SemInv
<1>2. CASE GetFromRing
  BY <1>2 DEF GetFromRing, TakeSem, CheckRing, CopyEvent, AdvanceTail, GiveSem,
              ringVars, SemInv
<1>3. CASE Loop
  BY <1>3 DEF Loop, ringVars, SemInv
<1>4. CASE UNCHANGED vars
  BY <1>4 DEF vars, ringVars, SemInv
<1>. QED BY <1>1, <1>2, <1>3, <1>4 DEF Next

(* interrupt_get_event never gives up on the ISR queue because its          *)
(* semaphore is taken (line 348).                                           *)
THEOREM RingNeverSkipped == Spec => []NeverSkipped
<1>1. Init => SemInv
  BY DEF Init, RingInit, SemInv
<1>2. SemInv /\ [Next]_vars => SemInv'
  BY SemStep
<1>3. SemInv => NeverSkipped
  BY DEF SemInv, NeverSkipped
<1>. QED BY <1>1, <1>2, <1>3, PTL DEF Spec

-----------------------------------------------------------------------------
(* Facts about the abstract contents of the ring.                           *)
LEMMA CountValue ==
  ASSUME TypeOK
  PROVE  /\ Count \in 0 .. Size - 1
         /\ Count = 0 <=> isr_queue_head = isr_queue_tail
         /\ Count = Size - 1 <=> NextSlot(isr_queue_head) = isr_queue_tail
         /\ \A k \in 0 .. Count : SlotFromTail(k) \in Slots
<1>1. NextSlot(isr_queue_head) = IF isr_queue_head + 1 = Size THEN 0 ELSE isr_queue_head + 1
  BY NextSlotValue DEF TypeOK
<1>. QED BY <1>1, RingAssumption DEF TypeOK, Count, Slots, SlotFromTail

LEMMA ContentsValue ==
  ASSUME TypeOK
  PROVE  /\ Contents \in Seq(Event \cup {NoEvent})
         /\ Len(Contents) = Count
         /\ \A k \in 1 .. Count : Contents[k] = isr_queue[SlotFromTail(k - 1)]
<1>1. \A k \in 1 .. Count : k - 1 \in 0 .. Count
  BY CountValue, RingAssumption
<1>2. \A k \in 1 .. Count : isr_queue[SlotFromTail(k - 1)] \in Event \cup {NoEvent}
  BY <1>1, CountValue DEF TypeOK
<1>. QED BY <1>2, CountValue, RingAssumption DEF Contents

(* Storing an event at the head appends it to the contents.                 *)
LEMMA EnqueueAppends ==
  ASSUME TypeOK, NEW e \in Event, Enqueue(e), UNCHANGED isr_queue_tail
  PROVE  /\ Count < Size - 1
         /\ Count' = Count + 1
         /\ Contents' = Append(Contents, e)
<1>1. NextSlot(isr_queue_head) = IF isr_queue_head + 1 = Size THEN 0 ELSE isr_queue_head + 1
  BY NextSlotValue DEF TypeOK
<1>2. Count < Size - 1
  BY CountValue, RingAssumption DEF Enqueue
<1>3. Count' = Count + 1
  BY <1>1, <1>2, RingAssumption DEF TypeOK, Enqueue, Count, Slots
<1>4. SlotFromTail(Count) = isr_queue_head
  BY RingAssumption DEF TypeOK, Count, SlotFromTail, Slots
<1>5. \A k \in 0 .. Count - 1 : SlotFromTail(k) # isr_queue_head
  BY RingAssumption DEF TypeOK, Count, SlotFromTail, Slots
<1>6. Contents' = [k \in 1 .. Count + 1 |-> isr_queue'[SlotFromTail(k - 1)]]
  BY <1>3 DEF Contents, SlotFromTail
<1>7. \A k \in 1 .. Count : isr_queue'[SlotFromTail(k - 1)] = Contents[k]
  <2>1. SUFFICES ASSUME NEW k \in 1 .. Count
                 PROVE  isr_queue'[SlotFromTail(k - 1)] = Contents[k]
    OBVIOUS
  <2>2. k - 1 \in 0 .. Count - 1
    BY CountValue, RingAssumption
  <2>3. SlotFromTail(k - 1) \in Slots
    BY <2>2, CountValue
  <2>. QED BY <2>2, <2>3, <1>5, ContentsValue DEF Enqueue, TypeOK
<1>8. isr_queue'[SlotFromTail(Count)] = e
  BY <1>4 DEF Enqueue, TypeOK
<1>9. Count \in Nat
  BY CountValue, RingAssumption
<1>10. /\ Contents' \in Seq(Event \cup {NoEvent})
       /\ Len(Contents') = Count + 1
       /\ \A k \in 1 .. Count : Contents'[k] = Contents[k]
       /\ Contents'[Count + 1] = e
  <2>1. \A k \in 1 .. Count + 1 : isr_queue'[SlotFromTail(k - 1)] \in Event \cup {NoEvent}
    <3>1. \A k \in 1 .. Count : Contents[k] \in Event \cup {NoEvent}
      BY ContentsValue, <1>9
    <3>. QED BY <1>7, <1>8, <1>9, <3>1
  <2>. DEFINE f == [k \in 1 .. Count + 1 |-> isr_queue'[SlotFromTail(k - 1)]]
  <2>2. f \in Seq(Event \cup {NoEvent}) /\ Len(f) = Count + 1
    <3>1. f \in [1 .. Count + 1 -> Event \cup {NoEvent}]
      BY <2>1
    <3>. HIDE DEF f
    <3>. QED BY <1>9, <3>1
  <2>3. /\ \A k \in 1 .. Count : f[k] = Contents[k]
        /\ f[Count + 1] = e
    BY <1>7, <1>8, <1>9
  <2>4. Contents' = f
    BY <1>6
  <2>. HIDE DEF f
  <2>. QED BY <2>2, <2>3, <2>4
<1>. QED
  <2>1. Append(Contents, e) \in Seq(Event \cup {NoEvent})
    BY ContentsValue
  <2>2. Len(Append(Contents, e)) = Count + 1
    BY ContentsValue
  <2>3. \A k \in 1 .. Count + 1 : Contents'[k] = Append(Contents, e)[k]
    BY <1>9, <1>10, ContentsValue
  <2>. QED BY <1>2, <1>3, <1>10, <2>1, <2>2, <2>3, SeqEqual

(* Advancing the tail of a non-empty ring removes the oldest event.         *)
LEMMA AdvanceRemoves ==
  ASSUME TypeOK, isr_queue_head # isr_queue_tail, AdvanceTail
  PROVE  /\ Count' = Count - 1
         /\ Contents # <<>>
         /\ Head(Contents) = isr_queue[isr_queue_tail]
         /\ Contents' = Tail(Contents)
<1>1. NextSlot(isr_queue_tail) = IF isr_queue_tail + 1 = Size THEN 0 ELSE isr_queue_tail + 1
  BY NextSlotValue DEF TypeOK
<1>2. Count \in 1 .. Size - 1
  BY CountValue, RingAssumption
<1>3. Count' = Count - 1
  BY <1>1, <1>2, RingAssumption DEF TypeOK, AdvanceTail, Count, Slots
<1>4. \A k \in 0 .. Count - 2 : SlotFromTail(k)' = SlotFromTail(k + 1)
  BY <1>1, <1>2, RingAssumption DEF TypeOK, AdvanceTail, Count, SlotFromTail, Slots
<1>5. SlotFromTail(0) = isr_queue_tail
  BY RingAssumption DEF TypeOK, SlotFromTail, Slots
<1>6. Contents' = [k \in 1 .. Count - 1 |-> isr_queue[SlotFromTail(k - 1)']]
  BY <1>3 DEF Contents, AdvanceTail
<1>7. \A k \in 1 .. Count - 1 : isr_queue[SlotFromTail(k - 1)'] = Contents[k + 1]
  <2>1. SUFFICES ASSUME NEW k \in 1 .. Count - 1
                 PROVE  isr_queue[SlotFromTail(k - 1)'] = Contents[k + 1]
    OBVIOUS
  <2>2. k - 1 \in 0 .. Count - 2 /\ k + 1 \in 1 .. Count /\ (k - 1) + 1 = k /\ (k + 1) - 1 = k
    BY <1>2, RingAssumption
  <2>3. SlotFromTail(k - 1)' = SlotFromTail(k)
    BY <1>4, <2>2
  <2>. QED BY <2>2, <2>3, ContentsValue
<1>8. Contents[1] = isr_queue[isr_queue_tail]
  BY <1>2, <1>5, ContentsValue, RingAssumption
<1>9. Count \in Nat /\ Count >= 1
  BY <1>2, RingAssumption
<1>10. /\ Contents # <<>>
       /\ Head(Contents) = isr_queue[isr_queue_tail]
  BY <1>8, <1>9, ContentsValue
<1>11. /\ Contents' \in Seq(Event \cup {NoEvent})
       /\ Len(Contents') = Count - 1
       /\ \A k \in 1 .. Count - 1 : Contents'[k] = Contents[k + 1]
  <2>1. \A k \in 1 .. Count - 1 : isr_queue[SlotFromTail(k - 1)'] \in Event \cup {NoEvent}
    BY <1>7, <1>9, ContentsValue
  <2>2. Count - 1 \in Nat
    BY <1>9
  <2>. DEFINE f == [k \in 1 .. Count - 1 |-> isr_queue[SlotFromTail(k - 1)']]
  <2>4. f \in Seq(Event \cup {NoEvent}) /\ Len(f) = Count - 1
    <3>1. f \in [1 .. Count - 1 -> Event \cup {NoEvent}]
      BY <2>1
    <3>. HIDE DEF f
    <3>. QED BY <2>2, <3>1
  <2>5. \A k \in 1 .. Count - 1 : f[k] = Contents[k + 1]
    BY <1>7
  <2>6. Contents' = f
    BY <1>6
  <2>. HIDE DEF f
  <2>. QED BY <2>4, <2>5, <2>6
<1>. QED
  <2>1. /\ Tail(Contents) \in Seq(Event \cup {NoEvent})
        /\ Len(Tail(Contents)) = Count - 1
        /\ \A k \in 1 .. Count - 1 : Tail(Contents)[k] = Contents[k + 1]
    BY <1>9, <1>10, ContentsValue
  <2>. QED BY <1>3, <1>10, <1>11, <2>1, SeqEqual

-----------------------------------------------------------------------------
(* The invariant the refinement rests on: the read is stable and what lies  *)
(* between tail and head was queued by an ISR.                              *)
RingInv == TypeOK /\ ReadIsStable /\ OnlyQueuedEventsAreRead

LEMMA ContentsUnchanged ==
  ASSUME UNCHANGED <<isr_queue, isr_queue_head, isr_queue_tail>>
  PROVE  Count' = Count /\ Contents' = Contents
  BY DEF Contents, Count, SlotFromTail

LEMMA QueuedStep ==
  ASSUME RingInv, [Next]_vars
  PROVE  OnlyQueuedEventsAreRead'
<1>0. TypeOK' /\ TypeOK /\ ReadIsStable
  BY TypeStep DEF RingInv
<1>c. Count \in Nat /\ Len(Contents) = Count
  BY <1>0, CountValue, ContentsValue, RingAssumption
<1>1. ASSUME NEW e \in Event, Push(e), UNCHANGED pc
      PROVE  OnlyQueuedEventsAreRead'
  <2>1. CASE Enqueue(e)
    <3>1. Contents' = Append(Contents, e) /\ Count' = Count + 1
      BY <1>0, <1>1, <2>1, EnqueueAppends DEF Push
    <3>2. Contents \in Seq(Event \cup {NoEvent})
      BY <1>0, ContentsValue
    <3>3. \A k \in 1 .. Count' : Contents'[k] \in Event
      BY <1>c, <3>1, <3>2 DEF RingInv, OnlyQueuedEventsAreRead
    <3>. QED BY <1>1, <3>3 DEF Push, RingInv, OnlyQueuedEventsAreRead
  <2>2. CASE Miss
    BY <1>1, <2>2, ContentsUnchanged DEF Push, Miss, RingInv, OnlyQueuedEventsAreRead
  <2>. QED BY <1>1, <2>1, <2>2 DEF Push
<1>2. CASE TakeSem
  BY <1>2, ContentsUnchanged DEF TakeSem, RingInv, OnlyQueuedEventsAreRead
<1>3. CASE CheckRing
  BY <1>3, ContentsUnchanged DEF CheckRing, ringVars, RingInv, OnlyQueuedEventsAreRead
<1>4. CASE CopyEvent
  <2>1. isr_queue_head # isr_queue_tail
    BY <1>0, <1>4 DEF ReadIsStable, CopyEvent
  <2>2. 1 \in 1 .. Count /\ SlotFromTail(0) = isr_queue_tail
    BY <1>0, <2>1, CountValue, RingAssumption DEF SlotFromTail, TypeOK, Slots
  <2>3. isr_queue[isr_queue_tail] \in Event
    BY <1>0, <2>2, ContentsValue DEF RingInv, OnlyQueuedEventsAreRead
  <2>. QED BY <1>4, <2>3, ContentsUnchanged DEF CopyEvent, RingInv, OnlyQueuedEventsAreRead
<1>5. CASE AdvanceTail
  <2>1. Contents' = Tail(Contents) /\ Contents # <<>> /\ Count' = Count - 1
    BY <1>0, <1>5, AdvanceRemoves DEF ReadIsStable, AdvanceTail
  <2>2. Contents \in Seq(Event \cup {NoEvent})
    BY <1>0, ContentsValue
  <2>3. \A k \in 1 .. Count' : Contents'[k] \in Event
    BY <1>c, <2>1, <2>2 DEF RingInv, OnlyQueuedEventsAreRead
  <2>. QED BY <1>5, <2>3 DEF AdvanceTail, RingInv, OnlyQueuedEventsAreRead
<1>6. CASE GiveSem
  BY <1>6, ContentsUnchanged DEF GiveSem, RingInv, OnlyQueuedEventsAreRead
<1>7. CASE Loop
  BY <1>7, ContentsUnchanged DEF Loop, ringVars, RingInv, OnlyQueuedEventsAreRead
<1>8. CASE UNCHANGED vars
  BY <1>8, ContentsUnchanged DEF vars, ringVars, RingInv, OnlyQueuedEventsAreRead
<1>. QED
  BY <1>1, <1>2, <1>3, <1>4, <1>5, <1>6, <1>7, <1>8 DEF Next, GetFromRing

LEMMA RingInvInit == Init => RingInv
<1>. SUFFICES ASSUME Init
              PROVE  RingInv
  OBVIOUS
<1>1. TypeOK
  BY TypeInit
<1>2. Count = 0
  BY <1>1, CountValue DEF Init, RingInit
<1>. QED BY <1>1, <1>2 DEF RingInv, ReadIsStable, OnlyQueuedEventsAreRead, Init, RingInit

(* The main loop only ever receives events that an ISR queued: neither the  *)
(* zeroed slots of start-up nor a slot already read (lines 348-352).        *)
THEOREM RingInvariant == Spec => []RingInv
<1>1. RingInv /\ [Next]_vars => RingInv'
  <2>1. ASSUME RingInv, [Next]_vars
        PROVE  RingInv'
    <3>1. TypeOK'
      BY <2>1, TypeStep DEF RingInv
    <3>2. ReadIsStable'
      BY <2>1, ReadStep DEF RingInv
    <3>3. OnlyQueuedEventsAreRead'
      BY <2>1, QueuedStep
    <3>. QED BY <3>1, <3>2, <3>3 DEF RingInv
  <2>. QED BY <2>1
<1>. QED BY <1>1, RingInvInit, PTL DEF Spec

THEOREM OnlyQueuedRead == Spec => []OnlyQueuedEventsAreRead
<1>1. RingInv => OnlyQueuedEventsAreRead
  BY DEF RingInv
<1>. QED BY <1>1, RingInvariant, PTL

-----------------------------------------------------------------------------
(* The ring implements the lossy FIFO: an enqueue is a send, a miss a loss, *)
(* the update of the tail a receive, and the rest is invisible.  So events  *)
(* reach the main loop once, in the order of their interrupts, and only an  *)
(* interrupt that finds ISR_QUEUE_SIZE - 1 others waiting is lost.          *)
THEOREM RingImplementsFifo == Spec => ImplementsFifo
<1>1. Init => Fifo!Init
  <2>. SUFFICES ASSUME Init
                PROVE  Fifo!Init
    OBVIOUS
  <2>1. TypeOK /\ Count = 0
    BY TypeInit, CountValue DEF Init, RingInit
  <2>2. Contents = <<>>
    BY <2>1, ContentsValue
  <2>. QED BY <2>2 DEF Fifo!Init, Init, RingInit
<1>2. RingInv /\ [Next]_vars => [Fifo!Next]_(Fifo!vars)
  <2>. SUFFICES ASSUME RingInv, [Next]_vars
                PROVE  [Fifo!Next]_(Fifo!vars)
    OBVIOUS
  <2>0. TypeOK /\ ReadIsStable /\ OnlyQueuedEventsAreRead
    BY DEF RingInv
  <2>l. Len(Contents) = Count
    BY <2>0, ContentsValue
  <2>1. ASSUME NEW e \in Event, Push(e), UNCHANGED pc
        PROVE  [Fifo!Next]_(Fifo!vars)
    <3>1. CASE Enqueue(e)
      <4>1. Fifo!Send(e)
        BY <2>0, <2>l, <2>1, <3>1, EnqueueAppends DEF Push, Enqueue, Fifo!Send
      <4>. QED BY <4>1 DEF Fifo!Next
    <3>2. CASE Miss
      <4>1. CASE missed_events < MaxMissed
        <5>1. Fifo!Lose
          BY <2>0, <2>l, <2>1, <3>2, <4>1, CountValue, ContentsUnchanged DEF Push, Miss, Fifo!Lose
        <5>. QED BY <5>1 DEF Fifo!Next
      <4>2. CASE ~(missed_events < MaxMissed)
        BY <2>0, <2>1, <3>2, <4>2, ContentsUnchanged DEF Push, Miss, Fifo!vars
      <4>. QED BY <4>1, <4>2
    <3>. QED BY <2>1, <3>1, <3>2 DEF Push
  <2>2. CASE TakeSem
    BY <2>2, ContentsUnchanged DEF TakeSem, Fifo!vars
  <2>3. CASE CheckRing
    BY <2>3, ContentsUnchanged DEF CheckRing, ringVars, Fifo!vars
  <2>4. CASE CopyEvent
    BY <2>4, ContentsUnchanged DEF CopyEvent, Fifo!vars
  <2>5. CASE AdvanceTail
    <3>1. isr_queue_head # isr_queue_tail /\ event = isr_queue[isr_queue_tail]
      BY <2>0, <2>5 DEF ReadIsStable, AdvanceTail
    <3>2. Fifo!Receive
      BY <2>0, <2>5, <3>1, AdvanceRemoves DEF AdvanceTail, Fifo!Receive
    <3>. QED BY <3>2 DEF Fifo!Next
  <2>6. CASE GiveSem
    BY <2>6, ContentsUnchanged DEF GiveSem, Fifo!vars
  <2>7. CASE Loop
    <3>1. CASE pc = "ok"
      <4>1. event \in Event /\ event # NoEvent
        BY <2>0, <3>1, RingAssumption DEF OnlyQueuedEventsAreRead
      <4>2. Fifo!Finish
        BY <2>7, <3>1, <4>1, ContentsUnchanged DEF Loop, ringVars, Fifo!Finish
      <4>. QED BY <4>2 DEF Fifo!Next
    <3>2. CASE pc = "regular"
      BY <2>7, <3>2, ContentsUnchanged DEF Loop, ringVars, Fifo!vars
    <3>. QED BY <2>7, <3>1, <3>2 DEF Loop
  <2>8. CASE UNCHANGED vars
    BY <2>8, ContentsUnchanged DEF vars, ringVars, Fifo!vars
  <2>. QED
    BY <2>1, <2>2, <2>3, <2>4, <2>5, <2>6, <2>7, <2>8 DEF Next, GetFromRing
<1>. QED BY <1>1, <1>2, RingInvariant, PTL DEF Spec, Fifo!Spec, ImplementsFifo
=============================================================================
