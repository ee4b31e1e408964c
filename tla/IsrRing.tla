------------------------------ MODULE IsrRing ------------------------------
(***************************************************************************)
(* The ISR queue of interrupt/interrupt_handler.c: a ring of Size slots    *)
(* that GPIO interrupt handlers fill (queue_event_from_isr) and the main   *)
(* loop empties (interrupt_get_event).  An interrupt handler runs to       *)
(* completion on the core it interrupts, so Push is one step; the main     *)
(* loop can be interrupted between any two accesses to the shared state,   *)
(* so interrupt_get_event is one step per access.                          *)
(***************************************************************************)
EXTENDS Naturals, Sequences

CONSTANTS
  Event,      \* the interrupt events that can be queued
  NoEvent,    \* contents of a slot, or of the caller's buffer, never written
  Size,       \* ISR_QUEUE_SIZE
  MaxMissed   \* bound: how many losses are counted in the model

ASSUME RingAssumption ==
  /\ Size \in Nat /\ Size >= 2
  /\ NoEvent \notin Event
  /\ MaxMissed \in Nat

VARIABLES
  isr_queue,       \* the slots
  isr_queue_head,  \* where the next event is written; written by the ISR only
  isr_queue_tail,  \* where the next event is read; written by the main loop only
  isr_queue_sem,   \* the binary semaphore: 1 when it can be taken
  missed_events,   \* interrupt_stats.missed_events
  event,           \* the caller's event buffer
  pc               \* where the main loop is in interrupt_get_event

ringVars == <<isr_queue, isr_queue_head, isr_queue_tail, isr_queue_sem,
              missed_events, event>>
vars == <<ringVars, pc>>

Slots == 0 .. Size - 1

(* The index after i: (i + 1) % ISR_QUEUE_SIZE. *)
NextSlot(i) == (i + 1) % Size

RingInit ==
  /\ isr_queue = [i \in Slots |-> NoEvent]
  /\ isr_queue_head = 0
  /\ isr_queue_tail = 0
  /\ isr_queue_sem = 1
  /\ missed_events = 0
  /\ event = NoEvent

Init == RingInit /\ pc = "get"

(* Mutation: the ring is not tested for being full. *)
EnqueueUnchecked(e) ==
  /\ isr_queue' = [isr_queue EXCEPT ![isr_queue_head] = e]
  /\ isr_queue_head' = NextSlot(isr_queue_head)
  /\ isr_queue_sem' = 1
  /\ UNCHANGED missed_events

(* Mutation: the head is advanced before the event is stored. *)
EnqueueAhead(e) ==
  /\ NextSlot(isr_queue_head) # isr_queue_tail
  /\ isr_queue' = [isr_queue EXCEPT ![NextSlot(isr_queue_head)] = e]
  /\ isr_queue_head' = NextSlot(isr_queue_head)
  /\ isr_queue_sem' = 1
  /\ UNCHANGED missed_events

(* queue_event_from_isr: store and publish, or count a loss when full. *)
Enqueue(e) ==
  /\ NextSlot(isr_queue_head) # isr_queue_tail
  /\ isr_queue' = [isr_queue EXCEPT ![isr_queue_head] = e]
  /\ isr_queue_head' = NextSlot(isr_queue_head)
  /\ isr_queue_sem' = 1
  /\ UNCHANGED missed_events

Miss ==
  /\ NextSlot(isr_queue_head) = isr_queue_tail
  /\ missed_events' = IF missed_events < MaxMissed THEN missed_events + 1 ELSE missed_events
  /\ UNCHANGED <<isr_queue, isr_queue_head, isr_queue_sem>>

Push(e) ==
  /\ Enqueue(e) \/ Miss
  /\ UNCHANGED <<isr_queue_tail, event>>

-----------------------------------------------------------------------------
(* interrupt_get_event, one access to the shared state at a time. *)

(* xSemaphoreTake(isr_queue_sem, 0): on failure the ISR queue is skipped. *)
TakeSem ==
  /\ pc = "get"
  /\ isr_queue_sem' = 0
  /\ pc' = IF isr_queue_sem = 1 THEN "taken" ELSE "regular"
  /\ UNCHANGED <<isr_queue, isr_queue_head, isr_queue_tail, missed_events, event>>

(* Mutation: the emptiness test forgets that the head wraps. *)
CheckRingUnwrapped ==
  /\ pc = "taken"
  /\ pc' = IF isr_queue_head > isr_queue_tail THEN "nonempty" ELSE "empty"
  /\ UNCHANGED ringVars

CheckRing ==
  /\ pc = "taken"
  /\ pc' = IF isr_queue_head # isr_queue_tail THEN "nonempty" ELSE "empty"
  /\ UNCHANGED ringVars

CopyEvent ==
  /\ pc = "nonempty"
  /\ event' = isr_queue[isr_queue_tail]
  /\ pc' = "copied"
  /\ UNCHANGED <<isr_queue, isr_queue_head, isr_queue_tail, isr_queue_sem, missed_events>>

AdvanceTail ==
  /\ pc = "copied"
  /\ isr_queue_tail' = NextSlot(isr_queue_tail)
  /\ pc' = "advanced"
  /\ UNCHANGED <<isr_queue, isr_queue_head, isr_queue_sem, missed_events, event>>

(* Mutation: the semaphore is given back only with an event. *)
GiveSemWithEvent ==
  /\ pc \in {"advanced", "empty"}
  /\ isr_queue_sem' = IF pc = "advanced" THEN 1 ELSE isr_queue_sem
  /\ pc' = IF pc = "advanced" THEN "ok" ELSE "regular"
  /\ UNCHANGED <<isr_queue, isr_queue_head, isr_queue_tail, missed_events, event>>

(* xSemaphoreGive on either path; giving a given binary semaphore is a no-op. *)
GiveSem ==
  /\ pc \in {"advanced", "empty"}
  /\ isr_queue_sem' = 1
  /\ pc' = IF pc = "advanced" THEN "ok" ELSE "regular"
  /\ UNCHANGED <<isr_queue, isr_queue_head, isr_queue_tail, missed_events, event>>

GetFromRing == TakeSem \/ CheckRing \/ CopyEvent \/ AdvanceTail \/ GiveSem

(* The caller goes around its loop, with an ISR event or without one. *)
Loop ==
  /\ pc \in {"ok", "regular"}
  /\ pc' = "get"
  /\ UNCHANGED ringVars

Next ==
  \/ \E e \in Event : Push(e) /\ UNCHANGED pc
  \/ GetFromRing
  \/ Loop

Spec == Init /\ [][Next]_vars

-----------------------------------------------------------------------------
(* The indices of interrupt/interrupt_handler.c's ring stay inside the      *)
(* array and every variable keeps its type.                                 *)
TypeOK ==
  /\ isr_queue \in [Slots -> Event \cup {NoEvent}]
  /\ isr_queue_head \in Slots
  /\ isr_queue_tail \in Slots
  /\ isr_queue_sem \in {0, 1}
  /\ missed_events \in 0 .. MaxMissed
  /\ event \in Event \cup {NoEvent}
  /\ pc \in {"get", "taken", "nonempty", "copied", "advanced", "empty", "ok", "regular"}

(* How many events the ring holds, and slot k of them counted from the tail. *)
Count == IF isr_queue_head >= isr_queue_tail
           THEN isr_queue_head - isr_queue_tail
           ELSE isr_queue_head + Size - isr_queue_tail

SlotFromTail(k) == IF isr_queue_tail + k < Size
                     THEN isr_queue_tail + k
                     ELSE isr_queue_tail + k - Size

Contents == [k \in 1 .. Count |-> isr_queue[SlotFromTail(k - 1)]]

(* While the main loop is between the emptiness test and the update of the  *)
(* tail, interrupts can neither empty the ring nor change the event that is *)
(* being taken: the unlocked copy of lines 350-351 is the oldest event.     *)
ReadIsStable ==
  /\ pc \in {"nonempty", "copied"} => isr_queue_head # isr_queue_tail
  /\ pc = "copied" => event = isr_queue[isr_queue_tail]

(* Every slot between tail and head was written by an ISR: the reader never *)
(* gets the zeroed or stale contents of a slot no event was queued in.      *)
OnlyQueuedEventsAreRead ==
  /\ \A k \in 1 .. Count : Contents[k] \in Event
  /\ pc \in {"copied", "advanced", "ok"} => event \in Event

(* The semaphore is free whenever the main loop is about to take it, so a   *)
(* take never fails and the ISR queue is never skipped for the slower       *)
(* regular queue (lines 348 and 359): signal and lock share one semaphore.  *)
NeverSkipped == pc = "get" => isr_queue_sem = 1

(* The ring implements the lossy FIFO: order is kept, an event is received  *)
(* once, and only an event that finds Size - 1 others queued is lost.       *)
Fifo == INSTANCE LossyFifo WITH
          Capacity <- Size - 1,
          q    <- Contents,
          out  <- IF pc \in {"advanced", "ok"} THEN event ELSE NoEvent,
          lost <- missed_events

ImplementsFifo == Fifo!Spec
=============================================================================
