----------------------- MODULE InterruptHandlerProofs -----------------------
(***************************************************************************)
(* Theorems about the interrupt handler, for any pins, tables and queues.   *)
(* What IsrRingProofs proves of the ring alone is carried over to the ring  *)
(* inside the handler: every step of the handler but one is a step of the   *)
(* ring or leaves it alone, and that one, GetFromQueue, fills the caller's  *)
(* buffer from the other queue.                                             *)
(***************************************************************************)
EXTENDS InterruptHandler, Counting, TLAPS

RingProofs == INSTANCE IsrRingProofs WITH Event <- GpioEvent \cup TaskEvent

LEMMA RingConstants == RingProofs!RingAssumption
BY HandlerAssumption, BufferAssumption DEF RingProofs!RingAssumption

(* A step of the handler is one of the ring, of its reader going around the  *)
(* loop, or takes an event from event_queue.                                 *)
LEMMA RingStep ==
  ASSUME [Next]_vars
  PROVE  [RingProofs!Next]_(RingProofs!vars) \/ GetFromQueue
<1>1. ASSUME NEW p \in Pin, Interrupt(p) PROVE [RingProofs!Next]_(RingProofs!vars)
  <2>1. UNCHANGED pc /\ (UNCHANGED ringVars \/ Ring!Push(GpioEventOf(p)))
    BY <1>1 DEF Interrupt
  <2>2. CASE UNCHANGED ringVars
    BY <2>1, <2>2 DEF RingProofs!vars, RingProofs!ringVars, ringVars
  <2>3. CASE Ring!Push(GpioEventOf(p))
    <3>1. GpioEventOf(p) \in GpioEvent
      BY DEF GpioEvent
    <3>2. RingProofs!Push(GpioEventOf(p))
      BY <2>3 DEF Ring!Push, Ring!Enqueue, Ring!Miss, Ring!NextSlot,
                  RingProofs!Push, RingProofs!Enqueue, RingProofs!Miss, RingProofs!NextSlot
    <3> QED  BY <2>1, <3>1, <3>2 DEF RingProofs!Next
  <2> QED  BY <2>1, <2>2, <2>3
<1>2. CASE GetFromRing
  <2>1. Ring!GetFromRing
    BY <1>2 DEF GetFromRing
  <2>2. RingProofs!GetFromRing
    BY <2>1 DEF Ring!GetFromRing, Ring!TakeSem, Ring!CheckRing, Ring!CopyEvent,
                Ring!AdvanceTail, Ring!GiveSem, Ring!ringVars, Ring!NextSlot,
                RingProofs!GetFromRing, RingProofs!TakeSem, RingProofs!CheckRing,
                RingProofs!CopyEvent, RingProofs!AdvanceTail, RingProofs!GiveSem,
                RingProofs!ringVars, RingProofs!NextSlot
  <2> QED  BY <2>2 DEF RingProofs!Next
<1>3. CASE NothingPending \/ Dispatch
  BY <1>3 DEF NothingPending, Dispatch, ringVars,
              RingProofs!Next, RingProofs!Loop, RingProofs!ringVars
<1>4. CASE (\E p \in Pin : Register(p) \/ Unregister(p)) \/ (\E e \in TaskEvent : PostEvent(e))
           \/ SchedulerGetEvent \/ RunOnceReturns \/ UNCHANGED vars
  <2>1. UNCHANGED <<ringVars, pc>>
    BY <1>4 DEF Register, Unregister, PostEvent, SchedulerGetEvent, RunOnceReturns, vars
  <2> QED  BY <2>1 DEF ringVars, RingProofs!vars, RingProofs!ringVars
<1> QED  BY <1>1, <1>2, <1>3, <1>4 DEF Next, ProcessEvents

(* What is true of the ring and its reader. *)
ReaderInv == RingProofs!RingInv /\ RingProofs!SemInv

(* The tables and queues that the ring does not know.                        *)
TablesTyped ==
  /\ loop \in {"events", "tasks"}
  /\ interrupt_sources \in [Slot -> SourceRow]
  /\ attached \subseteq Pin
  /\ event_queue \in Seq(TaskEvent) /\ Len(event_queue) <= MaxEvents
  /\ scheduler_queue \in Seq(GpioEvent \cup TaskEvent)
  /\ Len(scheduler_queue) <= SchedulerEvents

HandlerInv == ReaderInv /\ TablesTyped /\ ArmedPinHasSource

LEMMA ReaderStep ==
  ASSUME HandlerInv, [Next]_vars
  PROVE  ReaderInv'
<1>1. CASE [RingProofs!Next]_(RingProofs!vars)
  <2>1. RingProofs!TypeOK /\ RingProofs!ReadIsStable /\ RingProofs!RingInv /\ RingProofs!SemInv
    BY DEF HandlerInv, ReaderInv, RingProofs!RingInv
  <2>2. RingProofs!TypeOK'
    BY <1>1, <2>1, RingConstants, RingProofs!TypeStep
  <2>3. RingProofs!ReadIsStable'
    BY <1>1, <2>1, RingConstants, RingProofs!ReadStep
  <2>4. RingProofs!OnlyQueuedEventsAreRead'
    BY <1>1, <2>1, RingConstants, RingProofs!QueuedStep
  <2>5. RingProofs!SemInv'
    BY <1>1, <2>1, RingConstants, RingProofs!SemStep
  <2> QED  BY <2>2, <2>3, <2>4, <2>5 DEF ReaderInv, RingProofs!RingInv
<1>2. CASE GetFromQueue
  <2>1. event' \in TaskEvent
    BY <1>2 DEF GetFromQueue, HandlerInv, TablesTyped
  <2>2. /\ pc = "regular" /\ pc' = "ok"
        /\ UNCHANGED <<isr_queue, isr_queue_head, isr_queue_tail, isr_queue_sem, missed_events>>
    BY <1>2 DEF GetFromQueue
  <2>3. RingProofs!RingInv'
    <3>1. RingProofs!TypeOK'
      BY <2>1, <2>2 DEF HandlerInv, ReaderInv, RingProofs!RingInv, RingProofs!TypeOK
    <3>2. RingProofs!ReadIsStable'
      BY <2>2 DEF RingProofs!ReadIsStable
    <3>3. RingProofs!Count' = RingProofs!Count /\ RingProofs!Contents' = RingProofs!Contents
      BY <2>2 DEF RingProofs!Count, RingProofs!Contents, RingProofs!SlotFromTail
    <3>4. RingProofs!OnlyQueuedEventsAreRead'
      BY <2>1, <2>2, <3>3
      DEF HandlerInv, ReaderInv, RingProofs!RingInv, RingProofs!OnlyQueuedEventsAreRead
    <3> QED  BY <3>1, <3>2, <3>4 DEF RingProofs!RingInv
  <2>4. RingProofs!SemInv'
    BY <2>2 DEF HandlerInv, ReaderInv, RingProofs!SemInv
  <2> QED  BY <2>3, <2>4 DEF ReaderInv
<1> QED  BY <1>1, <1>2, RingStep

-----------------------------------------------------------------------------
(* The table of sources *)

(* The first match that find_source_by_pin and find_free_source_slot return. *)
LEMMA LowestMember ==
  ASSUME NEW S \in SUBSET Slot, S # {}
  PROVE  Lowest(S) \in S
<1>1. S \subseteq Nat
  BY HandlerAssumption DEF Slot
<1> QED  BY <1>1, LeastNumber DEF Lowest

LEMMA FreshRow ==
  ASSUME NEW p \in Pin
  PROVE  Fresh(p) \in SourceRow /\ Fresh(p).pin = p /\ Fresh(p).enabled = TRUE
<1> DEFINE row(b) == [pin |-> p, enabled |-> b, debounce_state |-> 0, stable_count |-> 0]
<1>1. ASSUME NEW b \in BOOLEAN
      PROVE  row(b) \in SourceRow /\ row(b).pin = p /\ row(b).enabled = b
  BY DEF SourceRow, StableCount
<1>2. Fresh(p) = row(TRUE)
  BY DEF Fresh
<1> QED  BY <1>1, <1>2

LEMMA ClearedRow == Cleared \in SourceRow /\ Cleared.pin = 0
BY DEF Cleared, SourceRow, StableCount

(* Debouncing changes only the state and the count of a row.                 *)
LEMMA DebouncedRow ==
  ASSUME NEW src \in SourceRow, NEW stable \in BOOLEAN
  PROVE  LET after == AfterDebounce(src, stable)
         IN after \in SourceRow /\ after.pin = src.pin /\ after.enabled = src.enabled
<1> DEFINE row(state, count) == [src EXCEPT !.debounce_state = state, !.stable_count = count]
<1>1. ASSUME NEW state \in 0 .. 2, NEW count \in 0 .. StableCount, state = 1 => count = 1
      PROVE  /\ row(state, count) \in SourceRow
             /\ row(state, count).pin = src.pin
             /\ row(state, count).enabled = src.enabled
  BY <1>1 DEF SourceRow
<1>2. src = row(src.debounce_state, src.stable_count)
  BY DEF SourceRow
<1>3. [src EXCEPT !.debounce_state = 0] = row(0, src.stable_count)
  BY DEF SourceRow
<1>4. /\ src.debounce_state \in 0 .. 2 /\ src.stable_count \in 0 .. StableCount
      /\ src.debounce_state = 1 => src.stable_count = 1
  BY DEF SourceRow
<1>5. \/ AfterDebounce(src, stable) = src
      \/ AfterDebounce(src, stable) = row(1, 1)
      \/ AfterDebounce(src, stable) = row(2, 2)
      \/ AfterDebounce(src, stable) = row(0, src.stable_count)
  <2>1. CASE src.debounce_state = 0
    BY <2>1 DEF AfterDebounce, Debounced
  <2>2. CASE src.debounce_state = 1 /\ stable
    <3>1. /\ src.stable_count + 1 = 2
          /\ (IF src.stable_count + 1 >= StableCount THEN 2 ELSE 1) = 2
      BY <1>4, <2>2 DEF StableCount
    <3>2. Debounced(src, stable) = row(2, 2)
      <4>1. src.debounce_state # 0 /\ src.debounce_state = 1 /\ stable = TRUE
        BY <2>2
      <4>2. Debounced(src, stable)
              = [src EXCEPT !.debounce_state = IF src.stable_count + 1 >= StableCount THEN 2 ELSE 1,
                            !.stable_count = src.stable_count + 1]
        BY <2>2, <4>1 DEF Debounced
      <4> QED  BY <3>1, <4>2
    <3> QED  BY <3>2 DEF AfterDebounce
  <2>3. CASE src.debounce_state \in {1, 2} /\ ~stable
    BY <1>3, <1>4, <2>3 DEF AfterDebounce, Debounced
  <2>4. CASE src.debounce_state = 2 /\ stable
    BY <2>4 DEF AfterDebounce, Debounced
  <2> QED  BY <1>4, <2>1, <2>2, <2>3, <2>4
<1> HIDE DEF row
<1>6. CASE AfterDebounce(src, stable) = src
  BY <1>6
<1>7. CASE AfterDebounce(src, stable) = row(1, 1)
  BY <1>1, <1>7 DEF StableCount
<1>8. CASE AfterDebounce(src, stable) = row(2, 2)
  BY <1>1, <1>8 DEF StableCount
<1>9. CASE AfterDebounce(src, stable) = row(0, src.stable_count)
  BY <1>1, <1>4, <1>9
<1> QED  BY <1>5, <1>6, <1>7, <1>8, <1>9

(* A row of a pin that is armed is not the free row of another.              *)
LEMMA TablesStep ==
  ASSUME HandlerInv, [Next]_vars
  PROVE  TablesTyped' /\ ArmedPinHasSource'
<1>1. TablesTyped /\ ArmedPinHasSource
  BY DEF HandlerInv
<1>2. ASSUME NEW p \in Pin, Register(p)
      PROVE  TablesTyped' /\ ArmedPinHasSource'
  <2> DEFINE free == Lowest(FreeSlots)
  <2>1. free \in Slot /\ interrupt_sources[free].pin = 0
    <3>1. FreeSlots \subseteq Slot /\ FreeSlots # {}
      BY <1>2 DEF Register, FreeSlots
    <3>2. free \in FreeSlots
      BY <3>1, LowestMember
    <3> QED  BY <3>2 DEF FreeSlots
  <2> HIDE DEF free
  <2>2. interrupt_sources' = [interrupt_sources EXCEPT ![free] = Fresh(p)]
    BY <1>2 DEF Register, free
  <2>3. interrupt_sources' \in [Slot -> SourceRow]
    BY <1>1, <2>2, FreshRow DEF TablesTyped
  <2>4. attached' \in {attached, attached \cup {p}}
        /\ UNCHANGED <<loop, event_queue, scheduler_queue>>
    BY <1>2 DEF Register
  <2>5. TablesTyped'
    BY <1>1, <2>3, <2>4 DEF TablesTyped
  <2>6. ASSUME NEW q \in attached' \ {0} PROVE SourcesOf(q)' # {}
    <3>1. CASE q = p
      <4>1. interrupt_sources'[free] = Fresh(p)
        BY <1>1, <2>1, <2>2 DEF TablesTyped
      <4>2. free \in SourcesOf(q)'
        BY <2>1, <3>1, <4>1, FreshRow DEF SourcesOf
      <4> QED  BY <4>2
    <3>2. CASE q # p
      <4>1. q \in attached \ {0}
        BY <2>4, <2>6, <3>2
      <4>2. PICK t \in Slot : interrupt_sources[t].pin = q /\ interrupt_sources[t].enabled
        BY <1>1, <4>1 DEF ArmedPinHasSource, SourcesOf
      <4>3. interrupt_sources'[t] = interrupt_sources[t]
        BY <1>1, <2>1, <2>2, <4>1, <4>2 DEF TablesTyped
      <4>4. t \in SourcesOf(q)'
        BY <4>2, <4>3 DEF SourcesOf
      <4> QED  BY <4>4
    <3> QED  BY <3>1, <3>2
  <2> QED  BY <2>5, <2>6 DEF ArmedPinHasSource
<1>3. ASSUME NEW p \in Pin, Unregister(p)
      PROVE  TablesTyped' /\ ArmedPinHasSource'
  <2> DEFINE row == Lowest(SourcesOf(p))
  <2>1. row \in Slot /\ interrupt_sources[row].pin = p
    <3>1. SourcesOf(p) \subseteq Slot /\ SourcesOf(p) # {}
      BY <1>3 DEF Unregister, SourcesOf
    <3>2. row \in SourcesOf(p)
      BY <3>1, LowestMember
    <3> QED  BY <3>2 DEF SourcesOf
  <2> HIDE DEF row
  <2>2. interrupt_sources' = [interrupt_sources EXCEPT ![row] = Cleared]
    BY <1>3 DEF Unregister, row
  <2>3. attached' = attached \ {p} /\ UNCHANGED <<loop, event_queue, scheduler_queue>>
    BY <1>3 DEF Unregister
  <2>4. TablesTyped'
    <3>1. interrupt_sources' \in [Slot -> SourceRow]
      BY <1>1, <2>2, ClearedRow DEF TablesTyped
    <3> QED  BY <1>1, <2>3, <3>1 DEF TablesTyped
  <2>5. ASSUME NEW q \in attached' \ {0} PROVE SourcesOf(q)' # {}
    <3>1. q \in attached \ {0} /\ q # p
      BY <2>3, <2>5
    <3>2. PICK t \in Slot : interrupt_sources[t].pin = q /\ interrupt_sources[t].enabled
      BY <1>1, <3>1 DEF ArmedPinHasSource, SourcesOf
    <3>3. interrupt_sources'[t] = interrupt_sources[t]
      BY <1>1, <2>1, <2>2, <3>1, <3>2 DEF TablesTyped
    <3>4. t \in SourcesOf(q)'
      BY <3>2, <3>3 DEF SourcesOf
    <3> QED  BY <3>4
  <2> QED  BY <2>4, <2>5 DEF ArmedPinHasSource
<1>4. ASSUME NEW p \in Pin, Interrupt(p)
      PROVE  TablesTyped' /\ ArmedPinHasSource'
  <2> DEFINE row == Lowest(SourcesOf(p))
  <2>1. PICK stable \in BOOLEAN :
          interrupt_sources' = [interrupt_sources EXCEPT
            ![row] = AfterDebounce(interrupt_sources[row], stable)]
    BY <1>4 DEF Interrupt
  <2>2. row \in Slot
    <3>1. SourcesOf(p) \subseteq Slot /\ SourcesOf(p) # {}
      BY <1>4 DEF Interrupt, SourcesOf
    <3>2. row \in SourcesOf(p)
      BY <3>1, LowestMember
    <3> QED  BY <3>1, <3>2
  <2> HIDE DEF row
  <2>3. UNCHANGED <<attached, loop, event_queue, scheduler_queue>>
    BY <1>4 DEF Interrupt
  <2> DEFINE after == AfterDebounce(interrupt_sources[row], stable)
  <2>4. /\ after \in SourceRow /\ after.pin = interrupt_sources[row].pin
        /\ after.enabled = interrupt_sources[row].enabled
    BY <1>1, <2>2, DebouncedRow DEF TablesTyped
  <2> HIDE DEF after
  <2>5. interrupt_sources' = [interrupt_sources EXCEPT ![row] = after]
    BY <2>1 DEF after
  <2>6. TablesTyped'
    BY <1>1, <2>2, <2>3, <2>4, <2>5 DEF TablesTyped
  <2>7. ASSUME NEW t \in Slot
        PROVE  /\ interrupt_sources'[t].pin = interrupt_sources[t].pin
               /\ interrupt_sources'[t].enabled = interrupt_sources[t].enabled
    BY <1>1, <2>2, <2>4, <2>5 DEF TablesTyped
  <2>8. ASSUME NEW q PROVE SourcesOf(q)' = SourcesOf(q)
    BY <2>7 DEF SourcesOf
  <2> QED  BY <1>1, <2>3, <2>6, <2>8 DEF ArmedPinHasSource
<1>5. CASE UNCHANGED <<interrupt_sources, attached>>
  <2>1. ArmedPinHasSource'
    BY <1>1, <1>5 DEF ArmedPinHasSource, SourcesOf
  <2>2. ASSUME NEW e \in TaskEvent, PostEvent(e) PROVE TablesTyped'
    BY <1>1, <2>2, HandlerAssumption DEF PostEvent, TablesTyped
  <2>3. ASSUME SchedulerGetEvent PROVE TablesTyped'
    BY <1>1, <2>3, HandlerAssumption DEF SchedulerGetEvent, TablesTyped
  <2>4. ASSUME GetFromQueue PROVE TablesTyped'
    BY <1>1, <2>4, HandlerAssumption DEF GetFromQueue, TablesTyped
  <2>5. ASSUME Dispatch PROVE TablesTyped'
    <3>1. event \in GpioEvent \cup TaskEvent
      BY <2>5 DEF Dispatch, HandlerInv, ReaderInv, RingProofs!RingInv,
                  RingProofs!OnlyQueuedEventsAreRead
    <3> QED  BY <1>1, <2>5, <3>1, HandlerAssumption DEF Dispatch, TablesTyped
  <2>6. ASSUME GetFromRing \/ NothingPending \/ RunOnceReturns \/ UNCHANGED vars
        PROVE  TablesTyped'
    BY <1>1, <2>6 DEF GetFromRing, NothingPending, RunOnceReturns, vars, TablesTyped
  <2> QED
    BY <1>2, <1>3, <1>4, <2>1, <2>2, <2>3, <2>4, <2>5, <2>6 DEF Next, ProcessEvents
<1>6. ~UNCHANGED <<interrupt_sources, attached>> =>
        \E p \in Pin : Register(p) \/ Unregister(p) \/ Interrupt(p)
  BY DEF Next, ProcessEvents, PostEvent, SchedulerGetEvent, GetFromRing, GetFromQueue,
         NothingPending, RunOnceReturns, Dispatch, vars
<1> QED  BY <1>2, <1>3, <1>4, <1>5, <1>6

-----------------------------------------------------------------------------
LEMMA HandlerInvariance == Spec => []HandlerInv
<1>1. Init => HandlerInv
  <2> SUFFICES ASSUME Init PROVE HandlerInv
    OBVIOUS
  <2>1. RingProofs!Init
    BY DEF Init, Ring!Init, Ring!RingInit, Ring!Slots,
           RingProofs!Init, RingProofs!RingInit, RingProofs!Slots
  <2>2. RingProofs!RingInv
    BY <2>1, RingConstants, RingProofs!RingInvInit
  <2>3. RingProofs!SemInv
    BY <2>1 DEF RingProofs!Init, RingProofs!RingInit, RingProofs!SemInv
  <2>4. TablesTyped
    <3>1. interrupt_sources \in [Slot -> SourceRow]
      BY ClearedRow DEF Init
    <3> QED  BY <3>1, HandlerAssumption DEF Init, TablesTyped
  <2>5. ArmedPinHasSource
    BY DEF Init, ArmedPinHasSource
  <2> QED  BY <2>2, <2>3, <2>4, <2>5 DEF HandlerInv, ReaderInv
<1>2. HandlerInv /\ [Next]_vars => HandlerInv'
  BY ReaderStep, TablesStep DEF HandlerInv
<1> QED  BY <1>1, <1>2, PTL DEF Spec

(* The table, the ring and the queues keep their types.                      *)
THEOREM HandlerTypes == Spec => []TypeOK
<1>1. HandlerInv => TypeOK
  BY DEF HandlerInv, ReaderInv, TablesTyped, TypeOK, RingProofs!RingInv,
         RingProofs!TypeOK, RingProofs!Slots, Ring!TypeOK, Ring!Slots
<1> QED  BY <1>1, HandlerInvariance, PTL

(* An armed pin has a row, whatever is registered and unregistered.          *)
THEOREM ArmedPins == Spec => []ArmedPinHasSource
<1>1. HandlerInv => ArmedPinHasSource
  BY DEF HandlerInv
<1> QED  BY <1>1, HandlerInvariance, PTL

(* Inside the handler, where the reader's buffer is also filled from the     *)
(* other queue, the ring is still read stably, read only where something was *)
(* queued, and never skipped.                                                *)
THEOREM RingInsideHandler ==
  Spec => [](Ring!ReadIsStable /\ Ring!OnlyQueuedEventsAreRead /\ Ring!NeverSkipped)
<1>1. HandlerInv => Ring!ReadIsStable /\ Ring!OnlyQueuedEventsAreRead /\ Ring!NeverSkipped
  BY DEF HandlerInv, ReaderInv, RingProofs!RingInv, RingProofs!SemInv,
         RingProofs!ReadIsStable, RingProofs!OnlyQueuedEventsAreRead,
         RingProofs!Count, RingProofs!Contents, RingProofs!SlotFromTail,
         Ring!ReadIsStable, Ring!OnlyQueuedEventsAreRead, Ring!NeverSkipped,
         Ring!Count, Ring!Contents, Ring!SlotFromTail
<1> QED  BY <1>1, HandlerInvariance, PTL
=============================================================================
