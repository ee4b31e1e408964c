-------------------------- MODULE InterruptHandler --------------------------
(***************************************************************************)
(* interrupt/interrupt_handler.c: GPIO interrupt handlers that debounce    *)
(* and queue events, other tasks that register sources and post events,    *)
(* and the main loop, which calls interrupt_process_events (it takes the   *)
(* events one at a time and forwards them to the task scheduler's event    *)
(* queue) and scheduler_run_once in turn (main.c:453-457).  The ISR queue  *)
(* is module IsrRing; here its reader goes on to the regular queue,        *)
(* dispatches what it got, and comes back.                                 *)
(***************************************************************************)
EXTENDS Naturals, Sequences, FiniteSets

CONSTANTS
  Pin,             \* the GPIO pins, a set of naturals
  NSources,        \* MAX_INTERRUPT_SOURCES: rows of interrupt_sources
  Size,            \* ISR_QUEUE_SIZE
  MaxEvents,       \* interrupt_config.max_events: capacity of event_queue
  SchedulerEvents, \* capacity of the task scheduler's event queue
  EnableDebounce,  \* interrupt_config.enable_debounce
  TaskTypes,       \* what tasks post: "network" is forwarded, "other" is unknown
  NoEvent,         \* the event buffer before its first event
  MaxMissed        \* bound: missed events that are counted

ASSUME HandlerAssumption ==
  /\ Pin \subseteq Nat
  /\ NSources \in Nat \ {0}
  /\ Size \in Nat /\ Size >= 2
  /\ EnableDebounce \in BOOLEAN
  /\ {MaxEvents, SchedulerEvents, MaxMissed} \subseteq Nat

VARIABLES
  isr_queue, isr_queue_head, isr_queue_tail, isr_queue_sem, missed_events,
  event, pc,
  loop,              \* which call of the main loop is under way: "events" or "tasks"
  interrupt_sources, \* the table of sources, by slot
  attached,          \* pins whose interrupt is enabled and calls gpio_isr_handler
  event_queue,       \* the FreeRTOS queue of events posted by tasks
  scheduler_queue    \* the task scheduler's event queue

ringVars == <<isr_queue, isr_queue_head, isr_queue_tail, isr_queue_sem,
              missed_events, event>>
vars == <<ringVars, pc, loop, interrupt_sources, attached, event_queue,
          scheduler_queue>>

(* Events carry a priority and a time as well; nothing reads them. *)
GpioEventOf(p) == [type |-> "gpio", source |-> p]
GpioEvent == {GpioEventOf(p) : p \in Pin}
TaskEvent == [type : TaskTypes, source : {0}]

ASSUME BufferAssumption == NoEvent \notin GpioEvent \cup TaskEvent

Ring == INSTANCE IsrRing WITH Event <- GpioEvent \cup TaskEvent

Slot == 1 .. NSources

(* interrupt_source_t.  A row that memset cleared has pin 0 and is disabled. *)
Cleared == [pin |-> 0, enabled |-> FALSE, debounce_state |-> 0, stable_count |-> 0]
Fresh(p) == [pin |-> p, enabled |-> TRUE, debounce_state |-> 0, stable_count |-> 0]

StableCount == 2  \* DEBOUNCE_STABLE_COUNT

Lowest(S) == CHOOSE s \in S : \A t \in S : s <= t

(* find_source_by_pin and find_free_source_slot return the first match. *)
SourcesOf(p) == {s \in Slot : interrupt_sources[s].pin = p /\ interrupt_sources[s].enabled}
FreeSlots == {s \in Slot : interrupt_sources[s].pin = 0}

Init ==
  /\ Ring!Init
  /\ loop = "events"
  /\ interrupt_sources = [s \in Slot |-> Cleared]
  /\ attached = {}
  /\ event_queue = <<>>
  /\ scheduler_queue = <<>>

-----------------------------------------------------------------------------
(* Registration, by any task.  The row is filled before the hardware is     *)
(* configured, and stays filled when that fails.                            *)
Register(p) ==
  /\ FreeSlots # {}
  /\ interrupt_sources' = [interrupt_sources EXCEPT ![Lowest(FreeSlots)] = Fresh(p)]
  /\ \/ attached' = attached \cup {p}
     \/ UNCHANGED attached          \* configure_gpio_interrupt failed
  /\ UNCHANGED <<ringVars, pc, loop, event_queue, scheduler_queue>>

(* Mutation: the handler is not removed from the pin. *)
UnregisterKeepingHandler(p) ==
  /\ SourcesOf(p) # {}
  /\ interrupt_sources' = [interrupt_sources EXCEPT ![Lowest(SourcesOf(p))] = Cleared]
  /\ UNCHANGED <<ringVars, pc, loop, attached, event_queue, scheduler_queue>>

(* Removing the handler and disabling the interrupt only warn when they fail *)
(* (lines 188-197); the driver refuses them for a pin it does not know or     *)
(* before its service is installed, when no handler is attached either.      *)
Unregister(p) ==
  /\ SourcesOf(p) # {}
  /\ interrupt_sources' = [interrupt_sources EXCEPT ![Lowest(SourcesOf(p))] = Cleared]
  /\ attached' = attached \ {p}
  /\ UNCHANGED <<ringVars, pc, loop, event_queue, scheduler_queue>>

-----------------------------------------------------------------------------
(* debounce_interrupt as a function from a row to the row it leaves.  The   *)
(* level is read twice, by the handler and here: stable says whether both   *)
(* readings agree.                                                          *)
Debounced(src, stable) ==
  CASE src.debounce_state = 0 -> [src EXCEPT !.debounce_state = 1, !.stable_count = 1]
    [] src.debounce_state = 1 /\ stable ->
         [src EXCEPT !.debounce_state = IF src.stable_count + 1 >= StableCount THEN 2 ELSE 1,
                     !.stable_count = @ + 1]
    [] src.debounce_state \in {1, 2} /\ ~stable -> [src EXCEPT !.debounce_state = 0]
    [] OTHER -> src

(* What debounce_interrupt returns: in every case, whether it left state 2. *)
Accepts(src, stable) ==
  EnableDebounce => Debounced(src, stable).debounce_state = 2

AfterDebounce(src, stable) == IF EnableDebounce THEN Debounced(src, stable) ELSE src

(* gpio_isr_handler for a pin that has a source: filtered out, or queued.   *)
(* It runs to completion between two steps of the main loop.                *)
Interrupt(p) ==
  /\ p \in attached
  /\ SourcesOf(p) # {}
  /\ \E stable \in BOOLEAN :
       LET s == Lowest(SourcesOf(p))
           src == interrupt_sources[s]
       IN /\ interrupt_sources' = [interrupt_sources EXCEPT ![s] = AfterDebounce(src, stable)]
          /\ IF Accepts(src, stable) THEN Ring!Push(GpioEventOf(p)) ELSE UNCHANGED ringVars
  /\ UNCHANGED <<pc, loop, attached, event_queue, scheduler_queue>>

(* interrupt_post_event: refused when the queue is full. *)
PostEvent(e) ==
  /\ Len(event_queue) < MaxEvents
  /\ event_queue' = Append(event_queue, e)
  /\ UNCHANGED <<ringVars, pc, loop, interrupt_sources, attached, scheduler_queue>>

(* A task takes an event with scheduler_get_event. *)
SchedulerGetEvent ==
  /\ scheduler_queue # <<>>
  /\ scheduler_queue' = Tail(scheduler_queue)
  /\ UNCHANGED <<ringVars, pc, loop, interrupt_sources, attached, event_queue>>

-----------------------------------------------------------------------------
(* The main loop: interrupt_get_event on the ring, then on event_queue. *)
GetFromRing ==
  /\ loop = "events"
  /\ Ring!GetFromRing
  /\ UNCHANGED <<loop, interrupt_sources, attached, event_queue, scheduler_queue>>

GetFromQueue ==
  /\ pc = "regular"
  /\ event_queue # <<>>
  /\ event' = Head(event_queue)
  /\ event_queue' = Tail(event_queue)
  /\ pc' = "ok"
  /\ UNCHANGED <<isr_queue, isr_queue_head, isr_queue_tail, isr_queue_sem,
                 missed_events, loop, interrupt_sources, attached, scheduler_queue>>

(* Mutation: process_events returns without asking event_queue. *)
NothingPendingInRing ==
  /\ pc = "regular"
  /\ pc' = "get"
  /\ loop' = "tasks"
  /\ UNCHANGED <<ringVars, interrupt_sources, attached, event_queue, scheduler_queue>>

(* Both queues empty: interrupt_process_events returns (process_debounce    *)
(* finds no row debouncing) and the loop goes on to scheduler_run_once.     *)
NothingPending ==
  /\ pc = "regular"
  /\ event_queue = <<>>
  /\ pc' = "get"
  /\ loop' = "tasks"
  /\ UNCHANGED <<ringVars, interrupt_sources, attached, event_queue, scheduler_queue>>

(* scheduler_run_once returns, and after its sleep the loop calls            *)
(* interrupt_process_events again.  An entry that does not return, as the    *)
(* idle task's does not (task_scheduler.c:426-442), keeps it for ever.       *)
RunOnceReturns ==
  /\ loop = "tasks"
  /\ loop' = "events"
  /\ UNCHANGED <<ringVars, pc, interrupt_sources, attached, event_queue, scheduler_queue>>

(* Events the loop forwards: a GPIO event only if its pin still has a source. *)
Forwarded(e) ==
  \/ e.type = "network"   \* a timer event is forwarded the same way
  \/ e.type = "gpio" /\ SourcesOf(e.source) # {}

(* The switch of interrupt_process_events; scheduler_post_event drops the   *)
(* event when the scheduler's queue is full.                                *)
Dispatch ==
  /\ pc = "ok"
  /\ scheduler_queue' = IF Forwarded(event) /\ Len(scheduler_queue) < SchedulerEvents
                          THEN Append(scheduler_queue, event)
                          ELSE scheduler_queue
  /\ pc' = "get"
  /\ UNCHANGED <<ringVars, loop, interrupt_sources, attached, event_queue>>

ProcessEvents == GetFromRing \/ GetFromQueue \/ NothingPending \/ Dispatch

Next ==
  \/ \E p \in Pin : Register(p) \/ Unregister(p) \/ Interrupt(p)
  \/ \E e \in TaskEvent : PostEvent(e)
  \/ SchedulerGetEvent
  \/ ProcessEvents
  \/ RunOnceReturns

Spec == Init /\ [][Next]_vars

(* interrupt_process_events never blocks: interrupt_get_event is called with *)
(* timeout 0.  Nothing makes scheduler_run_once return.                      *)
FairSpec == Spec /\ WF_vars(ProcessEvents)

-----------------------------------------------------------------------------
(* A row that is debouncing has counted one reading. *)
SourceRow == {r \in [pin : Pin \cup {0}, enabled : BOOLEAN, debounce_state : 0 .. 2,
                     stable_count : 0 .. StableCount] :
                r.debounce_state = 1 => r.stable_count = 1}

(* The table of sources, the ring and the queues keep their types, and no     *)
(* queue grows past its capacity.                                            *)
TypeOK ==
  /\ Ring!TypeOK
  /\ loop \in {"events", "tasks"}
  /\ interrupt_sources \in [Slot -> SourceRow]
  /\ attached \subseteq Pin
  /\ event_queue \in Seq(TaskEvent) /\ Len(event_queue) <= MaxEvents
  /\ scheduler_queue \in Seq(GpioEvent \cup TaskEvent)
  /\ Len(scheduler_queue) <= SchedulerEvents

(* A pin whose hardware interrupt is armed has a row in the table, so that  *)
(* its interrupts are not thrown away at line 218.  Pin 0 is the exception: *)
(* find_free_source_slot takes its row to be free, so the next registration *)
(* overwrites it.                                                           *)
ArmedPinHasSource == \A p \in attached \ {0} : SourcesOf(p) # {}

(* Whatever tasks scheduler_run_once runs, it comes back.  A premise of the  *)
(* next two properties that the program as it stands does not meet: its only *)
(* task is the idle task, whose entry loops while the scheduler runs.        *)
RunOnceComesBack == []<>(loop = "events")

(* A posted event reaches the dispatch switch if scheduler_run_once comes    *)
(* back and interrupts leave the ring empty for good; an endless interrupt   *)
(* storm does starve event_queue.                                            *)
TaskEventIsDispatched ==
  RunOnceComesBack /\ <>[](Ring!Count = 0) =>
    [](event_queue # <<>> => <>(pc = "ok" /\ event.type # "gpio"))

(* An accepted interrupt reaches the dispatch switch if scheduler_run_once   *)
(* comes back, also when it is queued while a task runs.                     *)
IsrEventIsDispatched ==
  RunOnceComesBack => ((Ring!Count > 0) ~> (pc = "ok" /\ event.type = "gpio"))
=============================================================================
