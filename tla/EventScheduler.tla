--------------------------- MODULE EventScheduler ---------------------------
(***************************************************************************)
(* simulator/core/scheduler/event_scheduler.cpp: timed events, kept twice. *)
(* event_queue is a std::priority_queue of COPIES, active_events the list  *)
(* of originals that cancel, pause and resume reach.  process_events holds *)
(* a reference to the top of the queue while the callback runs, and pops   *)
(* afterwards whatever is on top then; callbacks may schedule and cancel.  *)
(***************************************************************************)
EXTENDS Naturals, Sequences, FiniteSets

CONSTANTS
  Delays,         \* the delays with which the host schedules events
  Priorities,     \* the priorities it gives them; CRITICAL is 0, LOW is 3
  Intervals,      \* the intervals of recurring events; {} if there are none
  CallbackEvents, \* <<delay, priority>> of the events that callbacks schedule
  Targets,        \* the arguments of process_events_until; {} if it is not called
  HostSetsTime,   \* whether the host advances the clock: the class offers no way to
  MayCancel,      \* whether cancel_event, pause_event and resume_event are called
  MaxEvents,      \* bound: ids that are handed out between two resets
  MaxFired,       \* bound: how often one event is counted as fired
  MaxTime         \* bound: the clock stops here

ASSUME QueueAssumption ==
  /\ Delays \cup Priorities \cup Intervals \cup Targets \subseteq Nat
  /\ CallbackEvents \subseteq Nat \X Nat
  /\ {HostSetsTime, MayCancel} \subseteq BOOLEAN
  /\ {MaxEvents, MaxTime} \subseteq Nat /\ MaxFired \in Nat \ {0}

VARIABLES
  event_queue,    \* the heap: a sequence of events, the next one first
  active_events,  \* id -> event, the originals; never pruned
  next_event_id,
  current_time,   \* clock.current_time
  paused,         \* clock.paused
  phase,          \* "idle", "process" (in the loop) or "callback"
  limit,          \* what the loop compares timestamps with
  running,        \* the event whose callback runs, as it was when the call began
  pushed,         \* whether that callback has pushed onto the queue
  fired           \* history: id -> how often a one-shot event's callback has been called

schedulerVars == <<event_queue, active_events, next_event_id, current_time, paused,
                   phase, limit, running, pushed, fired>>
queueVars == <<event_queue, active_events, next_event_id>>
clockVars == <<current_time, paused>>
loopVars == <<phase, limit, running, pushed, fired>>

Event == [id : Nat, timestamp : Nat, priority : Nat, recurring : BOOLEAN,
          interval : Nat, active : BOOLEAN]

(* Event::operator> *)
Greater(a, b) ==
  \/ a.timestamp > b.timestamp
  \/ a.timestamp = b.timestamp /\ a.priority > b.priority

NoEvent == [id |-> 0, timestamp |-> 0, priority |-> 0, recurring |-> FALSE,
            interval |-> 0, active |-> FALSE]

-----------------------------------------------------------------------------
(* std::push_heap and std::pop_heap of libstdc++ with std::greater: a hole    *)
(* moves through the heap, up towards the top or down to a leaf, until v can *)
(* be put into it.                                                           *)

Hole == [heap : Seq(Event), hole : Nat]
Holed(h, i) == [heap |-> h, hole |-> i]
Filled(s, v) == [s.heap EXCEPT ![s.hole] = v]
MoveHole(s, i) == Holed([s.heap EXCEPT ![s.hole] = s.heap[i]], i)

Rise(v) ==
  [s \in Hole |->
     IF s.hole > 1 /\ Greater(s.heap[s.hole \div 2], v) THEN MoveHole(s, s.hole \div 2)
     ELSE s]

Fall ==
  [s \in Hole |->
     LET left == 2 * s.hole
         child == IF left = Len(s.heap) \/ Greater(s.heap[left + 1], s.heap[left])
                    THEN left ELSE left + 1
     IN IF left > Len(s.heap) THEN s ELSE MoveHole(s, child)]

SiftUp(v) ==
  [s \in Hole |->
     LET after[n \in 0 .. s.hole] == IF n = 0 THEN s ELSE Rise(v)[after[n - 1]]
     IN Filled(after[s.hole], v)]

Sink ==
  [s \in Hole |->
     LET after[n \in 0 .. Len(s.heap)] == IF n = 0 THEN s ELSE Fall[after[n - 1]]
     IN after[Len(s.heap)]]

Push(h, e) == SiftUp(e)[Holed(Append(h, e), Len(h) + 1)]

Pop(h) ==
  IF Len(h) = 1 THEN <<>>
  ELSE SiftUp(h[Len(h)])[Sink[Holed(SubSeq(h, 1, Len(h) - 1), 1)]]

-----------------------------------------------------------------------------
QueueInit ==
  /\ event_queue = <<>>
  /\ active_events = <<>>
  /\ next_event_id = 1
  /\ current_time = 0
  /\ paused = FALSE
  /\ phase = "idle"
  /\ limit = 0
  /\ running = NoEvent
  /\ pushed = FALSE
  /\ fired = [id \in 1 .. MaxEvents |-> 0]

(* schedule_event. *)
Schedule(delay, priority, recurring, interval) ==
  LET e == [id |-> next_event_id, timestamp |-> current_time + delay, priority |-> priority,
            recurring |-> recurring, interval |-> interval, active |-> TRUE]
  IN /\ next_event_id <= MaxEvents
     /\ event_queue' = Push(event_queue, e)
     /\ active_events' = Append(active_events, e)
     /\ next_event_id' = next_event_id + 1

HostSchedules ==
  /\ phase = "idle"
  /\ \E delay \in Delays, priority \in Priorities :
       \/ Schedule(delay, priority, FALSE, 0)
       \/ \E interval \in Intervals : Schedule(delay, priority, TRUE, interval)
  /\ UNCHANGED <<clockVars, loopVars>>

CallbackSchedules ==
  /\ phase = "callback"
  /\ \E e \in CallbackEvents : Schedule(e[1], e[2], FALSE, 0)
  /\ pushed' = TRUE
  /\ UNCHANGED <<clockVars, phase, limit, running, fired>>

(* cancel_event and pause_event: the original is marked, its copy is not. *)
Cancel(id) ==
  /\ MayCancel
  /\ active_events[id].active
  /\ active_events' = [active_events EXCEPT ![id].active = FALSE]
  /\ UNCHANGED <<event_queue, next_event_id, clockVars, loopVars>>

Resume(id) ==
  /\ MayCancel
  /\ ~active_events[id].active
  /\ active_events' =
       [active_events EXCEPT
          ![id].active = TRUE,
          ![id].timestamp = IF active_events[id].recurring /\ @ <= current_time
                              THEN current_time + active_events[id].interval ELSE @]
  /\ UNCHANGED <<event_queue, next_event_id, clockVars, loopVars>>

PauseClock(b) ==
  /\ paused # b
  /\ paused' = b
  /\ UNCHANGED <<queueVars, current_time, loopVars>>

(* The host's scheduler->set_time, which EventScheduler does not declare. *)
SetTime(t) ==
  /\ HostSetsTime
  /\ phase = "idle"
  /\ t \in current_time + 1 .. MaxTime
  /\ current_time' = t
  /\ UNCHANGED <<queueVars, paused, loopVars>>

(* reset; a new clock, and ids start again. *)
ResetQueue ==
  /\ phase = "idle"
  /\ next_event_id > 1
  /\ event_queue' = <<>>
  /\ active_events' = <<>>
  /\ next_event_id' = 1
  /\ current_time' = 0
  /\ paused' = FALSE
  /\ fired' = [id \in 1 .. MaxEvents |-> 0]
  /\ UNCHANGED <<phase, limit, running, pushed>>

-----------------------------------------------------------------------------
(* process_events and process_events_until, which share their loop. *)
Enter(t) ==
  /\ phase = "idle"
  /\ phase' = "process"
  /\ limit' = t
  /\ UNCHANGED <<queueVars, clockVars, running, pushed, fired>>

More == event_queue # <<>> /\ ~paused /\ event_queue[1].timestamp <= limit

Leave ==
  /\ phase = "process"
  /\ ~More
  /\ phase' = "idle"
  /\ UNCHANGED <<queueVars, clockVars, limit, running, pushed, fired>>

SkipInactive ==
  /\ phase = "process"
  /\ More
  /\ ~event_queue[1].active
  /\ event_queue' = Pop(event_queue)
  /\ UNCHANGED <<active_events, next_event_id, clockVars, loopVars>>

CallCallback ==
  /\ phase = "process"
  /\ More
  /\ event_queue[1].active
  /\ phase' = "callback"
  /\ running' = event_queue[1]
  /\ pushed' = FALSE
  /\ fired' = [fired EXCEPT ![running'.id] =
                 IF ~running'.recurring /\ @ < MaxFired THEN @ + 1 ELSE @]
  /\ UNCHANGED <<queueVars, clockVars, limit>>

(* Mutation: a recurring event is pushed and its old copy is not popped. *)
ReturnWithoutPop ==
  /\ phase = "callback"
  /\ LET event == event_queue[1] IN
       IF event.recurring /\ event.active
         THEN /\ active_events' = [active_events EXCEPT
                   ![event.id].timestamp = current_time + active_events[event.id].interval]
              /\ event_queue' = Push(event_queue, active_events'[event.id])
         ELSE /\ event_queue' = Pop(event_queue)
              /\ UNCHANGED active_events
  /\ phase' = "process"
  /\ running' = NoEvent
  /\ pushed' = FALSE
  /\ UNCHANGED <<next_event_id, clockVars, limit, fired>>

(* Mutation: a one-shot event stays in the queue. *)
ReturnKeepingOneShots ==
  /\ phase = "callback"
  /\ event_queue' = IF event_queue[1].recurring THEN Pop(event_queue) ELSE event_queue
  /\ phase' = "process"
  /\ running' = NoEvent
  /\ pushed' = FALSE
  /\ UNCHANGED <<active_events, next_event_id, clockVars, limit, fired>>

(* Mutation: the interval is not added when a recurring event is pushed. *)
ReturnWithoutInterval ==
  /\ phase = "callback"
  /\ LET event == event_queue[1] IN
       event_queue' = Pop(IF event.recurring /\ event.active
                            THEN Push(event_queue, active_events[event.id])
                            ELSE event_queue)
  /\ phase' = "process"
  /\ running' = NoEvent
  /\ pushed' = FALSE
  /\ UNCHANGED <<active_events, next_event_id, clockVars, limit, fired>>

(* The callback returns or throws.  The reference now names whatever is on   *)
(* top of the queue or, if a push has moved the vector, freed memory that    *)
(* may still hold the event that ran.  If it reads as recurring and active,  *)
(* the original is pushed again; then the top of the queue is popped.        *)
CallbackReturns ==
  /\ phase = "callback"
  /\ \E event \in {event_queue[1]} \cup (IF pushed THEN {running} ELSE {}) :
       IF event.recurring /\ event.active
         THEN /\ active_events' = [active_events EXCEPT
                   ![event.id].timestamp = current_time + active_events[event.id].interval]
              /\ event_queue' = Pop(Push(event_queue, active_events'[event.id]))
         ELSE /\ event_queue' = Pop(event_queue)
              /\ UNCHANGED active_events
  /\ phase' = "process"
  /\ running' = NoEvent
  /\ pushed' = FALSE
  /\ UNCHANGED <<next_event_id, clockVars, limit, fired>>

Process == Leave \/ SkipInactive \/ CallCallback \/ CallbackReturns

QueueNext ==
  \/ HostSchedules
  \/ CallbackSchedules
  \/ \E id \in DOMAIN active_events : Cancel(id) \/ Resume(id)
  \/ \E b \in BOOLEAN : PauseClock(b)
  \/ \E t \in 1 .. MaxTime : SetTime(t)
  \/ ResetQueue
  \/ Enter(current_time)
  \/ \E t \in Targets : Enter(t)
  \/ Process

QueueSpec == QueueInit /\ [][QueueNext]_schedulerVars

(* The host calls process_events for ever and a call that began goes on. *)
QueueFairSpec ==
  QueueSpec /\ WF_schedulerVars(Enter(current_time)) /\ WF_schedulerVars(Process)

-----------------------------------------------------------------------------
AllDelays == Delays \cup Intervals \cup {e[1] : e \in CallbackEvents}
AllPriorities == Priorities \cup {e[2] : e \in CallbackEvents}

(* How far ahead of the clock the event that runs may be: process_events runs *)
(* what is due, process_events_until also what is not.                       *)
Ahead == IF Targets = {} THEN {0} ELSE AllDelays

(* No callback schedules an event that goes ahead of the one that runs. *)
CallbacksGoBehind ==
  \A e \in CallbackEvents, p \in AllPriorities, d \in Ahead :
    \/ d < e[1]
    \/ d = e[1] /\ p <= e[2]

Queued(id) == {i \in DOMAIN event_queue : event_queue[i].id = id}

(* The queue stays a heap, so its top is the earliest and most urgent event, *)
(* and it holds each event at most once: no reschedule duplicates an event.  *)
(* While a callback runs the event that is running still is in the queue.    *)
QueueIsSane ==
  /\ \A i \in 2 .. Len(event_queue) : ~Greater(event_queue[i \div 2], event_queue[i])
  /\ \A id \in 1 .. MaxEvents : Cardinality(Queued(id)) <= 1
  /\ phase = "callback" => Queued(running.id) # {}

(* An event that is not recurring fires at most once, and leaves the queue   *)
(* without having fired only through reset.  True only if CallbacksGoBehind: *)
(* see PendingEventsAreProcessed.                                            *)
OneShotFiresOnce ==
  \A id \in DOMAIN active_events :
    ~active_events[id].recurring =>
       IF phase = "callback" /\ running.id = id THEN fired[id] = 1
       ELSE fired[id] + Cardinality(Queued(id)) = 1

(* An event that goes on top again each time it has fired: recurring with     *)
(* interval 0, which is what schedule_event gives a recurring event whose     *)
(* interval is left out (event_scheduler.h:103).                              *)
Endless(e) == e.active /\ e.recurring /\ e.interval = 0 /\ e.timestamp <= limit

(* process_events comes to an end, whatever is scheduled, cancelled, paused   *)
(* or resumed meanwhile, so that the host can advance the clock, unless an    *)
(* active recurring event of interval 0 is due: each of its firings leaves it *)
(* due, and the loop never ends.  Any other recurring event goes to a later   *)
(* time than the clock's.  process_events_until with a later time than the    *)
(* clock's has no such end.                                                   *)
ProcessingEnds ==
  (phase # "idle" /\ limit <= current_time)
    ~> (phase = "idle" \/ \E i \in DOMAIN event_queue : Endless(event_queue[i]))

(* Requirement 15.6 (.kiro/specs/esp32-virtual-sim/requirements.md:282),     *)
(* "process all pending timed events": a one-shot event that leaves the      *)
(* queue has fired, even if a callback scheduled it.                         *)
PendingEventsAreProcessed ==
  \A id \in DOMAIN active_events :
    ~active_events[id].recurring /\ Queued(id) = {} => fired[id] > 0

=============================================================================
