--------------------------- MODULE TaskScheduler ---------------------------
(***************************************************************************)
(* scheduler/task_scheduler.c: a pool of task control blocks, one intrusive *)
(* doubly linked ready list per priority, and scheduler_run_once, which the *)
(* main loop calls and which calls the entry point of the task it picks.    *)
(*                                                                          *)
(* Each API call holds scheduler_mutex for its whole effect, and is a step.  *)
(* run_once takes no lock: it wakes the expired tasks slot by slot, chooses,  *)
(* switches and, once the entry is back, may put the task on its list again,  *)
(* and a FreeRTOS task may call the API between any two of these steps.  Such *)
(* a call really interleaves with the statements of a step as well, which no  *)
(* state of this module shows: "raced" marks the runs in which it happened,   *)
(* and what the lists promise is promised of the other runs.                 *)
(***************************************************************************)
EXTENDS Integers, FiniteSets

CONSTANTS
  MaxTasks,     \* MAX_TASKS: slots of task_pool
  MaxPriority,  \* TASK_PRIORITY_CRITICAL; TASK_PRIORITY_IDLE is 0
  Configs,      \* [preemptive_enabled, time_slice_ms] passed to scheduler_init
  DeleteIds,    \* the ids that callers pass to scheduler_delete_task
  DeleteCurrent,\* whether a caller may delete the task current_task points to
  EntryKinds,   \* whether the entries of created tasks return: a subset of BOOLEAN
  MaxId,        \* bound: the ids that next_task_id hands out
  MaxTime,      \* bound: the clock stops here
  MaxDelay,     \* bound: the delays asked for
  FollowRaced,  \* bound: whether a run goes on once a call has overlapped run_once
  CounterMod    \* modulus of the uint32_t statistics

ASSUME SchedulerAssumption ==
  /\ MaxTasks \in Nat \ {0} /\ MaxPriority \in Nat
  /\ {MaxId, MaxTime, MaxDelay} \subseteq Nat
  /\ Configs \subseteq [preemptive_enabled : BOOLEAN, time_slice_ms : Nat]
  /\ {DeleteCurrent, FollowRaced} \cup EntryKinds \subseteq BOOLEAN
  /\ CounterMod \in Nat /\ CounterMod > MaxTasks

VARIABLES
  scheduler_config,
  task_pool,      \* slot -> the fields of its task_cb_t, the links apart
  ready_queue,    \* [head, next, prev]: ready_queue[] and the links of every slot
  current_task,   \* the slot last run, or NULL; run_once does not clear it
  next_task_id,
  scheduler_time, \* refreshed by run_once only
  stats,          \* scheduler_stats: total_tasks, ready_tasks, blocked_tasks
  pc,             \* where the main loop is
  scanned,        \* process_timeouts: the slots looked at
  next_task,      \* run_once: the task chosen and not yet switched to, or NULL
  raced           \* history: an API call has overlapped run_once's own list work

lists == <<task_pool, ready_queue, current_task, stats>>
run == <<scheduler_time, pc, scanned, next_task>>
vars == <<scheduler_config, lists, next_task_id, run, raced>>

Slot == 1 .. MaxTasks
Priority == 0 .. MaxPriority
NULL == 0

Free == [id |-> 0, state |-> "ready", priority |-> 0, timeout |-> 0,
         has_stack |-> FALSE, returns |-> TRUE, ran |-> FALSE]

(* Mutation: a task put on a list is not counted. *)
UpNot(n) == n

Up(n) == (n + 1) % CounterMod

Down(n) == (n + CounterMod - 1) % CounterMod

Lowest(S) == CHOOSE s \in S : \A t \in S : s <= t

(* The scan of get_next_ready_task, from TASK_PRIORITY_CRITICAL down. *)
MostUrgent(S) == CHOOSE p \in S : \A r \in S : r <= p

-----------------------------------------------------------------------------
(* The ready lists, as functions from a value of ready_queue to the next. *)

(* add_to_ready_queue: in front of the tasks of the same priority. *)
AddToReadyQueue(q, s, p) ==
  LET first == q.head[p] IN
  [head |-> [q.head EXCEPT ![p] = s],
   next |-> [q.next EXCEPT ![s] = first],
   prev |-> IF first = NULL THEN [q.prev EXCEPT ![s] = NULL]
                            ELSE [q.prev EXCEPT ![s] = NULL, ![first] = s]]

(* Mutation: the tasks behind the one taken are dropped. *)
TakeAll(q, p) ==
  LET s == q.head[p]
  IN [q EXCEPT !.head[p] = NULL, !.next[s] = NULL]

(* get_next_ready_task, once the priority is chosen. *)
TakeFirst(q, p) ==
  LET s == q.head[p]
      second == q.next[s]
  IN [head |-> [q.head EXCEPT ![p] = second],
      next |-> [q.next EXCEPT ![s] = NULL],
      prev |-> IF second = NULL THEN [q.prev EXCEPT ![s] = NULL]
                                ELSE [q.prev EXCEPT ![second] = NULL, ![s] = NULL]]

(* Mutation: the successor keeps its link to the task removed. *)
RemoveFromNextLinks(q, s, p) ==
  LET before == q.prev[s]
      after == q.next[s]
  IN IF before = NULL /\ q.head[p] # s
       THEN q
       ELSE [head |-> IF before = NULL THEN [q.head EXCEPT ![p] = after] ELSE q.head,
             next |-> IF before = NULL THEN [q.next EXCEPT ![s] = NULL]
                                       ELSE [q.next EXCEPT ![before] = after, ![s] = NULL],
             prev |-> [q.prev EXCEPT ![s] = NULL]]

RemoveFromReadyQueue(q, s, p) ==
  LET before == q.prev[s]
      after == q.next[s]
      fixed == IF after = NULL THEN q.prev ELSE [q.prev EXCEPT ![after] = before]
  IN IF before = NULL /\ q.head[p] # s
       THEN q
       ELSE [head |-> IF before = NULL THEN [q.head EXCEPT ![p] = after] ELSE q.head,
             next |-> IF before = NULL THEN [q.next EXCEPT ![s] = NULL]
                                       ELSE [q.next EXCEPT ![before] = after, ![s] = NULL],
             prev |-> [fixed EXCEPT ![s] = NULL]]

EmptyQueues == [head |-> [p \in Priority |-> NULL],
                next |-> [s \in Slot |-> NULL],
                prev |-> [s \in Slot |-> NULL]]

-----------------------------------------------------------------------------
NewTask(p, returns) == [Free EXCEPT !.id = next_task_id, !.priority = p, !.returns = returns]

(* After scheduler_init: the idle task, whose entry never returns, is queued. *)
Init ==
  /\ scheduler_config \in Configs
  /\ next_task_id = 2
  /\ task_pool = [s \in Slot |-> IF s = 1 THEN [Free EXCEPT !.id = 1, !.has_stack = TRUE,
                                                            !.returns = FALSE]
                                          ELSE Free]
  /\ ready_queue = AddToReadyQueue(EmptyQueues, 1, 0)
  /\ current_task = NULL
  /\ scheduler_time = 0
  /\ stats = [total_tasks |-> 1, ready_tasks |-> 1, blocked_tasks |-> 0]
  /\ pc = "loop"
  /\ scanned = 0
  /\ next_task = NULL
  /\ raced = FALSE

FreeSlots == {s \in Slot : task_pool[s].id = 0}

(* The processor is still executing: API calls can happen. *)
Alive == pc # "crashed"

(* A call meets run_once at work without the mutex.  What is left of it once  *)
(* the next task is chosen touches no list and no free slot.                 *)
Overlaps == raced' = (raced \/ pc \in {"scan", "switch", "slice"})

OverlapsLists == raced' = (raced \/ pc \in {"scan", "slice"})

(* scheduler_create_task.  When malloc fails the slot keeps its new id. *)
CreateTask(p, returns) ==
  /\ Alive
  /\ FreeSlots # {}
  /\ next_task_id <= MaxId
  /\ LET s == Lowest(FreeSlots)
         q == [ready_queue EXCEPT !.next[s] = NULL, !.prev[s] = NULL]
     IN \/ /\ task_pool' = [task_pool EXCEPT ![s] = [NewTask(p, returns) EXCEPT !.has_stack = TRUE]]
           /\ ready_queue' = AddToReadyQueue(q, s, p)
           /\ stats' = [stats EXCEPT !.total_tasks = Up(@), !.ready_tasks = Up(@)]
        \/ /\ task_pool' = [task_pool EXCEPT ![s] = NewTask(p, returns)]
           /\ ready_queue' = q
           /\ UNCHANGED stats
  /\ next_task_id' = next_task_id + 1
  /\ OverlapsLists
  /\ UNCHANGED <<scheduler_config, current_task, run>>

(* scheduler_delete_task: the first slot with that id, which for id 0 is a  *)
(* free slot.  ready_tasks, blocked_tasks and current_task are left alone.  *)
DeleteTask(id) ==
  /\ Alive
  /\ \E s \in Slot :
       /\ task_pool[s].id = id
       /\ \A t \in 1 .. s - 1 : task_pool[t].id # id
       /\ s = current_task => DeleteCurrent
       /\ ready_queue' = IF task_pool[s].state = "ready"
                           THEN RemoveFromReadyQueue(ready_queue, s, task_pool[s].priority)
                           ELSE ready_queue
       /\ task_pool' = [task_pool EXCEPT ![s].has_stack = FALSE, ![s].state = "deleted",
                                         ![s].id = 0]
  /\ stats' = [stats EXCEPT !.total_tasks = Down(@)]
  /\ Overlaps
  /\ UNCHANGED <<scheduler_config, current_task, next_task_id, run>>

(* The effect of scheduler_yield on a pool and the statistics it finds. *)
Requeue(pool, st) ==
  /\ task_pool' = [pool EXCEPT ![current_task].state = "ready"]
  /\ ready_queue' = AddToReadyQueue(ready_queue, current_task, pool[current_task].priority)
  /\ stats' = [st EXCEPT !.ready_tasks = Up(@)]
  /\ current_task' = NULL

Yield ==
  /\ Alive
  /\ current_task # NULL
  /\ Requeue(task_pool, stats)
  /\ Overlaps
  /\ UNCHANGED <<scheduler_config, next_task_id, run>>

(* scheduler_delay marks the task blocked, releases the mutex and yields,   *)
(* which makes it ready again unless the mutex cannot be had within 10 ms.  *)
(* A yield that comes after other calls is a Yield of its own.              *)
Delay(ms) ==
  /\ Alive
  /\ current_task # NULL
  /\ LET pool == [task_pool EXCEPT ![current_task].state = "blocked",
                                   ![current_task].timeout = scheduler_time + ms]
         st == [stats EXCEPT !.blocked_tasks = Up(@)]
     IN \/ Requeue(pool, st)
        \/ task_pool' = pool /\ stats' = st /\ UNCHANGED <<ready_queue, current_task>>
  /\ Overlaps
  /\ UNCHANGED <<scheduler_config, next_task_id, run>>

-----------------------------------------------------------------------------
(* scheduler_run_once, up to process_timeouts. *)
BeginRun ==
  /\ pc = "loop"
  /\ scheduler_time' \in scheduler_time .. MaxTime
  /\ pc' = "scan"
  /\ UNCHANGED <<scheduler_config, lists, next_task_id, scanned, next_task, raced>>

Expired(s) ==
  /\ task_pool[s].id # 0
  /\ task_pool[s].state = "blocked"
  /\ task_pool[s].timeout > 0
  /\ scheduler_time >= task_pool[s].timeout

(* process_timeouts, the next slot of the pool. *)
ScanSlot ==
  /\ pc = "scan"
  /\ scanned < MaxTasks
  /\ scanned' = scanned + 1
  /\ LET s == scanned + 1
     IN IF Expired(s)
        THEN /\ task_pool' = [task_pool EXCEPT ![s].state = "ready"]
             /\ ready_queue' = AddToReadyQueue(ready_queue, s, task_pool[s].priority)
             /\ stats' = [stats EXCEPT !.ready_tasks = Up(@), !.blocked_tasks = Down(@)]
        ELSE UNCHANGED <<task_pool, ready_queue, stats>>
  /\ UNCHANGED <<scheduler_config, current_task, next_task_id, scheduler_time, pc,
                 next_task, raced>>

Fronts == {p \in Priority : ready_queue.head[p] # NULL}

(* get_next_ready_task, when every list is empty and when one is not. *)
FindNone ==
  /\ pc = "scan" /\ scanned = MaxTasks
  /\ Fronts = {}
  /\ pc' = "loop"
  /\ scanned' = 0
  /\ UNCHANGED <<scheduler_config, lists, next_task_id, scheduler_time, next_task, raced>>

Choose ==
  /\ pc = "scan" /\ scanned = MaxTasks
  /\ Fronts # {}
  /\ LET p == MostUrgent(Fronts)
     IN /\ next_task' = ready_queue.head[p]
        /\ ready_queue' = TakeFirst(ready_queue, p)
  /\ stats' = [stats EXCEPT !.ready_tasks = Down(@)]
  /\ pc' = "switch"
  /\ scanned' = 0
  /\ UNCHANGED <<scheduler_config, task_pool, current_task, next_task_id,
                 scheduler_time, raced>>

(* run_once from the choice to the call of the entry point.  current_task    *)
(* may still point to the task that ran before: context_switch makes that    *)
(* one ready, and puts it on no list.                                       *)
Switch ==
  /\ pc = "switch"
  /\ LET switched == IF current_task \in {NULL, next_task} THEN task_pool
                     ELSE [task_pool EXCEPT ![current_task].state = "ready"]
     IN task_pool' = [switched EXCEPT ![next_task].state = "running",
                                      ![next_task].ran = TRUE]
  /\ current_task' = next_task
  /\ next_task' = NULL
  /\ pc' = IF task_pool[next_task].returns THEN "entry" ELSE "hung"
  /\ UNCHANGED <<scheduler_config, ready_queue, stats, next_task_id, scheduler_time,
                 scanned, raced>>

(* The entry point returns into run_once, which goes on with current_task:  *)
(* a null pointer if the task has yielded meanwhile.  run_time is 0, since  *)
(* nothing refreshed scheduler_time.                                        *)
EntryReturns ==
  /\ pc = "entry"
  /\ pc' = IF current_task = NULL THEN "crashed"
           ELSE IF scheduler_config.preemptive_enabled /\ scheduler_config.time_slice_ms = 0
           THEN "slice" ELSE "loop"
  /\ UNCHANGED <<scheduler_config, lists, next_task_id, scheduler_time, scanned,
                 next_task, raced>>

(* The end of the time slice: the task goes back on its list. *)
EndSlice ==
  /\ pc = "slice"
  /\ IF current_task = NULL THEN pc' = "crashed" /\ UNCHANGED lists
     ELSE pc' = "loop" /\ Requeue(task_pool, stats)
  /\ UNCHANGED <<scheduler_config, next_task_id, scheduler_time, scanned, next_task, raced>>

Followed == raced => FollowRaced

Next ==
  \/ \E p \in Priority, returns \in EntryKinds : Followed /\ CreateTask(p, returns)
  \/ \E id \in DeleteIds : Followed /\ DeleteTask(id)
  \/ Followed /\ Yield
  \/ \E ms \in 1 .. MaxDelay : Followed /\ Delay(ms)
  \/ Followed /\ BeginRun
  \/ Followed /\ ScanSlot
  \/ Followed /\ FindNone
  \/ Followed /\ Choose
  \/ Followed /\ Switch
  \/ Followed /\ EntryReturns
  \/ Followed /\ EndSlice

Spec == Init /\ [][Next]_vars

-----------------------------------------------------------------------------
(* What is found on list p by following next from its front, and NULL when   *)
(* the list has ended.                                                       *)
Walk(p) ==
  LET at[n \in 0 .. MaxTasks] ==
        IF n = 0 THEN ready_queue.head[p]
        ELSE IF at[n - 1] = NULL THEN NULL ELSE ready_queue.next[at[n - 1]]
  IN at

OnList(p) == LET at == Walk(p) IN {at[n] : n \in 0 .. MaxTasks} \ {NULL}

Queued(s) == \E p \in Priority : s \in OnList(p)

(* As long as no API call has overlapped run_once, every ready list ends,    *)
(* its links agree in both directions, and it holds live ready tasks of its *)
(* own priority only; a task off the lists has no links.  run_once and       *)
(* remove_from_ready_queue rely on all of it.  It needs a caller that never  *)
(* deletes the task current_task points to: scheduler_delete_task leaves    *)
(* that pointer, and a later yield queues the freed slot.                   *)
ReadyQueueWellFormed ==
  ~raced =>
    /\ \A p \in Priority :
         /\ Walk(p)[MaxTasks] = NULL
         /\ \A s \in OnList(p) :
              /\ task_pool[s].id # 0
              /\ task_pool[s].state = "ready"
              /\ task_pool[s].priority = p
              /\ (ready_queue.prev[s] = NULL) <=> (ready_queue.head[p] = s)
              /\ ready_queue.next[s] # NULL => ready_queue.prev[ready_queue.next[s]] = s
    /\ \A s \in Slot : ~Queued(s) => ready_queue.next[s] = NULL /\ ready_queue.prev[s] = NULL

(* Up to the first such overlap, a task that was created with a stack and    *)
(* has not run yet is on a list or is the one that run_once has chosen: no   *)
(* interleaving of creations, deletions, yields, wake-ups and choices drops  *)
(* it.                                                                      *)
CreatedTaskIsQueued ==
  ~raced =>
    \A s \in Slot :
      task_pool[s].id # 0 /\ task_pool[s].has_stack /\ ~task_pool[s].ran =>
        Queued(s) \/ s = next_task

(* Up to the first such overlap, run_once chooses no task while a more       *)
(* urgent one is on a list, or sleeps past its timeout: process_timeouts has *)
(* woken every one.  A task created after the choice waits for the next call. *)
HighestPriorityFirst ==
  [][Choose /\ ~raced =>
       \A s \in Slot :
         Queued(s) \/ Expired(s)
           => task_pool[s].priority <= task_pool[next_task'].priority]_vars

(* Up to the first such overlap, ready_tasks is never behind the ready      *)
(* lists, so that taking a task off a list cannot wrap it: every addition is *)
(* counted, and deletions that are not counted only leave it too high.      *)
ReadyCountCoversQueue ==
  ~raced => stats.ready_tasks >= Cardinality({s \in Slot : Queued(s)})
=============================================================================
