# Verification of the ESP32 small OS and its simulators

TLA+ specifications of the firmware in this repository (interrupt handling, task
scheduling, memory pools, WiFi and settings) and of the simulators that run it (the
virtual-time event scheduler, the desktop engine with its firmware loader and UART,
the stand-alone window with its GPIO pins, components and logic analyzer), the TLC
configurations that check them on small instances, and TLAPS proofs that hold for
every value of the constants. `PROJECT.json` maps every definition to the
source lines it stands for; paths below are relative to `src/`.

Contents: [the system](#1-the-system), [what is hard in it](#2-what-is-hard-in-it), [the
modules](#3-the-modules), [the runs](#4-the-runs), [fairness](#5-fairness), [the
proofs](#6-the-proofs), [what the code does and its documents
deny](#7-where-code-and-documents-disagree), [what is not
modelled](#8-what-is-not-modelled), [the plan](#9-plan).

## 1. The system

The repository holds three programs around one chip.

* **The firmware** (`main/main.c` and the directories beside it). `app_main` opens
  the settings, initialises the memory pools, configures pins, initialises the
  interrupt handler and registers pin 0, initialises the scheduler, WiFi and the
  HTTP server, and then loops: `interrupt_process_events`, `scheduler_run_once`,
  sleep 10 ms. It runs on FreeRTOS: GPIO interrupts, the loop, `wifi_task` and the
  event task of ESP-IDF are concurrent.
* **The second firmware** (`main/scheduler.c`, `gpio_manager.c`, `auth.c`, ... as an
  ESP-IDF component): a smaller task list, a session, and web pages.
* **The simulators** (`simulator/` and `DesktopApp/`): a virtual clock with timed
  events, memory, an instruction-set simulator, peripherals, and a Qt program whose
  engine runs them in a thread of their own.

| Component | State | Operations | Talks to | What makes it correct |
|---|---|---|---|---|
| Interrupt handler, `interrupt/interrupt_handler.c` | table of sources; ring filled by ISRs with head, tail and a binary semaphore; FreeRTOS queue; debounce fields per row | register, unregister, enable, `gpio_isr_handler`, `interrupt_post_event`, `interrupt_get_event`, `interrupt_process_events` | GPIO interrupts; main loop; posts to the task scheduler's event queue | order kept, nothing read that was not queued, a loss only when full, an armed pin has a row, accepted events reach the dispatch |
| Task scheduler, `scheduler/task_scheduler.c` | pool of TCBs, one intrusive doubly linked list per priority, `current_task`, clock copy, counters, event queue | create, delete, yield, delay, timeouts, `scheduler_run_once`, post and get events | main loop; task entries call back into it | lists well formed, no task lost, the most urgent chosen, delays respected |
| Memory pools, `memory/memory_pool.c` | bitmap and counters per pool, record table, statistics | allocate (pool, heap, debug), free, reallocate, validate, detect leaks | `app_main` | a block is in one pair of hands, counters agree with bitmaps, records survive |
| WiFi manager, `network/wifi_manager.c` | state, configuration, mutex, scan flag | connect, disconnect, scan, set auto-reconnect, `wifi_task`, `wifi_event_handler` | ESP-IDF driver and event task | the state tells of the link, retries happen, callers do not disturb each other |
| Settings, `storage/nvs_storage.c` | one open NVS handle, mutex, statistics | set, get, delete | NVS library and flash | what is reported done survives a restart, nothing unfinished is read |
| HTTP server, `http/http_server.c` | client slots, endpoint table, socket | register endpoint, find handler, parse, process client | lwIP sockets; nothing accepts a client | slots are freed, one handler per path and method |
| GPIO HAL, `gpio/gpio_hal.c` | table of pins, channel tables for PWM and ADC | configure, set, get, toggle, read ADC, set PWM | hardware | a pin has one mode, a channel one pin |
| Logger, `utils/logger.c` | configuration, ring buffer, mutex | log, and a task that writes out | console, file, network | lines whole, in order |
| Authentication, `security/auth.c` | users, sessions, failed attempts | create, authenticate, lock, sessions | HTTP server | lockout and expiry |
| Boot and main loop, `main/main.c`, `bootloader/` | none of its own | the start-up sequence and the loop | everything above | order of initialisation; the loop comes round |
| Second firmware, `main/*.c` except `main.c` | singly linked task list, one session, page tables | push, run, log in, serve | FreeRTOS, HTTP | every task gets its turn, one session at a time |
| Virtual-time scheduler, `simulator/core/scheduler/event_scheduler.cpp` | clock, heap of event copies, list of originals; clients Timer, InterruptController, DMAController | schedule, cancel, pause, resume, `process_events`, `process_events_until`, reset | host program; callbacks of events | events fire once, in order, not early; the loops end |
| Memory model, `simulator/core/memory/memory_model.cpp` | regions by base address, MMIO handlers, watchpoints | add a region, read, write | the firmware loader, the instruction-set simulator | one region answers for an address, also where regions overlap |
| ELF loader, `simulator/core/elf_loader/elf_loader.cpp`, and `loadFirmware` of the engine | one loader for all loads: headers, segments, symbols; entry point, loaded flag, firmware information | load, validate, write the segments, set the entry point, reset | memory model, engine, window | what is said to be loaded is in memory; what is refused changes nothing; a later load does not suffer from an earlier one |
| Instruction-set simulator, `simulator/core/iss/xtensa_iss.cpp` | registers, halted state | step, run, reset | memory model, engine | instruction semantics |
| Simulation engine, `DesktopApp/src/core/simulation_engine.cpp` | `state_`, `sim_thread_running_`, the thread, pending events, statistics | start, stop, pause, step, reset, load, shutdown; `simulationLoop`, `tick` | window (signals), simulator cores | threads started and joined in turn, `stop` returns, components outlive their users, buttons follow |
| UART, `DesktopApp/src/peripherals/uart_controller.cpp` | configuration; two FIFOs; the bit machines of transmitter and receiver; accumulated time; error counters | `writeByte`, `readByte`, `receiveBit`, `configure`, `tick`, `reset` | engine (`tick`), a peer over a wire | bytes arrive once and in order; the frame on the line is the oldest byte's; a full FIFO gets room |
| Other desktop peripherals and the debug controller | register tables, breakpoints | reads, writes, set and clear | tests only | no self-deadlock |
| GPIO model, `simulator/peripherals/gpio/gpio_model.cpp` | per pin: mode, flags, levels, interrupt, ADC, DAC, PWM; copies of the PWM settings | some twenty setters and `configure_pin`; a callback per event | the stand-alone window | an input drives nothing, pending interrupts are enabled, copies agree |
| Workspace and logic analyzer, `simulator/gui/*_widget.cpp` | components by pin, what each shows and feeds back; waveform points | add, remove, press, release, slide, repaint every 100 ms; capture | GPIO model, from within its callback | a component follows its pin; a pin does not stay connected to a component that is gone; the waveform has no gap |
| Desktop window, wireless simulators, demonstration programs, tests | widgets; stubs; fixed scripts | | engine | buttons enabled when allowed |

## 2. What is hard in it

* **Interleaving without locks.** An interrupt fires between any two accesses of
  `interrupt_get_event`; the Qt thread and the simulation thread share two atomics
  and no lock; `wifi_event_handler` writes the state that callers write under a mutex;
  `scheduler_run_once` walks and changes the lists without the mutex that every other
  function of the task scheduler takes.
* **State kept across a call that changes it.** `process_single_event` holds a
  reference to the top of the queue across a callback that may push;
  `scheduler_run_once` uses `current_task` after an entry that may have yielded;
  `wifi_manager_connect` writes CONNECTING after the driver may have connected.
* **Two copies of one thing.** Events in heap and list; records of blocks that are
  never removed; the handle's view of the settings and the flash; the level of a pin
  and what a component shows; the duty cycle in a pin and in a table.
* **What is left over from before.** Headers and symbols of an earlier firmware in a
  loader that is used again; a start bit the receiver saw before a reset; bit time
  gathered while nothing was sent; an output level that outlives the mode that set it.
* **Intrusive structures** that every legal sequence of calls must keep well formed.
* **Limits**: a ring with one empty slot, full queues, a full record table, a waveform
  that drops a thousand points at once, unsigned counters and 32-bit sums without tests.
* **Failure**: commits that fail after the write, power lost between them, driver
  calls refused half way, `malloc` and hardware configuration that fail after a slot
  was taken.
* **Progress**: interrupts starve task events, a task that does not return keeps the main
  loop, callbacks schedule further events and recurring ones may stay due, `stop` joins a
  thread from the window's thread, a retry needs a contended mutex, a UART moves only if
  it is told that time has gone by.

`PROJECT.json` lists the hazards line by line, with the property that would catch
each, or why none does.

## 3. The modules

| Module | Models | Uses |
|---|---|---|
| `LossyFifo` | abstract: a bounded FIFO with one reader that loses only the event that finds it full | |
| `IsrRing` | the ISR ring of the interrupt handler, one access per step | implements `LossyFifo` |
| `InterruptHandler` | registration, debouncing, posting, the main loop | instantiates `IsrRing` |
| `TaskScheduler` | TCB pool, ready lists, `run_once` step by step, API calls at any point of it | |
| `BlockAllocator` | abstract: what an allocator promises its callers | |
| `MemoryPool` | pools, heap, records, leak detection | implements `BlockAllocator` |
| `EventScheduler` | virtual time, the heap, callbacks | |
| `SimulationEngine` | Qt thread against simulation thread | |
| `FirmwareLoader` | File > Load Firmware: ELF loader, regions, engine | |
| `UartController` | one UART, alone or with its transmitter wired to its receiver | |
| `GpioModel` | what each operation makes of one pin, and the events it emits: operators, no variables | |
| `GpioBench` | all pins, the components on them, the logic analyzer, the timer | extends `GpioModel` |
| `WifiManager` | callers, `wifi_task`, event task, driver | |
| `DoubtfulStore` | abstract: a store whose failed writes stay in doubt | |
| `NvsStorage` | setters with commits, failures and restarts | implements `DoubtfulStore` |
| `...Proofs` | theorems about the module they are named after | `TLAPS`; `InterruptHandlerProofs` instantiates `IsrRingProofs` |
| `DesktopProofs` | theorems about the simulators: `EventScheduler`, `SimulationEngine`, `FirmwareLoader`, `UartController`, `GpioBench` | extends the five |
| `Counting` | lemmas on natural numbers and on repeating a step, for the proofs that need an induction | |
| `MC...` | instances for TLC | |

What the five simulator modules declare carries the component's name where it would
be the same in two of them (`QueueNext`, `LoaderNext`, `UartNext`, `BenchNext`,
`TickUart`, `ResetQueue`), because one module proves about all of them.

Variables carry the names of the code's globals and members (`isr_queue_head`,
`ready_queue`, `event_queue`, `state_`, `wifi_mutex`); `pc`, `gui`, `sim`, `task` and
`handler` say where a thread is. What a variable records only for a property is
marked *history*; what belongs to a library is marked *external*. Operators called
"Mutation" in their comment are deliberately wrong versions of the definition they
precede; no specification uses them. They serve to show that the properties can fail.

**Ring and interrupt handler.** `Push` is one step, because a handler runs to its
end on the core it interrupts; `interrupt_get_event` is five: `TakeSem`, `CheckRing`,
`CopyEvent`, `AdvanceTail`, `GiveSem`. The ring is single-producer: on one core GPIO
handlers do not interrupt each other. `InterruptHandler` adds the table (`Register`
takes the first row whose pin is 0, before the hardware is configured and whether or
not that succeeds), `Debounced` (the code's switch as a function from a row to a
row), `PostEvent`, and `Dispatch`, which forwards GPIO events only while their pin
has a source and drops what the scheduler's queue has no room for. `loop` says which of
its two calls the main loop is in: `NothingPending` ends `interrupt_process_events`,
`RunOnceReturns` ends `scheduler_run_once`, and nothing obliges the latter to happen.

**Task scheduler.** The ready lists are values `[head, next, prev]` and the list
operations functions on them. Each function of the API holds `scheduler_mutex` for its
whole effect and is a step. `scheduler_run_once` holds nothing and is several:
`BeginRun` reads the clock, `ScanSlot` is `process_timeouts` at one slot, `FindNone` or
`Choose` is `get_next_ready_task`, `Switch` goes on to the call of the entry,
`EntryReturns` to the test of the time slice and `EndSlice` through the requeueing at its
end. `CreateTask`, `DeleteTask`, `Yield` and `Delay` may come between any two of them, from
the entry or from another FreeRTOS task. Such a call may also fall between two statements
of one of these steps, and there the code has a data race on the lists. The history
variable `raced` is set by every call that meets `run_once` at its list work (for
`CreateTask` not between choice and entry, where `run_once` touches nothing it uses), and
the properties speak of a run up to that moment. The entry of a task, and with it every
call an entry makes, is outside of that work and never sets it; so is a call of another
task while an entry runs or the main loop sleeps. In this repository only
`app_main` (`main.c:453-457`), the `main` of `sim/sim_main.c` and entries call the API, one
after the other, so its own runs never race; the header does not say that another task may
not. `pc = "crashed"` is the null pointer that `run_once`
uses after an entry that yielded, `pc = "hung"` an entry that does not return, the idle
task's among them. A walk along a list is a recursive function (`Walk`) over the number of
its steps.

**Memory pools.** Each call is a step: the module has no lock and one user. A
pointer is a pair of pool and block, or a heap address. `held` counts how often a
pointer was handed out and not given back; the callers free only what they hold.
`traced` is history: the blocks that a debug call has handed out while the table had
room, and that are still held; it knows nothing of the table. Statistics are words modulo
`WordSize`.

**Event scheduler.** `event_queue` is the array of a `std::priority_queue`, with libstdc++'s
push and pop, in which a hole moves up (`Rise`, `SiftUp`) or down to a leaf (`Fall`, `Sink`)
before a value is put into it; `active_events` the originals. `CallCallback` and
`CallbackReturns` are the two halves of `process_single_event`; between them callbacks
schedule and cancel. A reference that a push may have invalidated reads either as the new
top of the queue or as the event that ran (`CallbackReturns`). `CallbacksGoBehind` says of
the constants that no callback schedules an event that goes ahead of the one that runs, by
time or by priority; without it events are lost, which is the run `event_urgent_lost`.

**Simulation engine.** Every access to a shared atomic is a step of one of two
threads. The buttons press only what `updateUIBasedOnState` enabled (`uiRunning`);
a signal of the simulation thread is queued, one of the Qt thread immediate. The
processor is HALTED from its reset on, and nothing calls `run()`, so each `tick`
ends in ERROR: that is what the code does, and why ERROR is a common state here.

**WiFi manager.** Callers hold `wifi_mutex` over several driver calls, one step
each, any of which may fail. The event handler writes twice for a lost link
(DISCONNECTED, then RECONNECTING) and takes no lock. The driver joins and loses
networks when it likes and queues an event for each change.

**Settings.** `Write` takes the mutex and writes through the handle; `Commit` or
`CommitFails` ends the call. `Restart` may happen at any step and finds any mixture
of what was committed and what was written. `doubt` records what failed calls wrote.
`DeleteMissing` and `ReturnMissing` are the deletion of a key the handle does not find,
which returns `ESP_OK` and commits nothing; `DoubtfulStore` gives it an outcome of its own,
because after a deletion whose commit failed it promises less than the others.

**Firmware loader.** One loader serves every load, so its state is a variable:
`ParseHeaders` keeps the vectors of the file before when the new file has no headers,
`ParseSymbols` appends. A load (`LoadFirmwareFile`) is one step of the Qt thread and ends in
`Refuse`, `Complete` or `Abort`; the last is the exception that `write_byte` throws for an
address no RAM holds, after the bytes before it were written. A byte of memory is told by
the file it comes from and by whether it is data or a zero of its BSS; what a file contains
(which offsets lie inside it) is a constant, `Elf`. What a load leaves at an address is
written down in closed form, the last byte written there. The loader compares sums of two
`uint32_t` with the size of the file, so `Passes` takes them modulo `WordSize`; a sum that
wraps lets a range pass that lies outside the file, and the copy of it from `elf_data` reads
outside the vector, which is undefined: what such a read makes of the load is left open, the
end of the application included.

**UART.** `mutex_` makes each operation one step. A byte is the set of its one
bits. `TickUart` moves the transmitter by as many bits as the gathered time holds, up to
the end of a frame (`Transmit`), and lets the receiver
sample its pin once (`Receive`): it counts calls, not time. Nothing restricts what `tick`
is told, zero included. `bench` chooses the client: one that writes and reconfigures, one
that drives the receiver's pin as it likes, or a wire that carries the transmitter's level
back when it likes. `in_flight` and `skewed` are history: what the wire still owes, and
whether something has put it off its timing, after which nothing is promised: a tick that
was not `OnTime` (half a bit gone by, the wire's level carried), a frame that starts with
bit time already gathered, or a reset. Without parity a frame is one stop bit short for
the receiver; `LinkConfigsWork` names the configurations of a wire that can work.

**GPIO and the bench.** An operation of `GpioModel` maps the record of a pin to the
record it leaves and the sequence of events it emits; `GpioBench` applies that sequence,
in order and inside the step, to the logic analyzer and to the component on the pin, as
the window's one callback does (`AddPoints` for the analyzer, which keeps the `Latest`
points of a channel that overflows). Only the reset of the simulation emits nothing. A
voltage is one of five steps around the threshold; a pin is told by what it can do.

## 4. The runs

Passing runs, with two TLC workers, about as long and as large as given:

| Run | Checks | States |
|---|---|---|
| `isr_ring` | `ReadIsStable`, `NeverSkipped`; `ImplementsFifo` | 9 k |
| `interrupt_handler` | `ArmedPinHasSource`; `TaskEventIsDispatched`, `IsrEventIsDispatched` | 354 k, 60 s |
| `task_scheduler` | `ReadyQueueWellFormed`, `CreatedTaskIsQueued`, `ReadyCountCoversQueue`; `HighestPriorityFirst` | 2.4 M, 80 s |
| `event_scheduler` | `QueueIsSane`, `OneShotFiresOnce`; `ProcessingEnds` | 272 k, 90 s |
| `simulation_engine` | `NoThreadIsReplaced`, `ButtonsCatchUp`; `StopReturns` | 651 |
| `memory_pool` | `RecordsSurvive`, `NoLeakIsMissed`; `ImplementsAllocator` | 149 k, 25 s |
| `wifi_manager` | `ConnectedIsBacked`; `OwnNetworkIsJoined`, `DisabledIsNotRetried`; `RetryIsAttempted` | 240 k |
| `nvs_storage` | `ReadableIsCommitted`; `ImplementsStore`; `MutexIsReleased` | 554 k, 70 s |
| `uart_controller` | `FrontIsOnTheLine`, `LinkIsClean`; `LinkDelivers`, `OnlyResetDeafens`; `FullFifoDrains` | 98 k, 15 s |
| `gpio_bench` | `InputsDriveNothing`, `ConnectedIsPlaced`, `WaveformIsRecent`; `LedFollowsPin`; `LedCatchesUp` | 134 k, 175 s |
| `firmware_loader` | `LoadedIsInMemory`, `OnlyUnwritableAborts`, `RetryWorks`; `RefusedChangesNothing` | 2.5 k, 17 s |

What they show, one sentence each. *isr_ring*: an interrupt at any point of the reader's
five steps neither changes what is being copied nor is skipped, and the ring is a lossy
FIFO. *interrupt_handler*: no order of registrations leaves an armed pin without a row,
and what was accepted is dispatched if `scheduler_run_once` comes back each time.
*task_scheduler*: no interleaving of creations, deletions, yields, delays and steps of
`run_once` breaks a list, drops a task, wraps the count or chooses the less urgent, up to
the first call that overlaps `run_once` at its list work. *event_scheduler*: with callbacks
that schedule for later, every one-shot event fires exactly once, and the loop ends unless
a recurring event of interval 0 is due. *simulation_engine*: buttons never replace a live
thread, and `stop` returns from every state. *memory_pool*: an allocator, and a block that
was handed out with a record stays in the leak figure until it is given back, through all
the shifts of the table that frees of heap pointers cause. *wifi_manager*: CONNECTED has a
link behind it, callers do not join each other's networks, a retry in RECONNECTING is
attempted. *nvs_storage*: what was committed and reported done survives any restart; a
deletion that found nothing to delete promises only what the failed calls before it left.
*uart_controller*: a looped UART that is ticked on time delivers each byte once and in
order, only a reset makes a receiver deaf, and a full FIFO gets room if time goes by.
*gpio_bench*: whatever is done to a pin, an LED that shows its level goes on showing it,
and a waveform is the end of what was emitted. *firmware_loader*: however loads follow
each other, a well-formed firmware that counts as loaded is in memory, and what is refused
has changed nothing.

Some of these are conditional, because the code gives them no more: `RunOnceComesBack`,
`~raced`, `Endless`, `~skewed` and `TimeGoesBy` name the situations in which the code keeps,
or does not keep, the promise. Each is needed: without it TLC finds the property violated on
the same instance (with `FollowRaced` or `FollowSkewed` true, and for
`HighestPriorityFirst` with `MaxId = 6`, by simulation). Section 7 tells what that means in
the program.

Type invariants are not among the runs' properties; the proofs establish them (section 6).

A run in which TLC shows that the code does not do what its documents say:

| Run | Property | Shortest behaviour |
|---|---|---|
| `event_urgent_lost` | `PendingEventsAreProcessed` | a callback schedules a CRITICAL event; it is popped in place of the one that ran, unfired |

**Bounds, and why they are enough.**
`isr_ring`: four slots, so that the ring wraps, fills and empties at every offset,
and two events, so that order shows; the proof removes both bounds.
`interrupt_handler`: two pins with GPIO 0 among them, as many rows as pins, and a ring
and queues of one usable place each, so that every queue is full and empty in every
combination. The count of losses saturates at `MaxMissed`; losses go on.
`task_scheduler`: the idle task and two others on two priorities: the shortest lists
with a first, a last and, in the list of two that gains a member, a middle element;
ids 1 to 3 and times up to 1 let slots be reused and a delay expire or not. A caller
does not delete the task `current_task` points to (`DeleteCurrent = FALSE`): see
section 7. A run that has `raced` is not followed (`FollowRaced = FALSE`), because nothing is
claimed of it. Deadlock is not checked, because a hung or crashed loop really stops.
`event_scheduler`: three events, the least for which a heap has two children to
choose from; recurring ones of interval 0 and 1, the one that stays due and one that does
not; callbacks that schedule for later, which satisfies `CallbacksGoBehind` (the other case is
`event_urgent_lost`). `process_events_until` with a target beyond the clock may loop
for ever, so `ProcessingEnds` speaks of limits the clock has reached.
`simulation_engine`: nothing but queued signals is bounded; two stand for any number,
since each delivery reads the current state. The window may close, so deadlock is
not checked.
`memory_pool`: a pool of two blocks and one of one, two heap addresses, and four
records, fewer than the calls can make, so that the table fills while blocks are out;
sizes that fit the first pool, only the second, and neither.
`wifi_manager`: two callers and two networks, the least that can disturb each other;
two waiting events.
`nvs_storage`: two callers, two keys and two values and the absent one, so that one
key's commit can publish another's failed write.
`uart_controller`: a transmit FIFO of two and a receive FIFO of one byte, so that both fill;
frames of one to three data bits, with every parity and with one, two and three stop bits,
which satisfy `LinkConfigsWork`; bytes whose bits differ and one that is cut to the data
bits; a tick of no time, one of half a bit and one of several bits, on every bench. A looped
wire that is `skewed` is not followed (`FollowSkewed = FALSE`): each half goes on under any
ticks on its own bench. Time gathered beyond `MaxBacklog` units (four bits) is not told
apart, since one frame's rush is already shown by less.
`gpio_bench`: four kinds of pins (plain, with a DAC, with an ADC, input-only), one at a
time, because pins share nothing but the workspace's lists; what a pin is used for is
chosen once (`Boards`), or the product of all functions would be explored where they do
not meet. A channel of two points drops both when a third arrives, as the code drops a
thousand of ten thousand: more than what is over.
`firmware_loader`: the ESP32's regions scaled down with their order, their overlaps and
their gaps kept; sums that wrap at 16 (`WordSize`); ten files, one for each way a load can
go: one with everything, one without section headers and one without program headers, one
whose BSS reaches over the end of a RAM region, one cut before the end of a section and one
before the end of a segment, two with sums that wrap (in a program header and a section
without bits, in a section with bits), one that is no ELF file and one that cannot be
opened. The symbol vector, which loads grow without end, stops at `MaxTables`.

## 5. Fairness

* Interrupt handler: `WF(ProcessEvents)`, and nothing of `RunOnceReturns`. Inside
  `interrupt_process_events` the loop never waits: `interrupt_get_event` is called with
  timeout 0. But the same loop calls `scheduler_run_once`, which runs the entry of a task
  and stays there as long as that entry does; the entry of the idle task, the only one the
  firmware creates, loops while the scheduler runs (`task_scheduler.c:426-442`). The two
  liveness properties therefore have the premise `RunOnceComesBack`, which the program as it
  stands does not meet: they say what the handler gives once tasks return. Interrupts are
  not fair, and `TaskEventIsDispatched` also assumes that they leave the ring empty in the
  end, because an endless storm does starve the other queue.
* Event scheduler: the host goes on calling `process_events`, and a call that has
  begun goes on; the bounded ids keep callbacks from scheduling for ever. A recurring event
  of interval 0 that is due keeps the loop busy in spite of it, and `ProcessingEnds` says so.
* Simulation engine: `WF` of both threads, as an operating system gives them. No
  fairness of the user's presses.
* WiFi: `WF` of the steps a call has begun, of the event task and of time. `SF` of
  `wifi_task` getting the mutex: it waits at priority 5, up to 100 ms each time, while
  calls hold the mutex for less, so a waiter is served between two of them. Nothing
  is assumed of the driver.
* UART: none. `FullFifoDrains` has the premise `TimeGoesBy`: again and again a tick is told
  of some time. `simulationLoop` does call `tick` again and again, but with the time of a
  clock that nothing advances (`simulation_engine.cpp:330-338`), so the program as it stands
  does not meet it.
* GPIO bench: `WF` of `Refresh`, which a 100 ms timer of the Qt event loop runs.
* Settings: a call that has written goes on to its commit, which returns.
* The ring, the task scheduler, the memory pools and the loader are checked for safety
  only.

## 6. The proofs

All are checked by `tlapm` to the last leaf and use only the named assumptions on the
constants.

* **`IsrRingProofs`** (any ring of two or more slots, any events). `RingInv` adds to the
  type invariant that the ring is not empty while an event is copied and that every slot
  between tail and head holds an event; `SemInv` says where the semaphore is. They are
  needed together: that the copy is stable follows from the ring not being full, which an
  interrupt tests against the tail the reader has not yet moved. Proved:
  `TypeCorrect`, `ReadStable`, `OnlyQueuedRead`, `RingNeverSkipped`, and
  `RingImplementsFifo`, for which lemmas give the contents of the unrolled ring after
  a push and after a removal.
* **`InterruptHandlerProofs`** (any pins, tables and queues). Every step of the handler
  but one is a step of the ring or leaves it alone (`RingStep`), so the step lemmas of
  `IsrRingProofs`, instantiated with the handler's events, carry over; the one exception,
  `GetFromQueue`, fills the reader's buffer from the other queue when the ring is not
  being read. `HandlerInv` adds the types of tables and queues, for which a debouncing
  row must have counted exactly one reading. Proved: `HandlerTypes`, `ArmedPins`, and
  `RingInsideHandler`. `ArmedPins` rests on a row being found by the same first-match
  search that freed or filled it, and on pin 0 being excepted.
* **`MemoryPoolProofs`** (any number of pools, any sizes and counts). `HeldIsAllocated`
  and the type invariant are inductive; the counters follow from cardinality lemmas.
  Proved: `TypeCorrect`, `BlocksAreHeldOnce`, `CountersAreRight`, `RecordsAreKept` (an
  action property over the shifting of the table), `LeaksAreCounted` and
  `PoolsImplementAllocator`. `LeaksAreCounted` compares two things that the code keeps
  apart: the records the figure is taken from, which frees of heap pointers shift, and the
  blocks that were handed out with a record and are still held. Its invariant,
  `TracedAreRecorded`, follows the shift.
* **`NvsStorageProofs`** (any callers, keys and values). `IInv` adds `Coherent`: a
  setting the handle reads and a restart would not find is the write of a failed call
  or of the call under way. Proved: `TypeCorrect`, `NothingUnfinishedIsRead`,
  `StorageImplementsStore`. A deletion that found nothing refines `Missing` of the abstract
  store because of the same invariant: what the handle no longer has is gone from the
  flash or in doubt.
* **`WifiManagerProofs`** (any callers, networks and queue length). `IInv` adds
  `Backed`: each CONNECTED, in the state or still queued, has the link or a later
  STA_DISCONNECTED behind it; and `Held`: who holds the mutex finds what it looked at
  unchanged. Proved: `TypeCorrect`, `ConnectedStateIsBacked`, `CallersJoinTheirOwn`,
  `NoRetryOnceDisabled`.
* **`TaskSchedulerProofs`** (any number of slots, priorities and tasks). The links of a list
  are data without an end that a formula could name, so the invariant speaks of two things
  the code does not store: `on`, the slots that are on a list, and `rank`, a number that
  grows along every list and so excludes cycles. `Lists` says in terms of them that heads,
  `next` and `prev` agree, slot by slot; lemmas show what putting in front and taking out
  make of it. From it `SchedulerInv` follows the tasks through the steps of `run_once`: who
  is on a list is ready and on the list of its priority; the task that `current_task` points
  to is on none but between its waking up and the next switch (`CurrentPlaced`), and the one
  chosen and not yet switched to is on none (`ChosenPlaced`); a task with a stack that has
  not run is on a list or is that one; the slots already scanned hold no expired task
  (`ScannedPlaced`); and the count is not less than the size of `on`. A walk along a list
  ends at NULL and meets every member because ranks grow (`Counting`). The invariant is
  `~raced => \E on, rank : SchedulerInv(on, rank)`: a call that overlaps the list work ends
  what can be said. Proved: `ListsStayWellFormed`, `CreatedTasksStayQueued` and
  `MostUrgentRunsFirst` under `~DeleteCurrent` (a caller does not delete the task that
  `current_task` points to; section 7 says what becomes of the lists if it does), and
  `ReadyCountNeverLags` under `CounterMod > MaxId` as well: the count drifts upwards with
  deletions and would otherwise wrap. `LinksStayInThePool` needs neither: no two tasks share
  an id, raced or not, because ids are given and taken under the mutex; and until a race
  every link names a slot or nothing, whatever is deleted.
* **`DesktopProofs`** holds one section for each simulator component.
  * *Event scheduler* (any events, delays and bounds, under `CallbacksGoBehind`). Lemmas
    first: a hole that rises or falls keeps the other events, leaves no parent greater
    than its child but at the hole, and ends where the value fits, so `Push` and `Pop` keep
    the heap and the collection of its events, and `Pop` removes the first. Then
    `EventInv`: the queue is a heap, each id is in it at most once and
    belongs to an original, the event whose callback runs stays on top of the queue, and
    one-shot events are queued or have fired. Proved: `QueueStaysSane`, `OneShotsFireOnce`.
    `TheTopIsFirst` is what remains without that hypothesis: the queue is still a heap of
    events that have an original, so the event looked at is the earliest, though not
    always the one whose callback has run.
  * *Engine* (any bound on signals). The invariant adds that an ended thread exists only
    inside the `stop` that joins it, that `step` begins when nothing runs, and that buttons
    are behind only between an assignment and its signal. Proved: `TypeCorrect`,
    `TheFlagTellsOfTheThread`, `ThreadsAreJoinedFirst`, `ButtonsAreCorrected`.
  * *Loader* (any files and regions that satisfy `LoaderAssumption`: regions differ in
    their base and none begins inside RAM or MMIO). `LoaderInv` says that the refusal of
    a well-formed file has left the loader empty, so that the next attempt meets no headers
    but its own, and that an abort has a byte whose address throws or a range that passed the
    32-bit test and lies outside the file. Proved: `Retry`, `Aborting`, `Refusal`, and
    `LoadedFirmware`: well-formed firmware that counts as loaded is in memory, byte by byte,
    unless a later segment of the same file lies over it. `Refusal` covers everything that is
    refused, and every malformed file none of whose own sums wraps: with such a sum a
    malformed file can pass.
  * *UART* (any bytes, FIFOs and configurations). `TransmitterInv` gives `TheFrontIsSent`;
    `OnlyAResetDeafens` needs none. For the looped wire, under `LinkConfigsWork`,
    `LinkInv` puts the receiver into one of three places while a frame is sent: it waits
    for the start bit, it is at the transmitter's bit (`Position`) with the bits it has
    seen so far and half a bit time in step with it, or it has the whole frame. A tick that
    is on time keeps that (`TickBetweenBits`, `TickAtABit`); any other tick, a late start and
    a reset set `skewed` and end the promise. Proved: `TheLinkIsClean`, `TheLinkDelivers`.
  * *GPIO bench* (any pins, boards and configurations). Each operation of `GpioModel` is
    shown once, for one pin, to keep the pin's invariant `Good` and to change the pin's
    output only with an event (`Sound`, `SoundResult`); `BenchStep` lifts that to all pins
    and through the callback to the components. `BenchInv` needs `Good` because the three
    invariants depend on each other through the mode: a pending interrupt, an output level
    and a PWM copy all survive or fall with the calls that change it. Proved: `BenchTypes`,
    `Inputs`, `Pending`, `PwmCopies`, `Connected`, `LedsFollow` and `WaveformsAreRecent`.
* **`Counting`** has what these need of the naturals: a least element (`LeastNumber`),
  induction up to a number over a set (`UpTo`), and that a recursive function defined
  over `0 .. N` exists (`Recursion`, `Iteration`), without which its equation says nothing.

Every safety property of a passing run is stated by a theorem. The hypotheses
(`~DeleteCurrent`, `CounterMod > MaxId`, `CallbacksGoBehind`, `LinkConfigsWork`) are
conditions on the constants that the runs' instances satisfy; `~raced` and `~skewed` are
part of the properties themselves. What the code does without them is in sections 4 and 7.
TLC has checked the inductive invariants that it can evaluate (all but `SchedulerInv`, whose
`on` and `rank` are found by the proof) on the same instances.

Model-checked only: the liveness properties (`TaskEventIsDispatched`,
`IsrEventIsDispatched`, `ProcessingEnds`, `StopReturns`, `RetryIsAttempted`,
`MutexIsReleased`, `FullFifoDrains`, `LedCatchesUp`), because liveness under fairness is
out of the prover's reach.

## 7. Where code and documents disagree

One disagreement is a run (section 4). Others that modelling brought up are in the
models as the code has them:

* Interrupts: priorities are stored and never consulted, though
  `enable_priority_queue` is set; `debounce_time_ms` is never compared with a time;
  the row of pin 0 counts as free, so the next registration overwrites it.
* Task scheduler: `scheduler_run_once`, `process_timeouts` and `get_next_ready_task` use the
  lists and counters without `scheduler_mutex` (`task_scheduler.c:287-335`, `451-465`,
  `122-143`), so a call by another FreeRTOS task may break the links, lose a task or be
  passed over (nothing in this repository makes one); a delayed task is ready at once,
  because `scheduler_delay` marks it blocked and then yields
  (`IMPLEMENTATION_GUIDE_COMPLETE.md:170` promises a delay); an entry that never returns,
  the idle task's among them, stops the main loop (`task_scheduler.c:312`), and with it the
  dispatch of every interrupt; an entry that yields brings the main loop to a null pointer;
  a task that is deleted while it is current is queued again by a later yield; a task whose
  entry returned is not requeued; `ready_tasks` drifts upwards with deletions; lists are
  last-in first-out within a priority.
* Memory pools: the guard word is written at the end of the requested size and looked
  for at offset 60 of every block, so an intact block is reported corrupt; a freed block
  keeps its record, so leaks are reported that are none.
* Event scheduler: cancelling and pausing mark the original, while the copy in the heap
  fires all the same; equal timestamps and priorities leave in no particular order; a
  recurring event whose interval is left out (`event_scheduler.h:103` makes it 0) is pushed
  back at the same time, and `process_events` never ends; `process_events_until` neither
  advances the clock nor, with a recurring event, ends; `EventScheduler` declares no
  `set_time`, which hosts call.
* Engine: it starts without firmware; `step` leaves STEPPING behind; a stop is
  overwritten by the ERROR of the tick under way; closing the window on a paused or
  failed engine destroys the components under its thread, because only RUNNING is
  stopped (`simulation_engine.cpp:72-73`); `postEvent` writes the list of events under
  no lock (`simulation_engine.cpp:411`); `tick()` passes components the absolute time
  where they expect what has elapsed (`simulation_engine.cpp:335-348`), and nothing advances the
  clock it comes from.
* Loader: `p_offset + p_filesz` and `sh_offset + sh_size` are sums of `uint32_t`, so a file
  in which one wraps passes `validate_consistency` and is mapped, or is read outside its
  data (`elf_loader.cpp:309`, `315`, `378`); a file without headers is read with those of
  the file before; symbols of earlier firmware stay in the list that
  `DesktopApp/README.md:126` presents as the firmware's (`elf_loader.cpp:234`); the string
  table is found only if the symbol table's link is the section-name table; firmware with a
  segment in flash, which `DesktopApp/README.md:10` offers to run, ends the application,
  because nothing catches `MemoryAccessException`; so do the gaps behind DRAM and IRAM; a
  file that cannot be opened leaves the loader as it was and the engine unloaded.
  `MemoryModel::reset` is declared (`memory_model.h:94`) and not defined.
* UART: a reset in the middle of a frame leaves the receiver deaf for good; time gathered
  while nothing is sent rushes the next frame; the default of one stop bit sends none and
  the line stays at the last data bit (`STOP_BITS_2` has the value 3); the receiver counts
  calls, not time, so that ticks of a whole bit make it miss every second one; in the engine
  no time goes by, so what is written stays in the FIFO. Only tests call `writeByte` and
  `receiveBit`.
* GPIO model: `set_pull_up` is undone by the default configuration of `set_pin_mode`, so
  an INPUT_PULLUP pin reads low; a level interrupt is not raised again after it is
  cleared; edges compare an input with the output level; a button on an input pin is
  refused; the input of a connected pin is frozen; reset leaves components unconnected;
  noise accumulates in an ADC's value; the voltages of PWM and DAC outlive them; a pin
  disabled while high keeps its LED lit; a duty above 100 is taken.
* Logic analyzer: every kind of event is drawn as a level; a channel holds 10 000 points and
  drops 1 000 when it overflows (`logic_analyzer_widget.cpp:52-53`), where
  `.kiro/specs/esp32-virtual-sim/requirements.md:229` asks for 1,000,000.
* WiFi: `wifi_manager_connect` writes CONNECTING over a CONNECTED that came meanwhile
  (`wifi_manager.c:362`, `418`); a retry is lost when CONNECTING overwrites RECONNECTING
  (`wifi_manager.c:123`); a disconnection a
  caller asked for is retried; `max_retry_attempts` is never counted against;
  `scan_in_progress` is tested outside the mutex and never cleared by the end of a
  scan; IP_EVENT_STA_LOST_IP is not registered, so an address is never dropped.
* Settings: after a deletion whose commit failed, a second one finds nothing, commits nothing
  and returns `ESP_OK` (`nvs_storage.c:332-355`), and a restart may find the value;
  `used_entries` starts at 0 and counts overwrites; the value of a failed
  commit is read at once and made durable by the next commit of another key.

## 8. What is not modelled

Parts that no program reaches, or that do not run:

* **Clients of the event scheduler** (`Timer`, `InterruptController`, `DMAController`,
  `event_scheduler.cpp:175-412`): no program makes an object of these classes. What such
  a client meets (a callback that schedules a CRITICAL event, as `raise_interrupt` does)
  is in `EventScheduler` and in `event_urgent_lost`.
* **Instruction-set simulator**: nothing calls `XtensaISS::run`, so the processor stays
  HALTED after its reset; that fact is in `SimulationEngine`. Instruction semantics are
  sequential data, better tested against a reference simulator.
* **Debug controller and the desktop's other peripherals**: `setWatchpoint` would lock a
  mutex it holds, but nothing calls it; the state of the GPIO, ADC, DAC, LEDC, SPI and I2C
  controllers changes only in tests; `checkInterruptCondition` of the GPIO controller
  never triggers. The radio simulators are constructed and never asked for anything.
* **Authentication**: `auth_init` calls `auth_create_user` before it sets the flag that
  function requires, so it always fails, and `is_rate_limited` is not defined.
* **HTTP server**: no loop accepts clients; `http_client_create` and
  `http_server_process_client` have no caller.
* **GPIO HAL**: `app_main` asks for GPIO_MODE_INPUT_PULLUP, which
  `gpio_hal_is_mode_supported` does not list, and the start-up aborts there. The
  firmware's models begin after that call.
* **Second firmware** (`main/*.c` except `main.c`): `gpio_manager.c` does not compile,
  `realtime_monitor_init` is never called, and no request validates a session.
* **Logger**: formatting and I/O behind a mutex; no module of the firmware calls it.
* Generated build directories, layouts and painting, demonstration programs, tests.

Of modelled components:

* Interrupts: `interrupt_post_event_from_isr`, which has no caller; the timer handler, which
  forwards like the network's; functions the header declares and nothing defines
  (enabling and disabling a source among them). Times between edges.
* Task scheduler: statistics, look-up, the event queue (a bounded queue in
  `InterruptHandler`).
* Memory: contents of blocks, reallocation (an allocation, a copy and a free).
* Event scheduler: which of two events with equal time and priority leaves first depends
  on the history of the heap (`event_scheduler.h:44`); the model follows the heap, and
  no property asks for an order the code does not promise.
* Engine: event posting and statistics. WiFi: callbacks, static addresses, and the scan
  flag that two callers may both find clear (`wifi_manager.c:468`).
* UART: break and flow control, which are stored and not read. GPIO: the amount of ADC
  noise. Memory model: contents, MMIO handlers, watchpoints. Loader: names and values of
  symbols.

The models cover what of the repository is alive and keeps state; most of the lines they
leave out belong to the parts above, to generated files and to painting.

## 9. Plan

Done: the modules of section 3, the most important path first (interrupt to main loop to
task), each with its abstract specification where one says something the code does not,
then the desktop simulator's loader and UART and the stand-alone window.

What would come next, in this order:

1. **What a race leaves**: of the ready lists after a call that overlapped `run_once`, only
   the ids are spoken for; a model of the list operations statement by statement would tell
   which links can be lost, once a second FreeRTOS task of the repository makes such calls.
2. **Proofs without their hypotheses**: which of the ready lists survive the deletion of
   the task `current_task` points to, beyond `LinksStayInThePool`.
3. **The scheduler's event queue** against `scheduler_get_event`, composed with
   `InterruptHandler`, once a task of the repository takes events from it.
4. **Parts that come alive**: the HTTP server's client slots when a loop accepts clients,
   the instruction-set simulator's halting when the engine runs it, the debug controller's
   locks when the window steps it, the event scheduler's clients when a program makes one.

Runs are kept few: a client composed with a component already checked takes over that
component's run where it contains it.
