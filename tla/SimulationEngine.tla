-------------------------- MODULE SimulationEngine --------------------------
(***************************************************************************)
(* DesktopApp/src/core/simulation_engine.cpp: the Qt thread, in which the   *)
(* main window's buttons call start, stop, pause, step, reset, loadFirmware *)
(* and shutdown, against the simulation thread, which runs simulationLoop.  *)
(* They share the atomics state_ and sim_thread_running_ and no lock, so    *)
(* every access to these is a step.  The simulation thread's stateChanged   *)
(* signal is queued to the Qt thread, which then updates the buttons.       *)
(***************************************************************************)
EXTENDS Naturals

CONSTANT MaxSignals  \* bound: queued stateChanged signals that are counted

ASSUME EngineAssumption == MaxSignals \in Nat \ {0}

VARIABLES
  state_,              \* SimulationState
  sim_thread_running_,
  sim,                 \* where the simulation thread is; "none" when there is none
  gui,                 \* where the Qt thread is
  next,                \* what it does once stop() has returned
  uiRunning,           \* isRunning() as updateUIBasedOnState last saw it
  signals              \* stateChanged signals queued for the Qt thread

vars == <<state_, sim_thread_running_, sim, gui,
          next, uiRunning, signals>>

IsRunning == state_ = "RUNNING"

Init ==
  /\ state_ = "STOPPED"
  /\ sim_thread_running_ = FALSE
  /\ sim = "none"
  /\ gui = "idle"
  /\ next = "idle"
  /\ uiRunning = FALSE
  /\ signals = 0

GoGui(from, to) == gui = from /\ gui' = to

-----------------------------------------------------------------------------
(* start(): an enabled Start button, or F5. *)
Start ==
  /\ GoGui("idle", "start emit")
  /\ ~uiRunning
  /\ ~IsRunning
  /\ state_' = "RUNNING"
  /\ UNCHANGED <<sim_thread_running_, sim, next, uiRunning, signals>>

(* A new thread is created unless one is running already. *)
StartThread ==
  /\ GoGui("start thread", "idle")
  /\ sim_thread_running_' = TRUE
  /\ sim' = IF sim_thread_running_ THEN sim ELSE "loop"
  /\ UNCHANGED <<state_, next, uiRunning, signals>>

(* emitStateChange in the Qt thread calls updateUIBasedOnState directly. *)
Emit ==
  /\ \/ GoGui("start emit", "start thread")
     \/ GoGui("stop emit", "stop signal")
     \/ GoGui("pause emit", "idle")
     \/ GoGui("step emit", "step")
     \/ GoGui("reset emit", "idle")
  /\ uiRunning' = IsRunning
  /\ UNCHANGED <<state_, sim_thread_running_, sim, next, signals>>

(* stop(), called by the button or on behalf of another operation. *)
BeginStop(afterwards) ==
  /\ gui' = "stop emit"
  /\ next' = afterwards
  /\ state_' = "STOPPED"
  /\ UNCHANGED <<sim_thread_running_, sim, uiRunning, signals>>

Stop ==
  /\ gui = "idle"
  /\ uiRunning
  /\ state_ # "STOPPED"
  /\ BeginStop("idle")

(* Mutation: stop() joins without clearing the flag. *)
SignalNothing ==
  /\ GoGui("stop signal", "join")
  /\ UNCHANGED <<state_, sim_thread_running_, sim, next,
                 uiRunning, signals>>

SignalThread ==
  /\ GoGui("stop signal", "join")
  /\ sim_thread_running_' = FALSE
  /\ UNCHANGED <<state_, sim, next, uiRunning, signals>>

(* Mutation: stop() does not wait for the thread. *)
JoinNothing ==
  /\ gui = "join"
  /\ gui' = next
  /\ next' = "idle"
  /\ UNCHANGED <<state_, sim_thread_running_, sim, uiRunning, signals>>

Join ==
  /\ gui = "join"
  /\ sim \in {"none", "exited"}
  /\ sim' = "none"
  /\ gui' = next
  /\ next' = "idle"
  /\ UNCHANGED <<state_, sim_thread_running_, uiRunning, signals>>

(* pause() tests the state and sets it in two accesses. *)
Pause ==
  /\ GoGui("idle", "pause")
  /\ uiRunning
  /\ IsRunning
  /\ UNCHANGED <<state_, sim_thread_running_, sim, next, uiRunning, signals>>

SetPaused ==
  /\ \/ GoGui("pause", "pause emit")
     \/ GoGui("step pause", "step emit")
  /\ state_' = "PAUSED"
  /\ UNCHANGED <<sim_thread_running_, sim, next, uiRunning, signals>>

(* step() pauses a running engine first, and emits nothing at its end. *)
Step ==
  /\ gui = "idle"
  /\ ~uiRunning
  /\ gui' = IF IsRunning THEN "step pause" ELSE "step"
  /\ UNCHANGED <<state_, sim_thread_running_, sim, next, uiRunning, signals>>

SetStepping ==
  /\ GoGui("step", "idle")
  /\ state_' = "STEPPING"
  /\ UNCHANGED <<sim_thread_running_, sim, next, uiRunning, signals>>

(* reset(), loadFirmware() and shutdown() stop a RUNNING engine, and leave   *)
(* the simulation thread alone in every other state.                         *)
StopFirst(operation) ==
  /\ gui = "idle"
  /\ \/ IsRunning /\ BeginStop(operation)
     \/ ~IsRunning /\ gui' = operation
        /\ UNCHANGED <<state_, sim_thread_running_, sim, next,
                       uiRunning, signals>>

Reset == ~uiRunning /\ StopFirst("reset")

SetStopped ==
  /\ GoGui("reset", "reset emit")
  /\ state_' = "STOPPED"
  /\ UNCHANGED <<sim_thread_running_, sim, next, uiRunning, signals>>

LoadFirmware == StopFirst("load")

FinishLoad ==
  /\ GoGui("load", "idle")
  /\ UNCHANGED <<state_, sim_thread_running_, sim, next, uiRunning, signals>>

(* The window closes: shutdown() destroys the components the thread uses. *)
Shutdown == StopFirst("destroyed")

(* A queued stateChanged is delivered. *)
UpdateUI ==
  /\ gui = "idle"
  /\ signals > 0
  /\ signals' = signals - 1
  /\ uiRunning' = IsRunning
  /\ UNCHANGED <<state_, sim_thread_running_, sim, gui, next>>

-----------------------------------------------------------------------------
(* The simulation thread: the loop test, tick() up to its test of state_,    *)
(* the test for a halted processor, the signal.                              *)
GoSim(from, to) == sim = from /\ sim' = to

LoopTest ==
  /\ GoSim("loop", IF sim_thread_running_ THEN "tick" ELSE "exited")
  /\ UNCHANGED <<state_, sim_thread_running_, gui, next, uiRunning, signals>>

(* XtensaISS::reset leaves the processor HALTED, step() returns at once in    *)
(* that state and only run() leaves it; the engine calls reset and step,      *)
(* never run.  So tick() always goes on to report a halted processor.         *)
Tick ==
  /\ GoSim("tick", "halted")
  /\ UNCHANGED <<state_, sim_thread_running_, gui, next, uiRunning, signals>>

SetError ==
  /\ GoSim("halted", "emit")
  /\ state_' = "ERROR"
  /\ UNCHANGED <<sim_thread_running_, gui, next, uiRunning, signals>>

(* Mutation: the simulation thread does not announce the error. *)
EmitNothing ==
  /\ GoSim("emit", "loop")
  /\ UNCHANGED <<state_, sim_thread_running_, gui, next, uiRunning,
                 signals>>

EmitQueued ==
  /\ GoSim("emit", "loop")
  /\ signals' = IF signals < MaxSignals THEN signals + 1 ELSE signals
  /\ UNCHANGED <<state_, sim_thread_running_, gui, next, uiRunning>>

Simulation == LoopTest \/ Tick \/ SetError \/ EmitQueued

(* What the Qt thread does without the user: it finishes what was begun. *)
GuiContinues ==
  Emit \/ StartThread \/ SignalThread \/ Join \/ SetPaused \/ SetStepping
  \/ SetStopped \/ FinishLoad \/ UpdateUI

Next ==
  \/ Start \/ Stop \/ Pause \/ Step \/ Reset \/ LoadFirmware \/ Shutdown
  \/ GuiContinues
  \/ Simulation

Spec == Init /\ [][Next]_vars

(* Both threads run; the user need not press anything. *)
FairSpec == Spec /\ WF_vars(Simulation) /\ WF_vars(GuiContinues)

-----------------------------------------------------------------------------
(* The two program counters, the state and the flags take their values only.  *)
TypeOK ==
  /\ state_ \in {"STOPPED", "RUNNING", "PAUSED", "STEPPING", "ERROR"}
  /\ sim_thread_running_ \in BOOLEAN
  /\ uiRunning \in BOOLEAN
  /\ sim \in {"none", "loop", "tick", "halted", "emit", "exited"}
  /\ gui \in {"idle", "start emit", "start thread", "stop emit", "stop signal", "join",
              "pause", "pause emit", "step pause", "step emit", "step",
              "reset", "reset emit", "load", "destroyed"}
  /\ next \in {"idle", "reset", "load", "destroyed"}
  /\ signals \in 0 .. MaxSignals

(* std::thread may be assigned only when no thread is joinable: start() never *)
(* replaces a thread that still runs, or has ended and was not joined.        *)
NoThreadIsReplaced == gui = "start thread" /\ ~sim_thread_running_ => sim = "none"

(* The flag agrees with the thread whenever stop() is not at work: a thread   *)
(* that should run has not ended, and one that should not is joined.          *)
FlagMatchesThread ==
  gui # "join" => (sim_thread_running_ <=> sim \in {"loop", "tick", "halted", "emit"})

(* The buttons never stay behind the engine: they show whether it runs, or a  *)
(* signal that will correct them is under way.                                *)
ButtonsCatchUp ==
  gui = "idle" /\ sim # "emit" /\ signals = 0 => (uiRunning <=> IsRunning)

(* What makes these inductive: only the stop() that clears the flag joins the *)
(* thread, step() begins once the state is PAUSED, and the buttons may be     *)
(* behind only between a state's assignment and its signal.                   *)
StopIsUnderWay ==
  /\ gui = "join" => ~sim_thread_running_
  /\ sim = "exited" => gui = "join"

StepsWhenNotRunning == gui \in {"step emit", "step"} => ~IsRunning

ButtonsFollow ==
  gui \notin {"start emit", "stop emit", "pause emit", "step emit", "reset emit"}
    /\ sim # "emit" /\ signals = 0
  => (uiRunning <=> IsRunning)

IInv == TypeOK /\ FlagMatchesThread /\ StopIsUnderWay /\ StepsWhenNotRunning /\ ButtonsFollow

(* stop() always gets its thread to end, whatever the thread is doing.        *)
StopReturns == (gui = "join") ~> (gui # "join")

=============================================================================
