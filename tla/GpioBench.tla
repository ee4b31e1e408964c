----------------------------- MODULE GpioBench ------------------------------
(***************************************************************************)
(* The stand-alone simulator's window (simulator/gui): the pins of          *)
(* GpioModel, the virtual components of WorkspaceWidget and the waveforms   *)
(* of LogicAnalyzerWidget.  MainWindow registers one callback, which passes *)
(* every event of a pin to the logic analyzer and then to the component     *)
(* placed on that pin, inside the operation that emits it.  All of it runs  *)
(* in the Qt thread, so an operation and its callbacks are one step; the    *)
(* reset of the simulation emits nothing, and the 100 ms timer repaints     *)
(* what it leaves behind.                                                   *)
(***************************************************************************)
EXTENDS GpioModel

CONSTANTS
  Pins,          \* the pins of the board
  Channels,      \* the pins the logic analyzer has a channel for
  Boards,        \* [pins, uses]: pins used together, and what for
  PinConfigs,       \* configurations passed to configure_pin()
  ModesTried,    \* modes passed to set_pin_mode()
  DacValues,     \* values passed to write_dac()
  SliderValues,  \* voltages of a potentiometer's slider
  MaxPoints,     \* points a channel may hold: 10000 in the code
  DroppedPoints  \* points dropped when it holds more: 1000 in the code

ASSUME BenchAssumption ==
  /\ Channels \subseteq Pins
  /\ Boards \subseteq [pins : SUBSET Pins,
                       uses : SUBSET {"interrupt", "adc", "dac", "pwm", "capture"}]
  /\ PinConfigs \subseteq Config
  /\ ModesTried \subseteq Modes
  /\ DacValues \subseteq 0 .. 255
  /\ SliderValues \subseteq 0 .. 4
  /\ MaxPoints \in Nat
  /\ DroppedPoints \in 1 .. MaxPoints

Kinds == {"LED", "Button", "Potentiometer"}

VARIABLES
  pins,
  placed,        \* pinToComponent: the kind of component on a pin, or "none"
  shows,         \* isOn of a LED, isPressed of a button
  slider,        \* currentValue of a potentiometer
  held,          \* isPressedByUser of a button
  capturing,     \* of the logic analyzer
  wave,          \* the points of each pin's channel
  recent,        \* history: the latest events of each pin in the capture
  board

benchVars == <<pins, placed, shows, slider, held, capturing, wave, recent, board>>

(* Mid-scale is just over the threshold. *)
BenchInit ==
  /\ pins = [p \in Pins |-> ResetPin]
  /\ placed = [p \in Pins |-> "none"]
  /\ shows = [p \in Pins |-> FALSE]
  /\ slider = [p \in Pins |-> 3]
  /\ held = [p \in Pins |-> FALSE]
  /\ capturing = FALSE
  /\ wave = [p \in Pins |-> <<>>]
  /\ recent = [p \in Pins |-> <<>>]
  /\ board \in Boards

-----------------------------------------------------------------------------
(* updateState() of a component *)

(* The display of an LED is its pin's output, that of a button its input. *)
ShownBy(kind, pin, before) ==
  CASE kind = "LED" -> pin.output_level
    [] kind = "Button" -> pin.input_level
    [] OTHER -> before

(* A potentiometer puts its slider's voltage on the pin. *)
FedBy(kind, pin, voltage) ==
  IF kind = "Potentiometer" THEN SetAdcInput(pin, voltage) ELSE pin

-----------------------------------------------------------------------------
(* The callback *)

(* Mutation: the newest points are dropped. *)
AddPointDropNewest(points, event) ==
  LET all == Append(points, event)
  IN IF Len(all) > MaxPoints THEN SubSeq(all, 1, Len(all) - DroppedPoints)
     ELSE all

(* WaveformDisplay::addDataPoint() *)
AddPoint(points, event) ==
  LET all == Append(points, event)
  IN IF Len(all) > MaxPoints THEN SubSeq(all, DroppedPoints + 1, Len(all))
     ELSE all

AddPoints(points, events) ==
  LET after[n \in 0 .. Len(events)] ==
        IF n = 0 THEN points ELSE AddPoint(after[n - 1], events[n])
  IN after[Len(events)]

Latest(s, n) == IF Len(s) <= n THEN s ELSE SubSeq(s, Len(s) - n + 1, Len(s))

(* onGpioEvent(), once for each event of an operation on pin p.  The         *)
(* component sees the pin as the operation has left it.                      *)
Deliver(p, r) ==
  /\ pins' = [pins EXCEPT ![p] =
       IF r.events = <<>> THEN r.pin ELSE FedBy(placed[p], r.pin, slider[p])]
  /\ shows' = [shows EXCEPT ![p] =
       IF r.events = <<>> THEN @ ELSE ShownBy(placed[p], r.pin, @)]
  /\ IF capturing /\ p \in Channels
     THEN /\ wave' = [wave EXCEPT ![p] = AddPoints(@, r.events)]
          /\ recent' = [recent EXCEPT ![p] = Latest(@ \o r.events, MaxPoints)]
     ELSE UNCHANGED <<wave, recent>>

(* An operation of GpioModel called by a client outside the workspace. *)
Operate(p, results) ==
  /\ \E r \in results : Deliver(p, r)
  /\ UNCHANGED <<placed, slider, held, capturing, board>>

Change(p, pin) == Operate(p, {Done(pin)})

-----------------------------------------------------------------------------
(* The pins *)

Reconfigure(p) ==
  \/ \E c \in PinConfigs :
       ModeIsValid(p, c.mode) /\ Operate(p, ConfigurePin(pins[p], c))
  \/ \E mode \in ModesTried :
       ModeIsValid(p, mode) /\ Operate(p, SetPinMode(pins[p], mode))
  \/ \E enable \in BOOLEAN :
       \/ Operate(p, SetPullUp(pins[p], enable))
       \/ Operate(p, SetPullDown(pins[p], enable))
       \/ p \notin InputOnlyPins /\ Operate(p, SetOpenDrain(pins[p], enable))

Drive(p) ==
  \E level \in BOOLEAN :
    CanDrive(p, pins[p]) /\ Operate(p, {SetOutputLevel(pins[p], level)})

ControlInterrupt(p) ==
  /\ "interrupt" \in board.uses
  /\ \/ \E type \in Types, enable \in BOOLEAN :
          Change(p, ConfigureInterrupt(pins[p], type, enable))
     \/ Change(p, EnableInterrupt(pins[p]))
     \/ Change(p, DisableInterrupt(pins[p]))
     \/ Change(p, ClearPending(pins[p]))

UseAdc(p) ==
  /\ "adc" \in board.uses
  /\ \/ \E wide \in BOOLEAN : \E pin \in EnableAdc(pins[p], wide) :
          p \in InputOnlyPins /\ Change(p, pin)
     \/ Change(p, DisableAdc(pins[p]))
     \/ pins[p].adc_enabled /\ Operate(p, ReadAdc(pins[p]))

UseDac(p) ==
  /\ "dac" \in board.uses
  /\ \/ p \in DacPins /\ Change(p, EnableDac(pins[p]))
     \/ Change(p, DisableDac(pins[p]))
     \/ \E value \in DacValues :
          pins[p].dac_enabled /\ Operate(p, {WriteDac(pins[p], value)})

UsePwm(p) ==
  /\ "pwm" \in board.uses
  /\ \/ \E duty \in Duties : p \notin InputOnlyPins /\ Change(p, EnablePwm(pins[p], duty))
     \/ Change(p, DisablePwm(pins[p]))
     \/ \E duty \in Duties :
          pins[p].pwm_enabled /\ Operate(p, {SetPwmDuty(pins[p], duty)})

-----------------------------------------------------------------------------
(* The workspace *)

(* getAvailablePin(): the lowest pin that can drive and is free. *)
AvailablePins ==
  LET free == {p \in board.pins \ InputOnlyPins : placed[p] = "none"}
  IN {p \in free : \A q \in free : p <= q}

(* addComponent(): the constructor calls updateState() before the pin is     *)
(* marked as connected.                                                      *)
AddComponent(p, kind) ==
  /\ p \in AvailablePins
  /\ placed' = [placed EXCEPT ![p] = kind]
  /\ slider' = [slider EXCEPT ![p] = 3]
  /\ held' = [held EXCEPT ![p] = FALSE]
  /\ shows' = [shows EXCEPT ![p] = ShownBy(kind, pins[p], FALSE)]
  /\ pins' = [pins EXCEPT ![p] = ConnectComponent(FedBy(kind, @, 3)).pin]
  /\ UNCHANGED <<capturing, wave, recent, board>>

(* Mutation: removeComponent() leaves the pin connected. *)
RemoveStaysConnected(p) ==
  /\ placed[p] # "none"
  /\ placed' = [placed EXCEPT ![p] = "none"]
  /\ held' = [held EXCEPT ![p] = FALSE]
  /\ UNCHANGED <<pins, shows, slider, capturing, wave, recent, board>>

(* removeComponent(): the component is still in the map, and is updated, when *)
(* its disconnection emits.                                                  *)
RemoveComponent(p) ==
  /\ placed[p] # "none"
  /\ placed' = [placed EXCEPT ![p] = "none"]
  /\ held' = [held EXCEPT ![p] = FALSE]
  /\ Deliver(p, DisconnectComponent(pins[p]))
  /\ UNCHANGED <<slider, capturing, board>>

PressButton(p) ==
  /\ placed[p] = "Button"
  /\ held' = [held EXCEPT ![p] = TRUE]
  /\ Deliver(p, IF CanDrive(p, pins[p]) THEN SetOutputLevel(pins[p], FALSE)
                ELSE Done(pins[p]))
  /\ UNCHANGED <<placed, slider, capturing, board>>

(* mouseReleaseEvent(): set_pull_up(), then set_pin_mode(INPUT_PULLUP). *)
ReleaseButton(p) ==
  /\ placed[p] = "Button" /\ held[p]
  /\ held' = [held EXCEPT ![p] = FALSE]
  /\ \E pulled \in SetPullUp(pins[p], TRUE) :
       \E moded \in SetPinMode(pulled.pin, "INPUT_PULLUP") :
         Deliver(p, [moded EXCEPT !.events = pulled.events \o @])
  /\ UNCHANGED <<placed, slider, capturing, board>>

MoveSlider(p, voltage) ==
  /\ placed[p] = "Potentiometer"
  /\ slider' = [slider EXCEPT ![p] = voltage]
  /\ pins' = [pins EXCEPT ![p] = SetAdcInput(@, voltage)]
  /\ UNCHANGED <<placed, shows, held, capturing, wave, recent, board>>

(* Mutation: the timer repaints without reading the pins. *)
RefreshNothing == UNCHANGED benchVars

(* updateAllComponents(), every 100 ms. *)
Refresh ==
  /\ shows' = [p \in Pins |-> ShownBy(placed[p], pins[p], shows[p])]
  /\ pins' = [p \in Pins |-> FedBy(placed[p], pins[p], slider[p])]
  /\ UNCHANGED <<placed, slider, held, capturing, wave, recent, board>>

-----------------------------------------------------------------------------
(* The logic analyzer and the simulation *)

ClearData ==
  /\ wave' = [p \in Pins |-> <<>>]
  /\ recent' = [p \in Pins |-> <<>>]
  /\ UNCHANGED <<pins, placed, shows, slider, held, board>>

StartCapture ==
  /\ "capture" \in board.uses
  /\ ~capturing
  /\ capturing' = TRUE
  /\ ClearData

StopCapture ==
  /\ capturing
  /\ capturing' = FALSE
  /\ UNCHANGED <<pins, placed, shows, slider, held, wave, recent, board>>

ClearCapture == UNCHANGED capturing /\ ClearData

(* GpioModel::reset() from resetSimulation(): every pin is as new, no        *)
(* component is connected any more, and nobody is told.                      *)
ResetSimulation ==
  /\ pins' = [p \in Pins |-> ResetPin]
  /\ UNCHANGED <<placed, shows, slider, held, capturing, wave, recent, board>>

BenchNext ==
  \/ \E p \in board.pins :
       \/ Reconfigure(p)
       \/ Drive(p)
       \/ ControlInterrupt(p)
       \/ UseAdc(p)
       \/ UseDac(p)
       \/ UsePwm(p)
       \/ \E kind \in Kinds : AddComponent(p, kind)
       \/ RemoveComponent(p)
       \/ PressButton(p)
       \/ ReleaseButton(p)
       \/ \E voltage \in SliderValues : MoveSlider(p, voltage)
  \/ Refresh
  \/ StartCapture
  \/ StopCapture
  \/ ClearCapture
  \/ ResetSimulation

BenchSpec == BenchInit /\ [][BenchNext]_benchVars

(* The Qt event loop runs the 100 ms timer. *)
BenchFairSpec == BenchSpec /\ WF_benchVars(Refresh)

-----------------------------------------------------------------------------
BenchTypeOK ==
  /\ pins \in [Pins -> PinState]
  /\ placed \in [Pins -> Kinds \cup {"none"}]
  /\ shows \in [Pins -> BOOLEAN]
  /\ slider \in [Pins -> 0 .. 4]
  /\ held \in [Pins -> BOOLEAN]
  /\ capturing \in BOOLEAN
  /\ board \in Boards

(* No sequence of mode changes, flags and writes leaves an input driving a   *)
(* level, and an input-only pin never drives one.                            *)
InputsDriveNothing ==
  \A p \in Pins :
    pins[p].output_level =>
      p \notin InputOnlyPins /\ pins[p].mode \notin InputModes \cup {"ADC"}

(* An interrupt is pending only on a pin that still has one enabled: setting, *)
(* disabling, configuring and resetting all forget it.                       *)
PendingIsEnabled ==
  \A p \in Pins : pins[p].interrupt_pending => pins[p].interrupt_enabled

(* The duty cycle is kept twice, in the pin and in pwm_configs, and the two  *)
(* copies agree about whether there is a PWM and about its duty.             *)
PwmCopiesAgree ==
  \A p \in Pins :
    pins[p].pwm_config = IF pins[p].pwm_enabled THEN pins[p].pwm_duty ELSE NoConfig

(* A pin is connected only while a component is placed on it: otherwise its  *)
(* input level would be left to a component that no longer exists.           *)
ConnectedIsPlaced == \A p \in Pins : pins[p].connected => placed[p] # "none"

LedIsTrue(p) == placed[p] = "LED" => shows[p] = pins[p].output_level

(* Whatever a step does to the pins, a LED that shows its pin goes on showing *)
(* it: every operation that changes an output also emits.  Only the reset of *)
(* the simulation, which emits nothing, leaves a LED behind.                 *)
LedFollowsPin ==
  [][\A p \in Pins : LedIsTrue(p) => LedIsTrue(p)' \/ ResetSimulation]_benchVars

(* A LED that a reset has left behind shows its pin again.                   *)
LedCatchesUp == \A p \in Pins : ~LedIsTrue(p) ~> LedIsTrue(p)

(* A channel holds the latest events of its pin without a gap, and if any    *)
(* have been dropped, still more than MaxPoints - DroppedPoints of them: an  *)
(* overflow takes DroppedPoints away at once.  The required million of       *)
(* samples (.kiro/specs/esp32-virtual-sim/requirements.md:229) is a hundred  *)
(* times MaxPoints.                                                          *)
WaveformIsRecent ==
  \A p \in Pins :
    /\ wave[p] = Latest(recent[p], Len(wave[p]))
    /\ Len(wave[p]) < Len(recent[p]) => Len(wave[p]) > MaxPoints - DroppedPoints
=============================================================================
