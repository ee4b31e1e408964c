----------------------------- MODULE GpioModel ------------------------------
(***************************************************************************)
(* simulator/peripherals/gpio/gpio_model.cpp: the pins of the stand-alone   *)
(* simulator.  Every operation works on one pin, synchronously in the Qt    *)
(* thread, and hands each event to the registered callback at once.         *)
(*                                                                          *)
(* An operation is an operator from the pin's state to the pairs            *)
(*     [pin |-> its new state, events |-> what was emitted, in order]       *)
(* it may return.  The clients tell two kinds of events apart, those with   *)
(* data 0 and the others, so an event is its data # 0.                      *)
(*                                                                          *)
(* Voltages are told apart by what the code compares them with: 0 is 0 V, 1 *)
(* and 4 lie below and above the 1.65 V threshold, 2 and 3 just under and   *)
(* just over it, where the noise of a reading moves them.                   *)
(***************************************************************************)
EXTENDS Integers, Sequences

CONSTANTS
  InputOnlyPins,   \* GPIO34 to GPIO39
  AdcModePins,     \* GPIO32 to GPIO39
  DacPins,         \* GPIO25 and GPIO26
  Duties,          \* PWM duty cycles in per cent
  Types            \* interrupt types

ASSUME GpioAssumption ==
  /\ InputOnlyPins \subseteq AdcModePins
  /\ DacPins \cap AdcModePins = {}
  /\ Duties \subseteq Nat
  /\ 50 \in Duties    \* the default
  /\ Types \subseteq {"DISABLED", "POSEDGE", "NEGEDGE", "ANYEDGE",
                      "LOW_LEVEL", "HIGH_LEVEL"}

InputModes == {"INPUT", "INPUT_PULLUP", "INPUT_PULLDOWN"}
BusModes == {"I2C", "SPI", "UART"}
Modes == InputModes \cup BusModes
         \cup {"DISABLED", "OUTPUT", "OUTPUT_OD", "ADC", "DAC", "PWM"}

NoConfig == -1     \* the pin has no entry in pwm_configs

(* GpioConfig *)
Config ==
  [mode : Modes, pull_up : BOOLEAN, pull_down : BOOLEAN, open_drain : BOOLEAN,
   interrupt_type : Types \cup {"DISABLED"}, wide_range : BOOLEAN,
   dac_value : 0 .. 255, pwm_duty : Duties]

PinState ==
  [mode : Modes, output_level : BOOLEAN, input_level : BOOLEAN,
   pull_up : BOOLEAN, pull_down : BOOLEAN, open_drain : BOOLEAN,
   interrupt_type : Types \cup {"DISABLED"}, interrupt_enabled : BOOLEAN,
   interrupt_pending : BOOLEAN, adc_enabled : BOOLEAN, adc_voltage : 0 .. 4,
   wide_range : BOOLEAN, dac_enabled : BOOLEAN, dac_value : 0 .. 255,
   dac_high : BOOLEAN, pwm_enabled : BOOLEAN, pwm_duty : Duties \cup {0},
   pwm_high : BOOLEAN, pwm_config : Duties \cup {NoConfig},
   connected : BOOLEAN]

(* GpioPinState() *)
ResetPin ==
  [mode |-> "DISABLED", output_level |-> FALSE, input_level |-> FALSE,
   pull_up |-> FALSE, pull_down |-> FALSE, open_drain |-> FALSE,
   interrupt_type |-> "DISABLED", interrupt_enabled |-> FALSE,
   interrupt_pending |-> FALSE, adc_enabled |-> FALSE, adc_voltage |-> 0,
   wide_range |-> FALSE, dac_enabled |-> FALSE, dac_value |-> 0,
   dac_high |-> FALSE, pwm_enabled |-> FALSE, pwm_duty |-> 0,
   pwm_high |-> FALSE, pwm_config |-> NoConfig, connected |-> FALSE]

Done(pin) == [pin |-> pin, events |-> <<>>]
EmitEvent(r, event) == [r EXCEPT !.events = Append(@, event)]

ModeIsValid(p, mode) ==
  IF p \in InputOnlyPins THEN mode \in InputModes \cup {"DISABLED", "ADC"}
  ELSE (mode = "DAC" => p \in DacPins) /\ (mode = "ADC" => p \in AdcModePins)

-----------------------------------------------------------------------------
(* Interrupts and levels *)

(* An edge is taken to be a difference between the two levels of the pin. *)
ShouldTrigger(pin) ==
  CASE pin.interrupt_type = "POSEDGE"    -> pin.input_level /\ ~pin.output_level
    [] pin.interrupt_type = "NEGEDGE"    -> ~pin.input_level /\ pin.output_level
    [] pin.interrupt_type = "ANYEDGE"    -> pin.input_level # pin.output_level
    [] pin.interrupt_type = "LOW_LEVEL"  -> ~pin.input_level
    [] pin.interrupt_type = "HIGH_LEVEL" -> pin.input_level
    [] OTHER -> FALSE

CheckInterrupts(r) ==
  IF r.pin.interrupt_enabled /\ ShouldTrigger(r.pin) /\ ~r.pin.interrupt_pending
  THEN EmitEvent([r EXCEPT !.pin.interrupt_pending = TRUE], FALSE)
  ELSE r

(* The level a pin reads back when nothing is connected to it. *)
InputLevel(pin) ==
  CASE pin.mode \in InputModes -> pin.pull_up
    [] pin.mode \in {"OUTPUT", "OUTPUT_OD"} -> pin.output_level /\ ~pin.open_drain
    [] pin.mode = "PWM" -> pin.pwm_high
    [] pin.mode = "DAC" -> pin.dac_high
    [] pin.mode = "ADC" -> pin.adc_voltage >= 3
    [] OTHER -> FALSE

(* update_pin_input(): a connected component is left to drive its pin. *)
UpdateInput(r) ==
  LET level == InputLevel(r.pin)
  IN IF r.pin.mode = "DISABLED" THEN [r EXCEPT !.pin.input_level = FALSE]
     ELSE IF r.pin.connected \/ level = r.pin.input_level THEN r
     ELSE CheckInterrupts(EmitEvent([r EXCEPT !.pin.input_level = level], level))

-----------------------------------------------------------------------------
(* Converters *)

(* update_adc_voltage(): a voltage of 0 becomes mid-scale, and the noise is  *)
(* added to what the last reading left.                                      *)
AdcReadings(pin) ==
  LET before == IF pin.adc_voltage = 0 THEN 2 ELSE pin.adc_voltage
  IN IF pin.adc_enabled
     THEN {[pin EXCEPT !.adc_voltage = v] : v \in (before - 1 .. before + 1) \cap (1 .. 4)}
     ELSE {[pin EXCEPT !.adc_voltage = 0]}

(* set_adc_input_voltage(): clamped to the attenuation's range. *)
SetAdcInput(pin, voltage) ==
  IF ~pin.adc_enabled THEN pin
  ELSE [pin EXCEPT !.adc_voltage =
          IF pin.wide_range \/ voltage = 0 THEN voltage ELSE 1]

UpdateDac(pin) ==
  [pin EXCEPT !.dac_high = pin.dac_enabled /\ pin.dac_value > 127]

UpdatePwm(pin) ==
  [pin EXCEPT !.pwm_high = pin.pwm_enabled /\ pin.pwm_duty > 50]

-----------------------------------------------------------------------------
(* Configuration *)

(* configure_pin() on a valid mode.  The input level is not recomputed. *)
ConfigurePin(pin, c) ==
  LET common == [pin EXCEPT
        !.mode = c.mode, !.pull_up = c.pull_up, !.pull_down = c.pull_down,
        !.open_drain = c.open_drain, !.interrupt_type = c.interrupt_type,
        !.interrupt_enabled = FALSE, !.interrupt_pending = FALSE,
        !.adc_enabled = (c.mode = "ADC"),
        !.wide_range = IF c.mode = "ADC" THEN c.wide_range ELSE @,
        !.dac_enabled = (c.mode = "DAC"),
        !.dac_value = IF c.mode = "DAC" THEN c.dac_value ELSE @,
        !.pwm_enabled = (c.mode = "PWM"),
        !.pwm_duty = IF c.mode = "PWM" THEN c.pwm_duty ELSE @,
        !.pwm_config = IF c.mode = "PWM" THEN c.pwm_duty ELSE NoConfig,
        !.output_level = @ /\ c.mode \notin InputModes \cup {"ADC"}]
      dac == IF c.mode = "DAC" THEN UpdateDac(common) ELSE common
      pwm == IF c.mode = "PWM" THEN UpdatePwm(dac) ELSE dac
      adc == IF c.mode = "ADC" THEN AdcReadings(pwm) ELSE {pwm}
  IN {EmitEvent(Done(s), pin.mode # "DISABLED") : s \in adc}

(* GpioConfig(): what set_pin_mode() passes with the mode. *)
DefaultConfig(mode) ==
  [mode |-> mode, pull_up |-> FALSE, pull_down |-> FALSE, open_drain |-> FALSE,
   interrupt_type |-> "DISABLED", wide_range |-> FALSE, dac_value |-> 0,
   pwm_duty |-> 50]

SetPinMode(pin, mode) == ConfigurePin(pin, DefaultConfig(mode))

(* set_pull_up(), set_pull_down() and set_open_drain(): the flag is set, the *)
(* mode follows it by set_pin_mode(), which clears every flag again.         *)
SetFlag(pin, enable, plain, flagged) ==
  LET results == IF enable /\ pin.mode = plain THEN SetPinMode(pin, flagged)
                 ELSE IF ~enable /\ pin.mode = flagged THEN SetPinMode(pin, plain)
                 ELSE {Done(pin)}
  IN {UpdateInput(r) : r \in results}

SetPullUp(pin, enable) ==
  SetFlag([pin EXCEPT !.pull_up = enable], enable, "INPUT", "INPUT_PULLUP")

SetPullDown(pin, enable) ==
  SetFlag([pin EXCEPT !.pull_down = enable], enable, "INPUT", "INPUT_PULLDOWN")

SetOpenDrain(pin, enable) ==
  SetFlag([pin EXCEPT !.open_drain = enable], enable, "OUTPUT", "OUTPUT_OD")

(* Mutation: inputs are not refused. *)
CanDriveInputs(p, pin) == pin.mode # "DISABLED" /\ p \notin InputOnlyPins

(* set_output_level() *)
CanDrive(p, pin) ==
  /\ pin.mode \notin InputModes \cup {"DISABLED", "ADC"}
  /\ p \notin InputOnlyPins

(* Mutation: a changed output level is not told to the callback. *)
SetOutputSilently(pin, level) ==
  CheckInterrupts(Done([pin EXCEPT !.output_level = level]))

SetOutputLevel(pin, level) ==
  LET read == UpdateInput(Done([pin EXCEPT !.output_level = level]))
  IN IF pin.output_level = level THEN read
     ELSE CheckInterrupts(EmitEvent(read, level))

-----------------------------------------------------------------------------
(* Interrupt control *)

ConfigureInterrupt(pin, type, enable) ==
  [pin EXCEPT !.interrupt_type = type, !.interrupt_enabled = enable,
              !.interrupt_pending = FALSE]

EnableInterrupt(pin) == [pin EXCEPT !.interrupt_enabled = TRUE]

DisableInterrupt(pin) ==
  [pin EXCEPT !.interrupt_enabled = FALSE, !.interrupt_pending = FALSE]

ClearPending(pin) == [pin EXCEPT !.interrupt_pending = FALSE]

-----------------------------------------------------------------------------
(* Functions beside the mode *)

EnableAdc(pin, wide) == AdcReadings([pin EXCEPT !.adc_enabled = TRUE, !.wide_range = wide])

DisableAdc(pin) == [pin EXCEPT !.adc_enabled = FALSE]

ReadAdc(pin) == {EmitEvent(Done(s), TRUE) : s \in AdcReadings(pin)}

EnableDac(pin) == UpdateDac([pin EXCEPT !.dac_enabled = TRUE])

DisableDac(pin) == [pin EXCEPT !.dac_enabled = FALSE]

WriteDac(pin, value) ==
  LET written == Done(UpdateDac([pin EXCEPT !.dac_value = value]))
  IN IF value = pin.dac_value THEN written ELSE EmitEvent(written, value # 0)

EnablePwm(pin, duty) ==
  UpdatePwm([pin EXCEPT !.pwm_enabled = TRUE, !.pwm_duty = duty, !.pwm_config = duty])

DisablePwm(pin) == [pin EXCEPT !.pwm_enabled = FALSE, !.pwm_config = NoConfig]

SetPwmDuty(pin, duty) ==
  LET set == [pin EXCEPT !.pwm_duty = duty,
                         !.pwm_config = IF @ = NoConfig THEN NoConfig ELSE duty]
  IN IF duty = pin.pwm_duty THEN Done(UpdatePwm(set))
     ELSE EmitEvent(Done(UpdatePwm(set)), duty # 0)

-----------------------------------------------------------------------------
(* Components *)

ConnectComponent(pin) == UpdateInput(Done([pin EXCEPT !.connected = TRUE]))

DisconnectComponent(pin) == UpdateInput(Done([pin EXCEPT !.connected = FALSE]))
=============================================================================
