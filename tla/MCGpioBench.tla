---------------------------- MODULE MCGpioBench -----------------------------
(* GPIO2 is plain, GPIO25 has a DAC, GPIO33 can be an ADC input and GPIO34 is *)
(* input-only; the pins share nothing but the workspace, so a board uses one of them.      *)
EXTENDS GpioBench

MCPins == {2, 25, 33, 34}
MCChannels == {2}
Board(on, uses) == [pins |-> on, uses |-> uses]
MCBoards ==
  {Board({2}, {"interrupt"}), Board({2}, {"pwm"}), Board({2}, {"capture"}),
   Board({25}, {"dac"}), Board({33}, {"adc"}), Board({34}, {"adc"})}
MCInputOnly == {34}
MCAdcMode == {33, 34}
MCDacPins == {25}
MCConfigs ==
  {[DefaultConfig("INPUT") EXCEPT !.pull_up = TRUE, !.interrupt_type = "NEGEDGE"],
   [DefaultConfig("ADC") EXCEPT !.wide_range = TRUE],
   [DefaultConfig("PWM") EXCEPT !.pwm_duty = 100]}
MCModesTried == {"DISABLED", "OUTPUT", "DAC"}
MCTypes == {"NEGEDGE", "HIGH_LEVEL"}
MCDuties == {50, 100}
MCDacValues == {0, 200}
MCSliderValues == {0, 4}
=============================================================================
