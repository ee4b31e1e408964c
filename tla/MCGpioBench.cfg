SPECIFICATION BenchFairSpec
CONSTANTS
  Pins <- MCPins
  Channels <- MCChannels
  Boards <- MCBoards
  InputOnlyPins <- MCInputOnly
  AdcModePins <- MCAdcMode
  DacPins <- MCDacPins
  Duties <- MCDuties
  Types <- MCTypes
  PinConfigs <- MCConfigs
  ModesTried <- MCModesTried
  DacValues <- MCDacValues
  SliderValues <- MCSliderValues
  MaxPoints = 2
  DroppedPoints = 2
INVARIANTS
  InputsDriveNothing
  ConnectedIsPlaced
  WaveformIsRecent
PROPERTIES
  LedFollowsPin
  LedCatchesUp
