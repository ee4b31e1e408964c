SPECIFICATION UartSpec
CONSTANTS
  Bytes <- MCBytes
  Configs <- MCConfigs
  LinkConfigs <- MCLinkConfigs
  Unconfigured <- MCUnconfigured
  Benches <- MCBenches
  Elapsed <- MCElapsed
  TxFifoSize = 2
  RxFifoSize = 1
  MaxBacklog = 8
  FollowSkewed = FALSE
INVARIANTS
  FrontIsOnTheLine
  LinkIsClean
PROPERTIES
  LinkDelivers
  OnlyResetDeafens
  FullFifoDrains
