CONSTANTS
  minTickInterval = 30
  Settings <- MCSettings
  duration <- MCDuration
  Invalid = Invalid
  MaxTickers = 4
  MaxInvalid = 1
SPECIFICATION FairTickerSpec
INVARIANTS
  OneTickerAtWantedInterval
PROPERTIES
  RestartCompletes
CHECK_DEADLOCK FALSE
