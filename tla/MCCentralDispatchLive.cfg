SPECIFICATION HistoryFairSpec
CONSTANTS
  d1 = d1
  l1 = l1
  Poll = poll
  NoDevice = nobody
  Devices <- OneDevice
  Loops <- OneLoop
  MaxAttempts = 3
  MaxCrashes = 0
  MaxSwitches = 1
  Lossy = TRUE
PROPERTY TargetsGetResults
