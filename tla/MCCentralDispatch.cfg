SPECIFICATION HistorySpec
CONSTANTS
  d1 = d1
  d2 = d2
  l1 = l1
  l2 = l2
  Poll = poll
  NoDevice = nobody
  Devices <- TwoDevices
  Loops <- TwoLoops
  MaxAttempts = 2
  MaxCrashes = 1
  MaxSwitches = 1
  Lossy = TRUE
CONSTRAINT OneIsPlain
SYMMETRY Symmetry
INVARIANT OneHolderInTurn
INVARIANT SentOnceInTurn
INVARIANT RetryNeverLost
INVARIANT HarmHasItsCause
