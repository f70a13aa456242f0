SPECIFICATION SerialSpec
CONSTANTS
  d1 = d1
  d2 = d2
  w1 = w1
  w2 = w2
  NoDevice = NoDevice
  Devices <- TwoDevices
  Workers <- TwoWorkers
  MaxWindow = 2
  ThresholdNum = 5
  ThresholdDen = 100
SYMMETRY Symmetry
INVARIANT CountersNeverOverstate
PROPERTY ResultIsFinal
PROPERTY FetchedNeverSkipped
PROPERTY KeepsContract
INVARIANT SerialPromises
PROPERTY SerialSteps
