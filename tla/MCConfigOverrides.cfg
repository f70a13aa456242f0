SPECIFICATION SerialSpec
CONSTANTS
  plain = plain
  valued = valued
  r1 = r1
  r2 = r2
  Rollouts <- PlainAndValued
  WithValues <- ValuedOnly
  Handlers <- TwoRequests
  MaxRows = 3
SYMMETRY Symmetry
INVARIANT AppliedWasGiven
INVARIANT SerialPrecedence
PROPERTY DecisionsStand
CHECK_DEADLOCK FALSE
