CONSTANTS
  Configs = {c1}
  Rollouts = {r1}
  Handlers = {h1, h2}
  MaxVersions = 2
  MaxAttempts = 3
  MaxIncidents = 3
SPECIFICATION MCSpec
CHECK_DEADLOCK FALSE
INVARIANT OneChance
INVARIANT NothingForgotten
INVARIANT RolloutIncidentAgrees
PROPERTY RetryIsAnswered
