CONSTANTS
  Configs = {c1}
  Uses = {u1, u2}
  Callers = {w1, w2}
  Requests = {r1, r2}
  MaxVersions = 2
SPECIFICATION Spec
SYMMETRY Symmetry
CHECK_DEADLOCK FALSE
INVARIANT RemovedIsUnused
INVARIANT UsesHaveVersions
INVARIANT AskedOnce
