CONSTANTS
  Devices = {d1, d2}
  Firmware = {f1, f2}
  Rollouts = {r1, r2}
  Overrides = {o1}
  Callers = {w1, w2}
  None = None
  MaxLosses = 1
SPECIFICATION MCSpec
SYMMETRY Symmetry
CHECK_DEADLOCK FALSE
INVARIANT UsedIsThere
INVARIANT OncePerTarget
PROPERTY RollbackRestores
