SPECIFICATION Spec
CONSTANTS
  q1 = q1
  q2 = q2
  t1 = t1
  t2 = t2
  u1 = u1
  u2 = u2
  k1 = k1
  k2 = k2
  NoRequest = none
  NoTask = noTask
  NoUser = noUser
  Requests <- TwoRequests
  Tasks <- TwoTasks
  Users <- TwoUsers
  Calls <- TwoCalls
  MaxUpdates = 1
  MaxLosses = 1
SYMMETRY Symmetry
INVARIANT ResultComesBack
INVARIANT OneOpenRequest
INVARIANT CompletedWaitsForNone
INVARIANT OverrideFollowsRequest
PROPERTY CheckedAtCommit
CHECK_DEADLOCK FALSE
