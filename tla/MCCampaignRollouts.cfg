SPECIFICATION Spec
CONSTANTS
  d1 = d1
  d2 = d2
  operator = operator
  admin = admin
  r1 = r1
  r2 = r2
  NoUser = NoUser
  Devices <- TwoDevices
  Users <- OperatorAndAdmin
  SuperAdmins <- AdminOnly
  Requests <- TwoRequests
  MaxRollouts = 2
  MaxVersion = 2
CONSTRAINT OneUserInEditedGroups
SYMMETRY Symmetry
INVARIANT OneCreatedAtATime
INVARIANT TargetsAreMembers
INVARIANT RolledBackIsClosed
PROPERTY NeverReopened
CHECK_DEADLOCK FALSE
