SPECIFICATION PhoneSpec
CONSTANTS
  u1 = u1
  u2 = u2
  t1 = t1
  Nobody = nobody
  NoTaskId = none
  Technicians <- TwoUsers
  TaskIds <- OneTask
  MaxChanges = 2
  MaxMishaps = 2
SYMMETRY Symmetry
INVARIANT NothingOverlooked
INVARIANT KeptUntilVerdict
INVARIANT MadeInOrder
INVARIANT OwnDataUnlessExcused
