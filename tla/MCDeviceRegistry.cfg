SPECIFICATION Spec
CONSTANTS
  d1 = d1
  d2 = d2
  c1 = c1
  c2 = c2
  n1 = n1
  n2 = n2
  m1 = m1
  t1 = t1
  w1 = w1
  w2 = w2
  None = none
  Devices <- TwoDevices
  Customers <- TwoCustomers
  Numbers <- TwoNumbers
  Names <- OneName
  Tasks <- OneTask
  Callers <- TwoCallers
CONSTRAINT CustomersApart
SYMMETRY Symmetry
PROPERTY StatusIsMeant
PROPERTY NothingBecomesShared
PROPERTY LinksHold
