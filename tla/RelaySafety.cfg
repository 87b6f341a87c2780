SPECIFICATION Spec
CONSTANTS
  Null = Null
  a1 = a1
  a2 = a2
  Accounts = {a1, a2}
  Workers = {w1, w2}
  Details = {d1, d2}
  From <- MCFrom
  Amounts = {1}
  Dust = 2
  Balances = {0, 1}
  Calls = {c1, c2}
  Environments <- Concurrent
INVARIANTS TypeOK CheckedForPayer ReturnedMined RetrySafe
SYMMETRY Symmetry
CHECK_DEADLOCK FALSE
