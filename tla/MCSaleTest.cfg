CONSTANTS
  u1 = u1
  u2 = u2
  k1 = k1
  h1 = h1
  h2 = h2
  Tokens <- MCTokens
  Users <- MCUsers
  Calls <- MCCalls
  Accounts = {k1, k2, admin, stranger, nobody}
  Admin = admin
  Stranger = stranger
  Nobody = nobody
  Prices = {20000, 40000}
  Payments = {20000, 40000}
  Workers = {w1}
  MaxLocks = 2
  MaxPaid = 40000
  MaxFaults = 1
  None = None
SPECIFICATION MCSpec
CHECK_DEADLOCK FALSE
INVARIANTS OkMeansPaidOut ErrMeansUnsettled PayoutsFit
PROPERTY ServedToTheEnd
