CONSTANTS
  Tokens = {t1}
  Accounts = {a1, a2}
  Buyer = a2
  Seller = a1
  Prices = {40000}
  Payments = {20000, 40000}
  Calls = {c1, c2}
  MaxLocks = 2
  MaxPaid = 60000
  None = None
SPECIFICATION MCOrderly
CHECK_DEADLOCK FALSE
INVARIANT ListsSettleFirst
