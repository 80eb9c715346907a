CONSTANTS
  Tokens = {t1}
  Accounts = {a1, a2}
  Buyer = a2
  Seller = a1
  Prices = {20000, 40000}
  Payments = {20000, 40000}
  Calls = {c1, c2}
  MaxLocks = 2
  MaxPaid = 40000
  None = None
SPECIFICATION MCOrderlyFair

CHECK_DEADLOCK FALSE
INVARIANTS InTimePaymentIsKept SoldOnce SellerOwns FullyCovered

PROPERTY PaidIsSold
