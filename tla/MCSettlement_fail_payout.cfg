SPECIFICATION SettlementSpec
CONSTANTS
  s1 = s1  b0 = b0  o1 = o1  o2 = o2  p1 = p1  p2 = p2  v1 = v1
  Owners = {s1, b0}
  Sellers = {s1}
  Requests = {r1}
  Calls = {c1}
  Orders = {o1, o2}
  Payments = {p1, p2}
  Refunds = {f1}
  Payouts = {x1}
  Methods = {"ONLINE"}
  MaxPayout = 2
  OwnStatuses = {}
  MaxInFlight = 1
  Txns <- Txn
  Offered = {}
  HandMade = {}
  ReversalOf <- NoReversal
  Seller <- OneSeller
  Buyer <- OneBuyer
  Price <- Prices
  Basket <- MixedBasket
PROPERTY FailureRecorded
CHECK_DEADLOCK FALSE
