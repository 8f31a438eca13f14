SPECIFICATION SettlementSpec
CONSTANTS
  s1 = s1  b0 = b0  o1 = o1  o2 = o2  p1 = p1  p2 = p2  v1 = v1
  Owners = {s1, b0}
  Sellers = {s1}
  Requests = {r1}
  Calls = {c1, c2}
  Orders = {o1, o2}
  Payments = {p1, p2}
  Refunds = {f1, f2}
  Payouts = {x1, x2}
  Methods = {"ONLINE"}
  MaxPayout = 1
  OwnStatuses = {"FAILED"}
  MaxInFlight = 2
  Txns <- Txn
  Offered <- AnAccount
  HandMade <- KeysTaken
  ReversalOf <- OneReversal
  Seller <- OneSeller
  Buyer <- OneBuyer
  Price <- Prices
  Basket <- MixedBasket
INVARIANTS OnePaymentEach MirrorsPayment RefundedAndPosted RefundsWithinPrice
           PendingIsReserved MoneyAccounted PaidIffDebited NeverOverdrawn
SYMMETRY Symmetry
CHECK_DEADLOCK FALSE
