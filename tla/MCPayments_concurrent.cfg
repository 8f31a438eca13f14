SPECIFICATION FairSpec
CONSTANTS
  s1 = s1  b = b  o1 = o1  o2 = o2  p1 = p1  p2 = p2  f1 = f1  f2 = f2  v1 = v1
  Owners = {s1, b}
  Requests = {r1, r2}
  Orders = {o1, o2}
  Payments = {p1, p2}
  Refunds = {f1}
  Methods = {"ONLINE", "COD"}
  Txns <- Txn
  Offered = {}
  HandMade <- KeysTaken
  ReversalOf <- OneReversal
  Seller <- OneSeller
  Buyer <- OneBuyer
  Price <- UnitPrices
  Basket <- MixedBasket
INVARIANTS SettledIffCredited RefundPostedWhole PaidOrderWasPaid
PROPERTIES KeepsPromise HandlersEnd
CHECK_DEADLOCK FALSE
