SPECIFICATION PartsSpec
CONSTANTS
  o1 = o1  o2 = o2
  Orders = {o1, o2}
  Calls = {c1, c2, c3}
  Goals = {"CONFIRMED", "PROCESSING", "SHIPPED", "DELIVERED", "CANCELLED", "REFUNDED"}
  Outcomes = {"SUCCEEDED", "FAILED"}
  Lines <- TwoPieces
  FromCheckout = {o2}
  Covered = {o1}
  c1 = c1  c2 = c2  c3 = c3
  u1 = u1
  Ids = {"r1", "r2"}  First = "r1"
  Callers = {c1, c2}
  Kinds = {"shipment", "payment", "payout", "notification", "inventory", "cart", "user", "product", "shop"}
  OneRow = {"shipment", "payment", "payout", "inventory", "cart", "notification", "product"}
  OneCaller = {"product", "shop"}
  MaxStock = 3  MaxInCart = 2
  Prices = {1, 2}
  Owners = {u1}
  Txns = {"t", "REV-t", "REV-REV-t"}
  Clerks = {c1, c2, c3, c4}
  HandMade <- SomeEntries
  Offered <- OneBalance
  ReversalOf <- Rev
SYMMETRY Symmetry
INVARIANTS ShippedWasPaid NewsIsTrue CheckoutOrdersStay  BooksBalance
PROPERTIES FinalKept PaymentFollows 
CHECK_DEADLOCK FALSE
