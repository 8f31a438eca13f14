SPECIFICATION Spec
CONSTANTS
  x = x  y = y  s1 = s1  s2 = s2
  Calls = {c1}
  Buyers = {b1}
  Products = {x, y}
  Shop <- TwoShops
  Checkouts = {k1, k2}
  Rows = {r1}
  Quantities = {1}
  Stocks <- ScarceTwo
  Edited = {x}
  MaxReleases = 2
INVARIANTS ReleasedOnce
CHECK_DEADLOCK FALSE
