SPECIFICATION Spec
CONSTANTS
  x = x  y = y  s1 = s1  s2 = s2
  Calls = {c1, c2}
  Buyers = {b1, b2}
  Products = {x}
  Shop <- OneShop
  Checkouts = {k1, k2}
  Rows = {r1, r2}
  Quantities = {1, 2}
  Stocks <- Scarce
  Edited = {x}
  MaxReleases = 2
SYMMETRY Symmetry
INVARIANTS ReservedAccounted NothingLeftBehind
PROPERTIES NoOversell AddsWithinStock
CHECK_DEADLOCK FALSE
