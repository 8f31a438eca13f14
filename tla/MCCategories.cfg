SPECIFICATION PartsSpec
CONSTANTS
  Ids = {i1, i2, i3}
  Slugs = {s1, s2, s3}
  Products = {p1, p2}
  c1 = c1  c2 = c2  c3 = c3
  Calls = {c1, c2, c3, c4}
  EntityCalls = {c4}
  Setters = {c1, c2, c3}
  Kinds = {"account", "address", "image", "profile"}
SYMMETRY Symmetry
INVARIANTS TreeComplete PlacedUnderParent OneDefault
PROPERTY DefaultKept
CHECK_DEADLOCK FALSE
