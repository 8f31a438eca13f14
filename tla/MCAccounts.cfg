SPECIFICATION Spec
CONSTANTS
  Calls = {c1, c2}
  Users = {u1}
  Passwords = {p1, p2}
  Sessions = {s1, s2, s3}
  Tokens = {t1, t2}
INVARIANTS SuspendedIsOut KnowsPassword UsedOnce
PROPERTY SuspensionKept
SYMMETRY Symmetry
CONSTRAINT FewRaces
