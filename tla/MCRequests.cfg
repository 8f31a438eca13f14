SPECIFICATION PartsSpec
CONSTANTS
  Requests = {r1, r2}
  Keys = {k1}
  Payloads = {p1, p2}
  Records = {i1, i2, i3}
  Timeout = 1
  LockTtl = 2
  Retention = 3
  Handlers = {h1, h2}
  Pages = {s1, s2}
  ByHand = {"PENDING"}
INVARIANTS AnsweredByOwnPayload NoOrphanedLock ExecutedOnce ChargedOnce
PROPERTIES ClientsAnswered 
CHECK_DEADLOCK FALSE
