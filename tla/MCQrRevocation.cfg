SPECIFICATION QuietSpec
CONSTANTS
  Certs = {c1}
  Tokens = {t1, t2}
  Requests = {r1}
  Scanners = {s1}
  OpsCalled <- StatusOps
  None = None
INVARIANTS RevocationIsImmediate
CHECK_DEADLOCK FALSE
