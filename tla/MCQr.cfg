SPECIFICATION Spec
CONSTANTS
  Certs = {c1}
  Tokens = {t1, t2}
  Requests = {r1, r2}
  Scanners = {s1}
  OpsCalled <- MCDecisions
  None = None
INVARIANTS TypeOK ActiveWithinCalls
PROPERTIES RefusalReachesScanners
CHECK_DEADLOCK FALSE
