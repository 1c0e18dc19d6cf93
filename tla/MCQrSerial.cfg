SPECIFICATION QuietSpec
CONSTANTS
  Certs = {c1}
  Tokens = {t1, t2, t3}
  Requests = {r1}
  Scanners = {s1, s2}
  OpsCalled <- StatusOps
  None = None
SYMMETRY Symmetry
INVARIANTS OneActiveQr AnswersFollowDecisions
CHECK_DEADLOCK FALSE
