SPECIFICATION Spec
CONSTANTS
  c1 = c1
  FullChain = 10
  RestOfChain = 0
  Certs = {c1, c2}
  Batches = {b1}
  Requests = {r1, r2}
  Consumer = consumer
  LabEvents = {e1}
  EventBatch <- MCEventBatch
  Counters = {k1}
  MaxEvents <- MCMaxEvents
  MaxSeq = 2
  None = None
SYMMETRY Symmetry
PROPERTIES DecisionIsFinal
CHECK_DEADLOCK FALSE
