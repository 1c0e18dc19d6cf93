SPECIFICATION InspectionSpec
CONSTANTS
  MostEvents = 5
  Certs = {c1}
  Batches = {b1}
  Requests = {r1}
  Consumer = consumer
  LabEvents = {e1}
  EventBatch <- MCEventBatch
  Counters = {k1}
  MaxEvents <- MCMaxEvents
  MaxSeq = 1
  Visits = {i1, i2}
  Visitors = {v1, v2}
  None = None
INVARIANTS StatusExplained
CHECK_DEADLOCK FALSE
