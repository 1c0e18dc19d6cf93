SPECIFICATION Spec
CONSTANTS
  c1 = c1
  FullChain = 10
  RestOfChain = 10
  Certs = {c1, c2}
  Batches = {b1}
  Requests = {r1}
  Consumer = consumer
  LabEvents = {e1, e2}
  EventBatch <- MCEventBatch
  Counters = {k1}
  MaxEvents <- MCMaxEvents
  MaxSeq = 2
  None = None
PROPERTIES LifecycleSpec
CHECK_DEADLOCK FALSE
