SPECIFICATION InspectionSpec
CONSTANTS
  MostEvents = 10
  Certs = {c1}
  Batches = {b1}
  Requests = {r1}
  Consumer = consumer
  LabEvents = {e1, e2}
  EventBatch <- MCEventBatch
  Counters = {k1}
  MaxEvents <- MCMaxEvents
  MaxSeq = 2
  Visits = {i1}
  Visitors = {v1, v2}
  None = None
SYMMETRY Symmetry
INVARIANTS InspectionTypeOK StatusAccounted GrantedAfterInspectionAndLab ReportedIsCompleted
PROPERTIES BypassedLedgerSpec
CHECK_DEADLOCK FALSE
