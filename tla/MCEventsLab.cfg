SPECIFICATION MCFairSpec
CONSTANTS
  MaxMessages = 2
  MaxInterruptions = 0
  Batches = {b1}
  Tests = {t1}
  LabCalls = {l1}
  Coops = {}
  Members = {}
  CoopCalls = {}
  Events = {l1}
  Nothing = Nothing
  Nobody = Nobody
PROPERTIES LabResultsAdvanceCertification
CHECK_DEADLOCK FALSE
