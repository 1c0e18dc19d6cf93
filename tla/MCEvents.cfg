SPECIFICATION MCFairSpec
CONSTANTS
  MaxMessages = 2
  MaxInterruptions = 1
  Batches = {b1}
  Tests = {t1}
  LabCalls = {l1, l2}
  Coops = {c1}
  Members = {m1}
  CoopCalls = {l1, l2}
  Events = {l1, l2}
  Nothing = Nothing
  Nobody = Nobody
INVARIANTS TypeOK CommittedMeansHandled OutcomesSupported OneResultPerCall RepeatsExplained
PROPERTIES SuspensionHolds RegistrationsStand MessagesGetHandled GroupSpec
CHECK_DEADLOCK FALSE
