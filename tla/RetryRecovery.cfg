\* One invocation at a time, crashes, failed emits, and outside events.
SPECIFICATION FairSpec
CONSTANTS
  w1 = w1
  Workers = {w1}
  Cycles = 1
  MaxRetries <- PaymentRetry
  MaxReconciliations = 2
  FailureAction <- SkipThenPause
  ContractStatuses <- PausedExpired
  AppMayReject = FALSE
  Faults = {"crash", "emit", "outside", "contract"}
  MaxFaults = 1
PROPERTIES EveryJobFinishes EveryFinalActionDone
CHECK_DEADLOCK FALSE
