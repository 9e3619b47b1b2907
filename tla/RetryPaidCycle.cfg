\* A cycle paid outside the engine while its jobs are open.
SPECIFICATION Spec
CONSTANTS
  w1 = w1
  Workers = {w1}
  Cycles = 1
  MaxRetries <- PaymentRetry
  MaxReconciliations = 2
  FailureAction <- SkipThenPause
  ContractStatuses <- PausedExpired
  AppMayReject = FALSE
  Faults = {"outside"}
  MaxFaults = 1
PROPERTIES PaidCycleNotCharged
CHECK_DEADLOCK FALSE
