\* Two overlapping invocations of the cron, one billing date, an emit that fails.
SPECIFICATION Spec
CONSTANTS
  w1 = w1
  w2 = w2
  Workers = {w1, w2}
  Cycles = 1
  MaxRetries <- PaymentRetry
  MaxReconciliations = 2
  FailureAction <- SkipThenPause
  ContractStatuses <- PausedExpired
  AppMayReject = FALSE
  Faults = {"emit"}
  MaxFaults = 1
SYMMETRY Symmetry
INVARIANTS TypeOK AtMostOneCharge OrdersMatchCharges EveryJobHandsOver
PROPERTIES ImplementsBilling
CHECK_DEADLOCK FALSE
