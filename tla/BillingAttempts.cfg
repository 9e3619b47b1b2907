\* Two invocations, a failure and a success of two attempts, the engine, an operator, one
\* fault.
SPECIFICATION FairSpec
CONSTANTS
  w1 = w1
  w2 = w2
  a1 = a1
  a2 = a2
  first = first
  second = second
  Workers = {w1, w2}
  Events = {first, second}
  MaxFaults = 1
  Attempts = {a1, a2}
  AttemptOf <- OneEach
  OutcomeOf <- FailedThenPaid
INVARIANTS TypeOK SuccessIsComplete ToldIsRecorded AuditedIsPaid
PROPERTIES EveryEventAnswered
CHECK_DEADLOCK FALSE
