\* Two invocations, every order and repetition of four events, one fault.
SPECIFICATION FairSpec
CONSTANTS
  w1 = w1
  w2 = w2
  created = created
  paused = paused
  cancelled = cancelled
  bare = bare
  line1 = line1
  line2 = line2
  Workers = {w1, w2}
  Events = {created, paused, cancelled, bare}
  MaxFaults = 1
  Creates = {created}
  Revision <- InOrderRevisions
  StatusOf <- ContractStatuses
  LinesOf <- ContractLines
INVARIANTS TypeOK AcknowledgedIsApplied
PROPERTIES NeverBack MirrorConverges
CHECK_DEADLOCK FALSE
