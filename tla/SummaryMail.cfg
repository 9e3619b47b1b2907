\* Two senders, two events of a window, two attempts, two faults.
SPECIFICATION Spec
CONSTANTS
  w1 = w1
  w2 = w2
  e1 = e1
  e2 = e2
  Workers = {w1, w2}
  Events = {e1, e2}
  Types <- ReportTypes
  Reported <- SummaryOnly
  MaxAttempts = 2
  MaxFaults = 2
SYMMETRY Symmetry
INVARIANTS TypeOK ToldExactly ToldOnce ReportStands
CHECK_DEADLOCK FALSE
