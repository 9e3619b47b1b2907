\* Two invocations, two uninstallations, three calls of /install, one fault.
SPECIFICATION Spec
CONSTANTS
  w1 = w1
  w2 = w2
  Workers = {w1, w2}
  Events <- TwoUninstallations
  MaxFaults = 1
  MaxCalls = 3
PROPERTIES LateUninstallHarmless
CHECK_DEADLOCK FALSE
