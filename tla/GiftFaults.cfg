\* One invocation at a time, every kind of fault, each once.
SPECIFICATION FairSpec
CONSTANTS
  w1 = w1
  w2 = w2
  cup = cup
  Workers = {w1}
  NoVariant = NoVariant
  Variants = {cup}
  OwnVariants = {cup}
  MaxAttempts = 2
  Faults = {"crash", "db", "graphql"}
  MaxFaults = 1
INVARIANTS GiftsWithinAttempts
PROPERTIES EveryJobDecided GiftConfirmed
CHECK_DEADLOCK FALSE
