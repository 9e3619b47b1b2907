\* Two overlapping invocations, which may die, fail to write or be told GraphQL
\* errors, each twice; leases end at any time. The run looks no further than the
\* step with which a job gets a rival or an answer is not written: no property
\* but TypeOK says anything of what follows.
SPECIFICATION Spec
CONSTANTS
  w1 = w1
  w2 = w2
  pen = pen
  cup = cup
  Workers = {w1, w2}
  NoVariant = NoVariant
  Variants = {pen, cup}
  OwnVariants = {cup}
  MaxAttempts = 3
  Faults = {"crash", "db", "graphql"}
  MaxFaults = 2
SYMMETRY Symmetry
CONSTRAINT Sheltered
INVARIANTS TypeOK AtMostOneGift NoGiftForgotten
PROPERTIES ImplementsOneGift
CHECK_DEADLOCK FALSE
