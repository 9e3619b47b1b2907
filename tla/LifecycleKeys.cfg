\* Two requests at a time with one key, either gateway, one crash; a call to Stripe may take
\* longer than the 60 s after which its record is taken over.
SPECIFICATION FairSpec
CONSTANTS
  r1 = r1
  r2 = r2
  k1 = k1
  Requests = {r1, r2}
  Keys = {k1}
  Gateways = {"shopify", "stripe"}
  MaxCrashes = 1
INVARIANTS TypeOK OneHolder SuccessIsReal
PROPERTIES ConfirmedStays EveryActionSettles
CHECK_DEADLOCK FALSE
