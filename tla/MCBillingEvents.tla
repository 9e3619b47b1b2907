-------------------------- MODULE MCBillingEvents --------------------------
(* Small instances of BillingEvents for TLC: of the two attempts of a      *)
(* cycle the first fails and the second succeeds.                          *)
EXTENDS BillingEvents, TLC

CONSTANTS a1, a2, first, second

OneEach == (first :> a1) @@ (second :> a2)

FailedThenPaid == (first :> "failed") @@ (second :> "succeeded")
=============================================================================
