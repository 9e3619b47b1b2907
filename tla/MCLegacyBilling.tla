-------------------------- MODULE MCLegacyBilling --------------------------
(* Small instances of LegacyBilling for TLC: the payment of a recurring    *)
(* invoice fails and the subscription is unpaid, which ends it here; then  *)
(* the invoice is paid and Stripe has the subscription active again.       *)
EXTENDS LegacyBilling, TLC

CONSTANTS inv, refused, ended, paid, resumed

OneInvoice ==
    (refused :> inv) @@ (ended :> NoInvoice) @@ (paid :> inv) @@ (resumed :> NoInvoice)

WhatEventsSay ==
    (refused :> "failed") @@ (ended :> "failed") @@ (paid :> "succeeded") @@ (resumed :> "active")

WhenCreated == (refused :> 1) @@ (ended :> 2) @@ (paid :> 3) @@ (resumed :> 4)

Symmetry == Permutations(Workers)
=============================================================================
