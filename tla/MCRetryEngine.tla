--------------------------- MODULE MCRetryEngine ---------------------------
(* Small instances of RetryEngine for TLC. *)
EXTENDS RetryEngine, TLC

OneRetry     == [k \in Kinds |-> 1]
PaymentRetry == [k \in Kinds |-> IF k = "PAYMENT" THEN 1 ELSE 0]
NoRetry      == [k \in Kinds |-> 0]

SkipThenPause == [k \in Kinds |-> IF k = "PAYMENT" THEN "PAUSE" ELSE "SKIP"]
AlwaysCancel  == [k \in Kinds |-> "CANCEL"]

PausedExpired == {"active", "paused", "expired"}

Symmetry == Permutations(Workers)
=============================================================================
