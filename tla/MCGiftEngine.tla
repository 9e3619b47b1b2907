---------------------------- MODULE MCGiftEngine ----------------------------
(* Small instances of GiftEngine for TLC. *)
EXTENDS GiftEngine, TLC

Symmetry == Permutations(Workers)
=============================================================================
