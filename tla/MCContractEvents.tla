-------------------------- MODULE MCContractEvents --------------------------
(* Small instances of ContractEvents for TLC: a contract is created, then  *)
(* paused with other lines, then cancelled; an event without revision says *)
(* that it is active.                                                      *)
EXTENDS ContractEvents, TLC

CONSTANTS created, paused, cancelled, bare, line1, line2

InOrderRevisions ==
    (created :> 1) @@ (paused :> 2) @@ (cancelled :> 3) @@ (bare :> 0)

ContractStatuses ==
    (created :> "active") @@ (paused :> "paused") @@ (cancelled :> "cancelled")
    @@ (bare :> "active")

ContractLines ==
    (created :> {line1}) @@ (paused :> {line1, line2}) @@ (cancelled :> {line2})
    @@ (bare :> {line1})

Symmetry == Permutations(Workers)
=============================================================================
