--------------------------- MODULE MCInstallation ---------------------------
(* Small instances of Installation for TLC. *)
EXTENDS Installation, TLC

TwoUninstallations == 1 .. 2

Symmetry == Permutations(Workers)
=============================================================================
