-------------------------- MODULE MCNotifications --------------------------
(* Small instances of Notifications for TLC. *)
EXTENDS Notifications, TLC

CONSTANTS e1, e2, w1, w2

SummaryOnly == {Base}

ReportTypes == {"delivered", "complained"}

Symmetry == Permutations(Workers)
=============================================================================
