----------------------------- MODULE MCKgniBte -----------------------------
(***************************************************************************)
(* Small instances of KgniBte: one user NIC that spreads its transactions  *)
(* over the channels, and one kernel NIC bound to its domain's channel.    *)
(***************************************************************************)
EXTENDS KgniBte

CONSTANTS usr, krn

UserAndKernel == {usr, krn}
KernelOnly    == {krn}
=============================================================================
