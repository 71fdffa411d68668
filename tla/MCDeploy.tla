------------------------------ MODULE MCDeploy ------------------------------
(***************************************************************************)
(* Small instances of Deploy for TLC.                                      *)
(***************************************************************************)
EXTENDS Deploy, TLC

CONSTANTS g1, g2, b1

TwoGood       == {g1, g2}
TwoGoodOneBad == {g1, g2, b1}
NoReboot      == {"crash", "write"}
OnlyCrash     == {"crash"}

Symmetry == Permutations(TwoGood)

=============================================================================
