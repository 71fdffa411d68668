----------------------------- MODULE MCUpgrade -----------------------------
(***************************************************************************)
(* Small instances of Upgrade for TLC.                                     *)
(***************************************************************************)
EXTENDS Upgrade, TLC

AllCommands == Verbs

\* Firmware states and foreign snapshots are interchangeable.
Symmetry == Permutations(Fw) \cup Permutations(UserNames)
              \cup Permutations(WatchdogNames)

=============================================================================
