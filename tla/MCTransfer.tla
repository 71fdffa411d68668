---------------------------- MODULE MCTransfer ----------------------------
(***************************************************************************)
(* Small instances of Transfer and Download for TLC.                       *)
(***************************************************************************)
EXTENDS Download, TLC

\* Ids, streams and contents are interchangeable.
Symmetry == Permutations(Ids) \cup Permutations(Streams) \cup Permutations(Versions)

=============================================================================
