------------------------------ MODULE MCDrain ------------------------------
(***************************************************************************)
(* Small instances of Drain for TLC.  The counters stop at their bounds,   *)
(* so a run may end with nothing left to do.                               *)
(***************************************************************************)
EXTENDS Drain

=============================================================================
