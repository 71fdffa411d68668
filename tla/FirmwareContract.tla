-------------------------- MODULE FirmwareContract --------------------------
(***************************************************************************)
(* Who may change the guest's firmware, and when.  The operator may until  *)
(* execute has begun; execute may while it is under way, unless it is a    *)
(* dry run; a failed execute may leave something behind that goes on       *)
(* (a command whose stream was lost, a release staged for the next boot).  *)
(* Once a success is recorded nothing of the cycle touches it again.       *)
(***************************************************************************)
CONSTANTS Disks  \* contents of the guest's disk

VARIABLES
  phase,  \* state.json
  disk,   \* what is installed or staged
  dry,    \* opnsense.upgrade.dry_run_execute
  busy    \* a command of the cycle may still change the disk

vars == <<phase, disk, dry, busy>>

Init == phase = "empty" /\ disk \in Disks /\ dry \in BOOLEAN /\ busy = FALSE

Changes == disk' \in Disks /\ UNCHANGED dry

OperatorChanges == phase \in {"empty", "prepared"} /\ Changes /\ UNCHANGED <<phase, busy>>

Prepare == /\ phase \in {"empty", "prepared"} /\ phase' = "prepared"
           /\ UNCHANGED <<disk, dry, busy>>

Begin == /\ phase = "prepared" /\ phase' = "executing"
         /\ UNCHANGED <<disk, dry, busy>>

Apply == phase = "executing" /\ ~dry /\ Changes /\ busy' \in BOOLEAN /\ UNCHANGED phase

Succeed == phase = "executing" /\ ~busy /\ phase' = "executed" /\ UNCHANGED <<disk, dry, busy>>

Fail == /\ phase = "executing" /\ phase' \in {"execute_failed", "execute_hung"}
        /\ UNCHANGED <<disk, dry, busy>>

Leftover == /\ phase \in {"execute_failed", "execute_hung"} /\ ~dry
            /\ Changes /\ busy' \in BOOLEAN /\ (busy' => busy) /\ UNCHANGED phase

Next == OperatorChanges \/ Prepare \/ Begin \/ Apply \/ Succeed \/ Fail \/ Leftover

Spec == Init /\ [][Next]_vars

=============================================================================
