-------------------------- MODULE UpgradeLifecycle --------------------------
(***************************************************************************)
(* What the upgrade orchestrator promises its operator, with the processes *)
(* and qm abstracted away: one cycle at a time moves through the phases,   *)
(* and from the moment it is prepared the baseline snapshot is kept until  *)
(* the cycle has passed validation, was rolled back, or gave up, or a      *)
(* collector that could not read the state has had it on its list.         *)
(* Upgrade implements this specification when one invocation runs at a     *)
(* time; the edges are the guards the code applies, which are wider than   *)
(* allowedTransitions.                                                     *)
(***************************************************************************)
EXTENDS UpgradePhases

VARIABLES
  phase,  \* the recorded phase
  kept,   \* the recorded baseline of an unfinished cycle exists
  blind   \* a collector that could not read the state was free to take it

vars == <<phase, kept, blind>>

\* Phases in which the baseline may already have been released.
Released == {"validated_pass", "rolled_back", "rollback_failed"}

TypeOK == phase \in Phases /\ kept \in BOOLEAN /\ blind \in BOOLEAN

Open ==     \* prepare, also over a cycle that is only prepared
  /\ CanTransition(phase, "prepared")
  /\ phase' = "prepared" /\ kept' = TRUE /\ blind' = FALSE

Begin ==    \* execute marks the cycle before it touches the guest
  /\ CanTransition(phase, "executing")
  /\ phase' = "executing" /\ UNCHANGED <<kept, blind>>

End ==      \* execute records how the update went
  /\ phase = "executing"
  /\ phase' \in {"executed", "execute_failed", "execute_hung"}
  /\ UNCHANGED <<kept, blind>>

Judge ==    \* after a rollback only a full pass is recorded
  /\ validateAllowedFrom(phase)
  /\ phase' \in IF phase = "rolled_back" THEN {"validated_pass"}
                ELSE {"validated_pass", "validated_partial", "validated_fail"}
  /\ UNCHANGED <<kept, blind>>

Revert ==   \* a rollback needs its baseline to succeed
  /\ rollbackAllowedFrom(phase)
  /\ kept \/ blind
  /\ \/ phase' = "rolled_back" /\ kept
     \/ phase' = "rollback_failed"
  /\ UNCHANGED <<kept, blind>>

Overlook == \* gc cannot read the state and sweeps by age alone
  /\ ~blind /\ blind'
  /\ UNCHANGED <<phase, kept>>

Release ==  \* commit deletes the baseline before it records the commit
  /\ phase \in Released \/ blind
  /\ kept /\ ~kept'
  /\ UNCHANGED <<phase, blind>>

Commit ==
  /\ commitAllowedFrom(phase)
  /\ phase' = "committed" /\ kept' = FALSE
  /\ UNCHANGED blind

Abandon ==  \* reset: an unfinished cycle only with its baseline restored
  /\ phase \in {"empty", "committed"} \/ kept
  /\ phase' = "empty" /\ kept' = FALSE /\ blind' = FALSE

Init == phase = "empty" /\ kept = FALSE /\ blind = FALSE

Next == Open \/ Begin \/ End \/ Judge \/ Revert \/ Overlook \/ Release
          \/ Commit \/ Abandon

Spec == Init /\ [][Next]_vars

\* Every phase from which a rollback may start, and the update itself, has its
\* baseline: what makes an upgrade safe to try.
BaselineKept ==
  phase \in Phases \ ({"empty", "committed"} \cup Released) => kept \/ blind

=============================================================================
