--------------------------- MODULE UpgradePhases ---------------------------
(***************************************************************************)
(* The lifecycle of one OPNsense upgrade cycle: the phases recorded in     *)
(* state.json, the documented transition table, and the guards the phase   *)
(* functions of internal/upgrade really apply.  Everything here is a       *)
(* constant expression, shared by the concrete model (Upgrade) and by the  *)
(* abstract lifecycle it implements (UpgradeLifecycle).                    *)
(***************************************************************************)

Phases == {"empty", "prepared", "executing", "executed", "execute_failed",
           "execute_hung", "validated_pass", "validated_partial",
           "validated_fail", "rolled_back", "rollback_failed", "committed"}

\* The table of state.go.  "rollback_failed" has no outgoing edge.
allowedTransitions ==
       ({"empty"}             \X {"prepared"})
  \cup ({"prepared"}          \X {"executing", "prepared"})
  \cup ({"executing"}         \X {"executed", "execute_failed", "execute_hung"})
  \cup ({"executed"}          \X {"validated_pass", "validated_partial",
                                  "validated_fail"})
  \cup ({"execute_failed"}    \X {"validated_pass", "validated_partial",
                                  "validated_fail", "rolled_back",
                                  "rollback_failed"})
  \cup ({"execute_hung"}      \X {"rolled_back", "rollback_failed"})
  \cup ({"validated_pass"}    \X {"committed"})
  \cup ({"validated_partial"} \X {"rolled_back", "rollback_failed", "committed"})
  \cup ({"validated_fail"}    \X {"rolled_back", "rollback_failed"})
  \cup ({"rolled_back"}       \X {"committed"})
  \cup ({"committed"}         \X {"prepared"})

\* Prepare and Execute consult the table.
CanTransition(from, to) == <<from, to>> \in allowedTransitions

\* Validate, Rollback and Commit each carry a list of their own.
validateAllowedFrom(p) == p \in {"executed", "execute_failed", "rolled_back"}

rollbackAllowedFrom(p) == p \in {"executed", "execute_failed", "execute_hung",
                                 "validated_fail", "validated_partial",
                                 "prepared"}

commitAllowedFrom(p) == p \in {"validated_pass", "rolled_back"}

\* The verdicts AggregateChecks can reach over a non-empty check list, and the
\* phase Validate records for one under the operator's accept_partial switch.
Verdicts == {"all_pass", "partial", "all_fail"}

selectValidatePhase(verdict, acceptPartial) ==
  CASE verdict = "all_pass"                  -> "validated_pass"
    [] verdict = "partial" /\ acceptPartial  -> "validated_partial"
    [] OTHER                                 -> "validated_fail"

\* GC pins the recorded snapshot except in these phases.
gcUnprotected(p) == p \in {"empty", "committed", "rollback_failed"}

=============================================================================
